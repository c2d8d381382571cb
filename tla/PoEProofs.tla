------------------------------ MODULE PoEProofs ------------------------------
(***************************************************************************)
(* Proofs about PoE, for any lists of findings, any call graph and sources:*)
(* types, that only a confirmed exploit changes a finding and never to a   *)
(* milder severity, and that a sandbox which came up leaves nothing behind *)
(* without a warning.                                                      *)
(***************************************************************************)
EXTENDS PoE, TLAPS

-----------------------------------------------------------------------------
(* The inductive invariant.                                                *)

Early == {"detect", "build", "network", "stage", "run", "health", "failed"}
Late  == {"rmi", "persist", "patch", "exit", "done"}

\* A finding is raised at most once, when the loop comes to it.
RaisedOnce ==
  /\ pc \in Early => found = scored
  /\ pc = "verify" => \A i \in Indices : i >= k => found[i] = scored[i]
  /\ \A i \in Indices : \/ found[i] = scored[i]
                        \/ found[i] = Raised(scored[i]) /\ result[i] = "success"

\* A row holds the severity of the scan or the one behind the verification.
RowsAreCurrent ==
  /\ pc \notin {"patch", "exit", "done"} => \A i \in Indices : stored[i] = scored[i].sev
  /\ \A i \in Indices : stored[i] \in {scored[i].sev, found[i].sev}

ExitTells ==
  /\ pc # "done" => exit = None
  /\ exit = 0 => \A i \in Indices : found[i].sev \notin {"BLOCK", "HIGH"}

Booted ==
  /\ pc \in Early => ~booted
  /\ booted /\ pc \in Late => res \ {"image"} \subseteq logged

IInv == TypeOK /\ RaisedOnce /\ RowsAreCurrent /\ ExitTells /\ Booted

-----------------------------------------------------------------------------
(* Severities.                                                             *)

SeverityNames == {"BLOCK", "HIGH", "MEDIUM", "LOW", "SUPPRESSED"}

LEMMA Ranks ==
  /\ Rank("BLOCK") = 1 /\ Rank("HIGH") = 2 /\ Rank("MEDIUM") = 3
  /\ Rank("LOW") = 4 /\ Rank("SUPPRESSED") = 5
  /\ {Severities[i] : i \in DOMAIN Severities} = SeverityNames
<1>1. /\ DOMAIN Severities = 1..5
      /\ Severities[1] = "BLOCK" /\ Severities[2] = "HIGH" /\ Severities[3] = "MEDIUM"
      /\ Severities[4] = "LOW" /\ Severities[5] = "SUPPRESSED"
  BY DEF Severities
<1>2. \A i \in 1..5 : i = 1 \/ i = 2 \/ i = 3 \/ i = 4 \/ i = 5
  OBVIOUS
<1>3. ASSUME NEW n \in 1..5 PROVE Rank(Severities[n]) = n
  <2>1. \A i \in DOMAIN Severities : Severities[i] = Severities[n] => i = n
    BY <1>1, <1>2
  <2> QED
    BY <1>1, <2>1 DEF Rank
<1>4. {Severities[i] : i \in DOMAIN Severities} = SeverityNames
  BY <1>1, <1>2 DEF SeverityNames
<1>5. /\ Rank(Severities[1]) = 1 /\ Rank(Severities[2]) = 2 /\ Rank(Severities[3]) = 3
      /\ Rank(Severities[4]) = 4 /\ Rank(Severities[5]) = 5
  BY <1>3
<1> QED
  BY <1>1, <1>4, <1>5

(* More confidence is never a milder severity.                              *)
LEMMA SeverityIsMonotone ==
  ASSUME NEW c \in 0..100, NEW d \in 0..100, c <= d
  PROVE  /\ SeverityFromConfidence(c) \in SeverityNames
         /\ Rank(SeverityFromConfidence(d)) <= Rank(SeverityFromConfidence(c))
BY Ranks DEF SeverityFromConfidence, SeverityNames

(* A finding handed over by the scan, and what a confirmation makes of it.  *)
LEMMA RaisedIsStronger ==
  ASSUME scored \in Scored, NEW i \in Indices
  PROVE  LET f == scored[i] IN
           /\ f.conf \in 0..100 /\ f.sev \in SeverityNames
           /\ Raised(f).conf \in 0..100 /\ Raised(f).sev \in SeverityNames
           /\ f.sev = "LOW" \/ Rank(Raised(f).sev) <= Rank(f.sev)
<1> DEFINE f == scored[i]
<1>1. /\ {"sev", "conf"} \subseteq DOMAIN f /\ f.conf \in 0..100 /\ f.sev \in SeverityNames
      /\ f.sev = "LOW" \/ Rank(f.sev) >= Rank(SeverityFromConfidence(f.conf))
  BY PoEAssumption, Ranks DEF Indices
<1>2. Boosted(f.conf) \in 0..100 /\ f.conf <= Boosted(f.conf)
  BY <1>1 DEF Boosted, Least, BoostPoEConfirmed
<1>3. Raised(f).conf = Boosted(f.conf) /\ Raised(f).sev = SeverityFromConfidence(Boosted(f.conf))
  BY <1>1 DEF Raised
<1> HIDE DEF f
<1>4. /\ SeverityFromConfidence(Boosted(f.conf)) \in SeverityNames
      /\ Rank(SeverityFromConfidence(Boosted(f.conf))) <= Rank(SeverityFromConfidence(f.conf))
  BY <1>1, <1>2, SeverityIsMonotone
<1>5. Rank(f.sev) \in Nat /\ Rank(SeverityFromConfidence(f.conf)) \in Nat
      /\ Rank(SeverityFromConfidence(Boosted(f.conf))) \in Nat
  <2>1. \A sev \in SeverityNames : Rank(sev) \in Nat
    BY Ranks DEF SeverityNames
  <2>2. SeverityFromConfidence(f.conf) \in SeverityNames
    BY <1>1, <1>2, SeverityIsMonotone
  <2> QED
    BY <1>1, <1>4, <2>1, <2>2
<1>6. f.sev = "LOW" \/ Rank(Raised(f).sev) <= Rank(f.sev)
  BY <1>1, <1>3, <1>4, <1>5, Ranks DEF SeverityNames
<1> QED
  BY <1>1, <1>2, <1>3, <1>4, <1>6 DEF f

-----------------------------------------------------------------------------
(* At first.                                                               *)

LEMMA InitIInv == Init => IInv
<1> SUFFICES ASSUME Init PROVE IInv
  OBVIOUS
<1> USE DEF Init
<1>1. \A i \in Indices : found[i].conf \in 0..100 /\ found[i].sev \in SeverityNames
  BY RaisedIsStronger
<1>2. TypeOK
  <2>1. DOMAIN found = Indices
    BY DEF Indices
  <2>2. result \in [Indices -> Statuses \cup {None}]
    <3>1. \A i \in Indices : Ineligible(i) \in Statuses
      BY DEF Ineligible, Statuses
    <3>2. \A i \in Indices : (IF IsEligible(i) THEN None ELSE Ineligible(i)) \in Statuses \cup {None}
      BY <3>1
    <3> QED
      BY <3>2
  <2>3. stored \in [Indices -> {Severities[i] : i \in DOMAIN Severities}]
    BY <1>1, Ranks
  <2>4. patch \in [Indices -> {"none", "not_attempted", "unsupported", "validation_failed", "generated"}]
    OBVIOUS
  <2> HIDE DEF Init
  <2>5. /\ pc = "detect" /\ scored \in Scored /\ k = 1 /\ res = {} /\ logged = {}
        /\ booted = FALSE /\ exit = None
    BY DEF Init
  <2>6. res \subseteq Resources /\ logged \subseteq Resources /\ k \in Nat \ {0}
    BY <2>5
  <2>9. booted \in BOOLEAN
    BY <2>5, Zenon
  <2>7. exit \in {0, 1, 2, None}
    BY <2>5
  <2>8. \A i \in Indices : found[i].conf \in 0..100
    BY <1>1
  <2> QED
    BY <2>1, <2>2, <2>3, <2>4, <2>5, <2>6, <2>7, <2>8, <2>9, Zenon DEF TypeOK
<1>3. RaisedOnce
  BY DEF RaisedOnce
<1>4. RowsAreCurrent
  BY DEF RowsAreCurrent
<1>5. ExitTells
  BY PoEAssumption DEF ExitTells
<1>6. Booted
  BY DEF Booted, Late
<1> QED
  BY <1>2, <1>3, <1>4, <1>5, <1>6 DEF IInv

-----------------------------------------------------------------------------
(* The steps, seen from what they do to findings, results and rows.        *)

LEMMA StepKinds ==
  ASSUME TypeOK, [Next]_vars
  PROVE  \/ /\ pc \in Early /\ pc' # "verify"
            /\ UNCHANGED <<scored, found, stored, patch, exit, k>>
            /\ result' \in [Indices -> Statuses \cup {None}]
            /\ pc' \in Early \cup {"rmi", "persist"}
         \/ /\ pc \in Early /\ pc' = "verify"
            /\ UNCHANGED <<scored, found, stored, patch, exit, k, result>>
         \/ Verify
         \/ /\ UNCHANGED <<scored, found, stored, patch, exit, k, result>>
            /\ <<pc, pc'>> \in {<<"verify", "teardown">>, <<"teardown", "rmi">>, <<"rmi", "persist">>}
         \/ PersistPoEResults \/ SuggestPatches \/ Exit
         \/ UNCHANGED vars
<1>1. ASSUME NEW S, NEW status \in Statuses, MarkAll(S, status)
      PROVE  result' \in [Indices -> Statuses \cup {None}]
  BY <1>1 DEF MarkAll, TypeOK
<1>2. {"language_unsupported", "failed_sandbox"} \subseteq Statuses
  BY DEF Statuses
<1>3. result \in [Indices -> Statuses \cup {None}]
  BY DEF TypeOK
<1>4. CASE Detect
  <2>1. result' \in [Indices -> Statuses \cup {None}]
    BY <1>1, <1>2, <1>3, <1>4 DEF Detect
  <2> QED
    BY <1>4, <2>1 DEF Detect, Goto, Keep, Early
<1>5. CASE BuildImage
  <2>1. result' \in [Indices -> Statuses \cup {None}]
    BY <1>1, <1>2, <1>3, <1>5 DEF BuildImage
  <2> QED
    BY <1>5, <2>1 DEF BuildImage, Goto, Keep, Early
<1>6. CASE CreateNetwork \/ StageProfile \/ RunContainer
  BY <1>3, <1>6 DEF CreateNetwork, StageProfile, RunContainer, Goto, Keep, Early
<1>7. CASE WaitHealthy
  BY <1>3, <1>7 DEF WaitHealthy, Goto, Keep, Early
<1>8. CASE BootFailed
  <2>1. result' \in [Indices -> Statuses \cup {None}]
    BY <1>1, <1>2, <1>8 DEF BootFailed
  <2> QED
    BY <1>8, <2>1 DEF BootFailed, Goto, Keep, Early
<1>9. CASE VerifyEnds \/ Teardown \/ RemoveImage
  BY <1>9 DEF VerifyEnds, Teardown, RemoveImage, Goto, Keep
<1> QED
  BY <1>4, <1>5, <1>6, <1>7, <1>8, <1>9 DEF Next, Terminated

(* Only the loop touches findings, and it comes to each of them once.       *)
LEMMA RaisedStep ==
  ASSUME IInv, [Next]_vars
  PROVE  RaisedOnce'
<1> USE DEF IInv
<1>1. TypeOK /\ RaisedOnce /\ scored \in Scored
  BY DEF TypeOK
<1>2. CASE pc \in Early /\ pc' # "verify" /\ UNCHANGED <<scored, found>>
  BY <1>1, <1>2 DEF RaisedOnce, Indices
<1>3. CASE pc \in Early /\ pc' = "verify" /\ UNCHANGED <<scored, found, result>>
  BY <1>1, <1>3 DEF RaisedOnce, Early, Indices
<1>4. CASE Verify
  <2>1. /\ pc = "verify" /\ pc' = "verify" /\ k' = k + 1 /\ scored' = scored /\ k \in Nat
        /\ Indices' = Indices
    BY <1>1, <1>4 DEF Verify, Keep, TypeOK, Indices
  <2>8. Indices \subseteq Nat
    <3>1. scored \in Seq({scored[i] : i \in DOMAIN scored})
      BY <1>1, PoEAssumption
    <3> QED
      BY <3>1 DEF Indices
  <2>2. PICK status : /\ MarkAll({k}, status)
                      /\ found' = IF status = "success" THEN [found EXCEPT ![k] = Raised(@)] ELSE found
    BY <1>4 DEF Verify, Position
  <2>3. DOMAIN found = Indices
    BY <1>1 DEF TypeOK
  <2>4. \A i \in Indices : i # k => found'[i] = found[i] /\ result'[i] = result[i]
    BY <2>2, <2>3 DEF MarkAll
  <2>5. ASSUME k \in Indices
        PROVE  \/ found'[k] = scored[k]
               \/ found'[k] = Raised(scored[k]) /\ result'[k] = "success"
    <3>1. found[k] = scored[k]
      BY <1>1, <2>1, <2>5 DEF RaisedOnce
    <3>2. result'[k] = status
      BY <2>2, <2>5 DEF MarkAll
    <3>3. CASE status = "success"
      BY <2>2, <2>3, <2>5, <3>1, <3>2, <3>3
    <3>4. CASE status # "success"
      BY <2>2, <3>1, <3>4
    <3> QED
      BY <3>3, <3>4
  <2>6. \A i \in Indices : i >= k' => found'[i] = scored[i]
    BY <1>1, <2>1, <2>4, <2>8 DEF RaisedOnce
  <2>7. ASSUME NEW i \in Indices
        PROVE  \/ found'[i] = scored[i]
               \/ found'[i] = Raised(scored[i]) /\ result'[i] = "success"
    <3>1. CASE i = k
      BY <2>5, <3>1
    <3>2. CASE i # k
      BY <1>1, <2>4, <3>2 DEF RaisedOnce
    <3> QED
      BY <3>1, <3>2
  <2>9. \A i \in Indices : Raised(scored[i])' = Raised(scored[i])
    BY <2>1 DEF Raised
  <2> QED
    BY <2>1, <2>6, <2>7, <2>9 DEF RaisedOnce, Early
<1>5. CASE UNCHANGED <<scored, found, result>> /\ pc' \notin Early \cup {"verify"}
  BY <1>1, <1>5 DEF RaisedOnce, Indices
<1>6. CASE PersistPoEResults \/ SuggestPatches \/ Exit
  BY <1>5, <1>6 DEF PersistPoEResults, SuggestPatches, Exit, Goto, Early
<1>7. CASE UNCHANGED vars
  BY <1>1, <1>7 DEF RaisedOnce, Indices, vars
<1> QED
  BY <1>1, <1>2, <1>3, <1>4, <1>5, <1>6, <1>7, StepKinds DEF Early

(* What a finding looks like, before a step and after it.                   *)
LEMMA FindingsAreSound ==
  ASSUME scored \in Scored, RaisedOnce, NEW i \in Indices
  PROVE  /\ found[i].conf \in 0..100 /\ found[i].sev \in SeverityNames
         /\ scored[i].sev \in SeverityNames
         /\ scored[i].sev = "LOW" \/ Rank(found[i].sev) <= Rank(scored[i].sev)
<1>1. found[i] = scored[i] \/ found[i] = Raised(scored[i])
  BY DEF RaisedOnce
<1>2. Rank(scored[i].sev) \in Nat
  BY RaisedIsStronger, Ranks DEF SeverityNames
<1> QED
  BY <1>1, <1>2, RaisedIsStronger

LEMMA TypeStep ==
  ASSUME IInv, [Next]_vars
  PROVE  TypeOK'
<1>1. TypeOK /\ RaisedOnce /\ scored \in Scored
  BY DEF IInv, TypeOK
<1>2. scored' = scored /\ Indices' = Indices
  <2>1. Verify => UNCHANGED scored
    BY DEF Verify, Keep
  <2>2. PersistPoEResults \/ SuggestPatches \/ Exit => UNCHANGED scored
    BY DEF PersistPoEResults, SuggestPatches, Exit
  <2>3. scored' = scored
    BY <1>1, <2>1, <2>2, StepKinds DEF vars
  <2> QED
    BY <2>3 DEF Indices
<1>3. pc' \in {"detect", "build", "network", "stage", "run", "health", "failed", "verify",
               "teardown", "rmi", "persist", "patch", "exit", "done"}
  <2>1. pc \in {"detect", "build", "network", "stage", "run", "health", "failed", "verify",
                "teardown", "rmi", "persist", "patch", "exit", "done"}
    BY <1>1 DEF TypeOK
  <2>2. Verify \/ UNCHANGED vars => pc' = pc
    BY DEF Verify, Keep, vars
  <2>3. PersistPoEResults \/ SuggestPatches \/ Exit => pc' \in {"patch", "exit", "done"}
    BY DEF PersistPoEResults, SuggestPatches, Exit, Goto
  <2> QED
    BY <1>1, <2>1, <2>2, <2>3, StepKinds DEF Early
<1>4. DOMAIN found' = Indices
  <2>1. DOMAIN found = Indices
    BY <1>1 DEF TypeOK
  <2>2. Verify => DOMAIN found' = Indices
    BY <2>1 DEF Verify
  <2>3. PersistPoEResults \/ SuggestPatches \/ Exit => UNCHANGED found
    BY DEF PersistPoEResults, SuggestPatches, Exit
  <2> QED
    BY <1>1, <2>1, <2>2, <2>3, StepKinds DEF vars
<1>5. \A i \in Indices : found'[i].conf \in 0..100
  <2>1. RaisedOnce'
    BY RaisedStep
  <2>2. \A i \in Indices : Raised(scored[i])' = Raised(scored[i])
    BY <1>2 DEF Raised
  <2> QED
    BY <1>1, <1>2, <2>1, <2>2, RaisedIsStronger DEF RaisedOnce
<1>6. result' \in [Indices -> Statuses \cup {None}]
  <2>1. result \in [Indices -> Statuses \cup {None}]
    BY <1>1 DEF TypeOK
  <2>2. CASE Verify
    <3>1. PICK status \in VerifyOne(found[Position(k)]) : MarkAll({Position(k)}, status)
      BY <2>2 DEF Verify
    <3>2. status \in Statuses
      <4>1. \A leaks \in BOOLEAN, reply \in Replies : Grade(leaks, reply) \in Statuses
        BY DEF Grade, Statuses
      <4>2. {"failed_sandbox", "failed_timeout", "inconclusive"} \subseteq Statuses
        BY DEF Statuses
      <4> QED
        BY <3>1, <4>1, <4>2 DEF VerifyOne
    <3> QED
      BY <2>1, <3>1, <3>2 DEF MarkAll
  <2>3. PersistPoEResults \/ SuggestPatches \/ Exit => UNCHANGED result
    BY DEF PersistPoEResults, SuggestPatches, Exit
  <2> QED
    BY <1>1, <2>1, <2>2, <2>3, StepKinds DEF vars
<1>7. k' \in Nat \ {0}
  <2>1. k \in Nat \ {0}
    BY <1>1 DEF TypeOK
  <2>2. Verify => k' = k + 1
    BY DEF Verify
  <2>3. PersistPoEResults \/ SuggestPatches \/ Exit => UNCHANGED k
    BY DEF PersistPoEResults, SuggestPatches, Exit
  <2> QED
    BY <1>1, <2>1, <2>2, <2>3, StepKinds DEF vars
<1>8. res' \subseteq Resources /\ logged' \subseteq Resources
  <2>1. res \subseteq Resources /\ logged \subseteq Resources
    BY <1>1 DEF TypeOK
  <2>2. CASE Detect \/ BuildImage \/ CreateNetwork \/ StageProfile \/ WaitHealthy \/ BootFailed
    BY <2>1, <2>2 DEF Detect, BuildImage, CreateNetwork, StageProfile, WaitHealthy, BootFailed,
                      Keep, Resources
  <2>3. CASE RunContainer
    BY <2>1, <2>3 DEF RunContainer, Keep, Resources
  <2>4. CASE Verify \/ VerifyEnds \/ RemoveImage
    BY <2>1, <2>4 DEF Verify, VerifyEnds, RemoveImage, Keep
  <2>5. CASE Teardown
    BY <2>1, <2>5 DEF Teardown, Keep
  <2>6. CASE PersistPoEResults \/ SuggestPatches \/ Exit
    BY <2>1, <2>6 DEF PersistPoEResults, SuggestPatches, Exit
  <2> QED
    BY <2>1, <2>2, <2>3, <2>4, <2>5, <2>6 DEF Next, Terminated, vars
<1>9. booted' \in BOOLEAN
  <2>1. booted \in BOOLEAN
    BY <1>1, Zenon DEF TypeOK
  <2>2. booted' = TRUE \/ booted' = booted
    BY DEF Next, Terminated, vars, Detect, BuildImage, CreateNetwork, StageProfile, RunContainer,
           WaitHealthy, BootFailed, Verify, VerifyEnds, Teardown, RemoveImage,
           PersistPoEResults, SuggestPatches, Exit, Keep
  <2> QED
    BY <2>1, <2>2, Zenon
<1>10. stored' \in [Indices -> {Severities[i] : i \in DOMAIN Severities}]
  <2>1. stored \in [Indices -> {Severities[i] : i \in DOMAIN Severities}]
    BY <1>1 DEF TypeOK
  <2>2. CASE PersistPoEResults
    <3>1. \A i \in Indices : found[i].sev \in {Severities[j] : j \in DOMAIN Severities}
      BY <1>1, FindingsAreSound, Ranks
    <3>2. PICK done : stored' = [i \in Indices |-> IF i \in done THEN found[i].sev ELSE stored[i]]
      BY <2>2 DEF PersistPoEResults
    <3> HIDE DEF Severities
    <3> QED
      BY <2>1, <3>1, <3>2
  <2>3. Verify \/ SuggestPatches \/ Exit => UNCHANGED stored
    BY DEF Verify, Keep, SuggestPatches, Exit
  <2> QED
    BY <1>1, <2>1, <2>2, <2>3, StepKinds DEF vars
<1>11. /\ patch' \in [Indices -> {"none", "not_attempted", "unsupported", "validation_failed", "generated"}]
       /\ exit' \in {0, 1, 2, None}
  <2>1. /\ patch \in [Indices -> {"none", "not_attempted", "unsupported", "validation_failed", "generated"}]
        /\ exit \in {0, 1, 2, None}
    BY <1>1 DEF TypeOK
  <2>2. CASE SuggestPatches
    BY <2>1, <2>2 DEF SuggestPatches
  <2>3. Verify \/ PersistPoEResults => UNCHANGED <<patch, exit>>
    BY DEF Verify, Keep, PersistPoEResults
  <2>4. Exit => UNCHANGED patch /\ exit' \in {0, 1, 2, None}
    BY DEF Exit
  <2> QED
    BY <1>1, <2>1, <2>2, <2>3, <2>4, StepKinds DEF vars
<1> QED
  BY <1>1, <1>2, <1>3, <1>4, <1>5, <1>6, <1>7, <1>8, <1>9, <1>10, <1>11, Zenon DEF TypeOK

(* Rows are written once, from the findings as Run returned them.           *)
LEMMA RowsStep ==
  ASSUME IInv, [Next]_vars
  PROVE  RowsAreCurrent'
<1>1. TypeOK /\ RaisedOnce /\ RowsAreCurrent /\ scored \in Scored
  BY DEF IInv, TypeOK
<1>2. CASE pc \in Early \cup {"verify", "teardown", "rmi"} /\ UNCHANGED <<scored, stored>>
  <2>1. \A i \in Indices : stored[i] = scored[i].sev
    BY <1>1, <1>2 DEF RowsAreCurrent, Early
  <2> QED
    BY <1>2, <2>1 DEF RowsAreCurrent, Indices
<1>3. CASE PersistPoEResults
  <2>1. pc' = "patch" /\ UNCHANGED <<scored, found>> /\ Indices' = Indices
    BY <1>3 DEF PersistPoEResults, Goto, Indices
  <2>2. \A i \in Indices : stored'[i] \in {stored[i], found[i].sev}
    BY <1>3 DEF PersistPoEResults
  <2> QED
    BY <1>1, <2>1, <2>2 DEF RowsAreCurrent
<1>4. CASE SuggestPatches \/ Exit \/ UNCHANGED vars
  BY <1>1, <1>4 DEF RowsAreCurrent, SuggestPatches, Exit, Goto, Indices, vars
<1>5. Verify => pc = "verify" /\ UNCHANGED <<scored, stored>>
  BY DEF Verify, Keep
<1> QED
  BY <1>1, <1>2, <1>3, <1>4, <1>5, StepKinds

(* The exit code is the one of the findings, which do not change any more.  *)
LEMMA ExitStep ==
  ASSUME IInv, [Next]_vars
  PROVE  ExitTells'
<1>1. TypeOK /\ ExitTells
  BY DEF IInv
<1>2. CASE pc # "done" /\ pc' # "done" /\ UNCHANGED exit
  BY <1>1, <1>2, PoEAssumption DEF ExitTells
<1>3. CASE SuggestPatches
  BY <1>1, <1>3, PoEAssumption DEF SuggestPatches, Goto, ExitTells
<1>4. CASE Exit
  BY <1>4 DEF Exit, Goto, ExitTells, Indices
<1>5. CASE UNCHANGED vars
  BY <1>1, <1>5 DEF ExitTells, Indices, vars
<1>6. Verify \/ PersistPoEResults => pc # "done" /\ pc' # "done" /\ UNCHANGED exit
  BY DEF Verify, PersistPoEResults, Goto, Keep
<1> QED
  BY <1>1, <1>2, <1>3, <1>4, <1>5, <1>6, StepKinds DEF Early

(* The teardown has a word for everything it could not remove.              *)
LEMMA BootedStep ==
  ASSUME IInv, [Next]_vars
  PROVE  Booted'
<1>1. Booted /\ res \subseteq Resources
  BY DEF IInv, TypeOK
<1>2. CASE Detect \/ BuildImage \/ CreateNetwork \/ StageProfile \/ RunContainer \/ BootFailed
  <2>1. pc \in Early
    BY <1>2 DEF Detect, BuildImage, CreateNetwork, StageProfile, RunContainer, BootFailed, Early
  <2>2. booted' = booted
    BY <1>2 DEF Detect, BuildImage, CreateNetwork, StageProfile, RunContainer, BootFailed, Keep
  <2> QED
    BY <1>1, <2>1, <2>2 DEF Booted
<1>3. CASE WaitHealthy
  <2>1. \/ pc' = "verify"
        \/ pc \in Early /\ booted' = booted
    BY <1>3 DEF WaitHealthy, Goto, Early
  <2> QED
    BY <1>1, <2>1 DEF Booted, Early, Late
<1>4. CASE Verify \/ VerifyEnds
  BY <1>4 DEF Verify, VerifyEnds, Goto, Keep, Booted, Early, Late
<1>5. CASE Teardown
  <2>1. PICK left \in SUBSET (Removes \cap res) :
          res' = (res \ Removes) \cup left /\ logged' = logged \cup left
    BY <1>5 DEF Teardown
  <2>2. res' \ {"image"} \subseteq logged'
    BY <1>1, <2>1 DEF Removes, Resources
  <2> QED
    BY <1>5, <2>2 DEF Teardown, Goto, Booted, Early
<1>6. CASE RemoveImage \/ PersistPoEResults \/ SuggestPatches \/ Exit
  <2>1. pc \in Late /\ pc' \in Late /\ booted' = booted /\ logged' = logged /\ res' \subseteq res
    BY <1>6 DEF RemoveImage, PersistPoEResults, SuggestPatches, Exit, Goto, Keep, Late
  <2> QED
    BY <1>1, <2>1 DEF Booted, Early, Late
<1>7. CASE UNCHANGED vars
  BY <1>1, <1>7 DEF Booted, vars
<1> QED
  BY <1>2, <1>3, <1>4, <1>5, <1>6, <1>7 DEF Next, Terminated

LEMMA NextIInv == IInv /\ [Next]_vars => IInv'
BY TypeStep, RaisedStep, RowsStep, ExitStep, BootedStep DEF IInv

LEMMA Invariance == Spec => []IInv
BY InitIInv, NextIInv, PTL DEF Spec

-----------------------------------------------------------------------------
(* The theorems.                                                           *)

(***************************************************************************)
(* The variables keep their types: whatever the verification does to it, a *)
(* confidence stays a percentage (config.go:65-68, poe.go:143-149).        *)
(***************************************************************************)
THEOREM TypeCorrect == Spec => []TypeOK
BY Invariance, PTL DEF IInv

(***************************************************************************)
(* Whatever the findings, the routes and the answers of the sandbox: only  *)
(* a confirmed exploit changes a finding, never to a milder severity, and  *)
(* no run exits clean while its table holds a row to block                 *)
(* (poe.go:143-149, main.go:205-217).                                      *)
(***************************************************************************)
THEOREM ConfirmationOnlyRaises == Spec => []OnlyConfirmationRaises
<1>1. IInv => OnlyConfirmationRaises
  <2> SUFFICES ASSUME IInv PROVE OnlyConfirmationRaises
    OBVIOUS
  <2>1. RaisedOnce /\ RowsAreCurrent /\ ExitTells /\ scored \in Scored
    BY DEF IInv, TypeOK
  <2>2. \A i \in Indices : /\ scored[i].sev = "LOW" \/ Rank(found[i].sev) <= Rank(scored[i].sev)
                           /\ found[i] # scored[i] => result[i] = "success"
    BY <2>1, FindingsAreSound DEF RaisedOnce
  <2>3. ASSUME exit = 0, NEW i \in Indices
        PROVE  stored[i] \notin {"BLOCK", "HIGH"}
    <3>1. found[i].sev \notin {"BLOCK", "HIGH"}
      BY <2>1, <2>3 DEF ExitTells
    <3>2. scored[i].sev \notin {"BLOCK", "HIGH"}
      BY <2>1, <3>1, FindingsAreSound, Ranks DEF SeverityNames
    <3> QED
      BY <2>1, <3>1, <3>2 DEF RowsAreCurrent
  <2> QED
    BY <2>2, <2>3 DEF OnlyConfirmationRaises
<1> QED
  BY <1>1, Invariance, PTL

(***************************************************************************)
(* Whatever fails in whatever order: once a sandbox that came up is torn   *)
(* down, every object of it that still exists but the image was warned     *)
(* about (sandbox.go:155-181).                                             *)
(***************************************************************************)
THEOREM NothingLeftSilently == Spec => []LeftoversAreLogged
<1>1. IInv => LeftoversAreLogged
  BY DEF IInv, Booted, Late, LeftoversAreLogged
<1> QED
  BY <1>1, Invariance, PTL
=============================================================================
