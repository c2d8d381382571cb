------------------------ MODULE ScanLifecycleProofs ------------------------
(***************************************************************************)
(* Proofs about ScanLifecycle, for every set of files, contents, runs and  *)
(* faults, any number of edits and any number of parallel runs: types, and *)
(* that no vulnerable content is lost silently.                            *)
(***************************************************************************)
EXTENDS ScanLifecycle, TLAPS

(* The tables, queues and labels are well typed at the start, and the       *)
(* strengthened invariant holds there: nothing was scanned yet.             *)
LEMMA InitInvariant == Init => IInv
<1> SUFFICES ASSUME Init PROVE IInv
  OBVIOUS
<1> USE DEF Init
<1>1. TypeOK
  BY LifecycleAssumption DEF TypeOK, NoFile, Labels, Stages
<1>2. Provenance
  BY DEF Provenance, NoFile
<1>3. Unvisited /\ QueueReported
  BY DEF Unvisited, QueueReported, NoFile
<1>4. OnItsWay
  BY DEF OnItsWay, Persisted
<1> QED
  BY <1>1, <1>2, <1>3, <1>4 DEF IInv

(* A stage that warns, or does not, keeps the type of the warnings.         *)
LEMMA WarnType ==
  ASSUME NEW r \in Scans, NEW w \in Warnings, warned \in [Scans -> SUBSET Warnings],
         Warn(r, w) \/ UNCHANGED warned
  PROVE  warned' \in [Scans -> SUBSET Warnings]
  BY DEF Warn

(* A stage only adds to the warnings.                                       *)
LEMMA WarnGrows ==
  ASSUME NEW r \in Scans, NEW w, warned \in [Scans -> SUBSET Warnings],
         Warn(r, w) \/ UNCHANGED warned
  PROVE  \A q \in Scans : warned[q] \subseteq warned'[q]
  BY DEF Warn

(* What a run reports carries a label.                                      *)
LEMMA ReportedLabel ==
  ASSUME TypeOK, NEW r \in Scans, NEW f \in Reported(r)
  PROVE  /\ f \in Files /\ snap[r][f] \in Contents
         /\ Severity[snap[r][f]] \in Labels /\ Severity[snap[r][f]] # None
  BY LifecycleAssumption DEF TypeOK, Reported, Scope

(* Every step keeps the types.                                              *)
LEMMA TypeStep == IInv /\ [Next]_vars => TypeOK'
<1> SUFFICES ASSUME IInv, [Next]_vars PROVE TypeOK'
  OBVIOUS
<1> USE LifecycleAssumption DEF IInv, TypeOK, tables, local
<1>1. ASSUME NEW f \in Files, Edit(f) PROVE TypeOK'
  BY <1>1 DEF Edit
<1>2. ASSUME NEW r \in Scans, Start(r) PROVE TypeOK'
  BY <1>2 DEF Start, Goto, Stages
<1>3. ASSUME NEW r \in Scans, StartFails(r) PROVE TypeOK'
  BY <1>3 DEF StartFails, Fail, Gone, Goto, Stages, NoFile
<1>4. ASSUME NEW r \in Scans, Kill(r) PROVE TypeOK'
  BY <1>4 DEF Kill, Gone, Goto, Stages, NoFile
<1>5. ASSUME NEW r \in Scans, Signal(r) PROVE TypeOK'
  BY <1>5 DEF Signal
<1>6. ASSUME NEW r \in Scans, WalkFails(r) PROVE TypeOK'
  BY <1>6 DEF WalkFails, Fail, Gone, Goto, Stages, NoFile
<1>7. ASSUME NEW r \in Scans, WalkEnds(r) PROVE TypeOK'
  BY <1>7 DEF WalkEnds, Goto, Stages
<1>8. ASSUME NEW r \in Scans, NEW f \in Files, WalkFile(r, f) PROVE TypeOK'
  BY <1>8 DEF WalkFile
<1>9. ASSUME NEW r \in Scans, NEW f \in Files, WalkSkip(r, f) PROVE TypeOK'
  BY <1>9 DEF WalkSkip
<1>10. ASSUME NEW r \in Scans, RegisterRun(r) PROVE TypeOK'
  <2>1. warned' \in [Scans -> SUBSET Warnings]
    <3>1. "register" \in Warnings
      BY DEF Warnings
    <3>2. Warn(r, "register") \/ UNCHANGED warned
      BY <1>10 DEF RegisterRun
    <3> QED
      BY <3>1, <3>2, WarnType
  <2> QED
    BY <1>10, <2>1 DEF RegisterRun, Goto, Stages
<1>11. ASSUME NEW r \in Scans, Detect(r) PROVE TypeOK'
  <2>1. warned' \in [Scans -> SUBSET Warnings]
    <3>1. "opengrep" \in Warnings
      BY DEF Warnings
    <3>2. Warn(r, "opengrep") \/ UNCHANGED warned
      BY <1>11 DEF Detect
    <3> QED
      BY <3>1, <3>2, WarnType
  <2>2. snap' \in [Scans -> [Files -> Contents \cup {None}]]
    BY <1>11 DEF Detect
  <2>3. pc' \in [Scans -> Stages]
    BY <1>11 DEF Detect, Goto, Stages
  <2> QED
    BY <1>11, <2>1, <2>2, <2>3 DEF Detect
<1>12. ASSUME NEW r \in Scans, DetectFails(r) PROVE TypeOK'
  BY <1>12 DEF DetectFails, Fail, Gone, Goto, Stages, NoFile
<1>13. ASSUME NEW r \in Scans, RunDedup(r) PROVE TypeOK'
  <2>1. warned' \in [Scans -> SUBSET Warnings]
    <3>1. "history" \in Warnings
      BY DEF Warnings
    <3>2. Warn(r, "history") \/ UNCHANGED warned
      BY <1>13 DEF RunDedup
    <3> QED
      BY <3>1, <3>2, WarnType
  <2>2. PICK S \in SUBSET Files : scored' = [scored EXCEPT ![r] = S]
    BY <1>13 DEF RunDedup, Reported, Scope
  <2>3. queue' = [queue EXCEPT ![r] = S]
    BY <1>13, <2>2 DEF RunDedup
  <2>4. pc' \in [Scans -> Stages]
    BY <1>13 DEF RunDedup, Goto, Stages
  <2> QED
    BY <1>13, <2>1, <2>2, <2>3, <2>4 DEF RunDedup
<1>14. ASSUME NEW r \in Scans, NEW f \in Files, PersistFinding(r, f) PROVE TypeOK'
  <2>1. warned' \in [Scans -> SUBSET Warnings]
    <3>1. "finding" \in Warnings
      BY DEF Warnings
    <3>2. Warn(r, "finding") \/ UNCHANGED warned
      BY <1>14 DEF PersistFinding
    <3> QED
      BY <3>1, <3>2, WarnType
  <2>2. findings' \in [Files -> Labels \cup {None}]
    <3>1. Severity[snap[r][f]] \in Labels
      BY <1>14, ReportedLabel DEF PersistFinding, QueueReported
    <3> QED
      BY <1>14, <3>1 DEF PersistFinding
  <2> QED
    BY <1>14, <2>1, <2>2 DEF PersistFinding
<1>15. ASSUME NEW r \in Scans, PersistEnds(r) PROVE TypeOK'
  BY <1>15 DEF PersistEnds, Goto, Stages
<1>16. ASSUME NEW r \in Scans, CommitScan(r) PROVE TypeOK'
  <2>1. warned' \in [Scans -> SUBSET Warnings]
    <3>1. "commit" \in Warnings
      BY DEF Warnings
    <3>2. Warn(r, "commit") \/ UNCHANGED warned
      BY <1>16 DEF CommitScan
    <3> QED
      BY <3>1, <3>2, WarnType
  <2>2. PICK S \in SUBSET Files :
            scanState' = [f \in Files |-> IF f \in S THEN None ELSE scanState[f]]
    BY <1>16 DEF CommitScan, Removed
  <2>3. pc' \in [Scans -> Stages]
    BY <1>16 DEF CommitScan, Goto, Stages
  <2> QED
    BY <1>16, <2>1, <2>2, <2>3 DEF CommitScan
<1>17. ASSUME NEW r \in Scans, FinalizeRun(r) PROVE TypeOK'
  <2>1. warned' \in [Scans -> SUBSET Warnings]
    <3>1. "finalize" \in Warnings
      BY DEF Warnings
    <3>2. Warn(r, "finalize") \/ UNCHANGED warned
      BY <1>17 DEF FinalizeRun
    <3> QED
      BY <3>1, <3>2, WarnType
  <2>2. exit' \in [Scans -> {None, 0, 1, 2}]
    <3>1. ExitCode(r) \in {0, 1}
      BY DEF ExitCode
    <3> QED
      BY <1>17, <3>1 DEF FinalizeRun
  <2>3. pc' \in [Scans -> Stages]
    BY <1>17 DEF FinalizeRun, Goto, Stages
  <2> QED
    BY <1>17, <2>1, <2>2, <2>3 DEF FinalizeRun
<1>18. CASE UNCHANGED vars
  BY <1>18 DEF vars
<1> QED
  BY <1>1, <1>2, <1>3, <1>4, <1>5, <1>6, <1>7, <1>8, <1>9, <1>10, <1>11, <1>12, <1>13, <1>14, <1>15, <1>16, <1>17, <1>18 DEF Next, Step, Walk

-----------------------------------------------------------------------------
(* Only these steps touch the baseline, what a run loaded of it and what it *)
(* hashed.                                                                  *)
LEMMA BaselineSteps ==
  ASSUME [Next]_vars
  PROVE  \/ UNCHANGED <<scanState, prior, hash>>
         \/ \E r \in Scans : Start(r)
         \/ \E r \in Scans, f \in Files : WalkFile(r, f)
         \/ \E r \in Scans : CommitScan(r)
<1> USE DEF local, tables
<1>1. CASE UNCHANGED vars
  BY <1>1 DEF vars
<1>2. ASSUME NEW f \in Files, Edit(f) PROVE UNCHANGED <<scanState, prior, hash>>
  BY <1>2 DEF Edit
<1>3. ASSUME NEW r \in Scans, StartFails(r) \/ Kill(r) \/ Signal(r)
      PROVE  UNCHANGED <<scanState, prior, hash>>
  BY <1>3 DEF StartFails, Kill, Signal, Fail, Gone
<1>4. ASSUME NEW r \in Scans, Step(r)
      PROVE  \/ UNCHANGED <<scanState, prior, hash>>
             \/ \E f \in Files : WalkFile(r, f)
             \/ CommitScan(r)
  <2>1. ASSUME Walk(r)
        PROVE  UNCHANGED <<scanState, prior, hash>> \/ \E f \in Files : WalkFile(r, f)
    BY <2>1 DEF Walk, WalkFails, WalkEnds, WalkSkip, Fail, Gone
  <2>2. ASSUME RegisterRun(r) \/ Detect(r) \/ DetectFails(r) \/ RunDedup(r)
        PROVE  UNCHANGED <<scanState, prior, hash>>
    BY <2>2 DEF RegisterRun, Detect, DetectFails, RunDedup, Fail, Gone
  <2>3. ASSUME PersistEnds(r) \/ FinalizeRun(r) \/ \E f \in Files : PersistFinding(r, f)
        PROVE  UNCHANGED <<scanState, prior, hash>>
    BY <2>3 DEF PersistEnds, FinalizeRun, PersistFinding
  <2> QED
    BY <1>4, <2>1, <2>2, <2>3 DEF Step
<1> QED
  BY <1>1, <1>2, <1>3, <1>4 DEF Next

(* A run that took up a content of a file has taken it up for good: it      *)
(* hashes a file once, and loads its baseline before.                       *)
LEMMA TookUpKept ==
  ASSUME IInv, [Next]_vars, NEW q \in Scans, NEW g \in Files, NEW c, c # None,
         TookUp(q, g, c)
  PROVE  TookUp(q, g, c)'
<1> USE DEF IInv, TypeOK, TookUp
<1>1. CASE UNCHANGED <<scanState, prior, hash>>
  BY <1>1
<1>2. ASSUME NEW r \in Scans, Start(r) PROVE TookUp(q, g, c)'
  <2>1. hash[r][g] = None
    BY <1>2 DEF Unvisited, Start
  <2> QED
    BY <1>2, <2>1 DEF Start
<1>3. ASSUME NEW r \in Scans, NEW f \in Files, WalkFile(r, f) PROVE TookUp(q, g, c)'
  <2>1. hash[r][f] = None
    BY <1>3 DEF Unvisited, WalkFile
  <2> QED
    BY <1>3, <2>1 DEF WalkFile
<1>4. ASSUME NEW r \in Scans, CommitScan(r) PROVE TookUp(q, g, c)'
  BY <1>4 DEF CommitScan, local
<1> QED
  BY <1>1, <1>2, <1>3, <1>4, BaselineSteps

(* Every hash in a baseline was put there by a run that had it in its       *)
(* change set, after every step.                                            *)
LEMMA ProvenanceStep == IInv /\ [Next]_vars => Provenance'
<1> SUFFICES ASSUME IInv, [Next]_vars PROVE Provenance'
  OBVIOUS
<1> USE DEF IInv
<1>0. ASSUME NEW q \in Scans, NEW g \in Files, NEW c, c # None, TookUp(q, g, c)
      PROVE  TookUp(q, g, c)'
  BY <1>0, TookUpKept
<1>1. CASE UNCHANGED <<scanState, prior, hash>>
  BY <1>1 DEF Provenance, TookUp
<1>2. ASSUME NEW r \in Scans, Start(r) PROVE Provenance'
  <2>1. scanState' = scanState /\ \A g \in Files : \A q \in Scans :
          prior'[q][g] = prior[q][g] \/ prior'[q][g] = scanState[g]
    BY <1>2 DEF Start, tables, TypeOK
  <2> QED
    BY <1>0, <2>1 DEF Provenance
<1>3. ASSUME NEW r \in Scans, NEW f \in Files, WalkFile(r, f) PROVE Provenance'
  <2>1. prior' = prior /\ \A g \in Files \ {f} : scanState'[g] = scanState[g]
    BY <1>3 DEF WalkFile, TypeOK
  <2>2. scanState'[f] = tree[f] /\ hash'[r][f] = tree[f] /\ tree[f] # None
    BY <1>3 DEF WalkFile, TypeOK
  <2>3. \E q \in Scans : hash'[q][f] = tree[f] /\ prior'[q][f] # tree[f]
    <3> PICK c : c = tree[f]
      OBVIOUS
    <3>1. CASE prior[r][f] = c
      <4>1. PICK q \in Scans : TookUp(q, f, c)
        BY <2>2, <3>1 DEF Provenance
      <4>2. TookUp(q, f, c)'
        BY <1>0, <2>2, <4>1
      <4> QED
        BY <4>2 DEF TookUp
    <3>2. CASE prior[r][f] # c
      BY <2>1, <2>2, <3>2
    <3> QED
      BY <3>1, <3>2
  <2>4. ASSUME NEW g \in Files, scanState'[g] # None
        PROVE  \E q \in Scans : hash'[q][g] = scanState'[g] /\ prior'[q][g] # scanState'[g]
    <3>1. CASE g = f
      BY <2>2, <2>3, <3>1
    <3>2. CASE g # f
      <4> PICK c : c = scanState[g]
        OBVIOUS
      <4>1. PICK q \in Scans : TookUp(q, g, c)
        BY <2>1, <2>4, <3>2 DEF Provenance
      <4>2. TookUp(q, g, c)'
        BY <1>0, <2>1, <2>4, <3>2, <4>1
      <4> QED
        BY <2>1, <3>2, <4>2 DEF TookUp
    <3> QED
      BY <3>1, <3>2
  <2>5. ASSUME NEW g \in Files, NEW p \in Scans, prior'[p][g] # None
        PROVE  \E q \in Scans : hash'[q][g] = prior'[p][g] /\ prior'[q][g] # prior'[p][g]
    <3> PICK c : c = prior[p][g]
      OBVIOUS
    <3>1. PICK q \in Scans : TookUp(q, g, c)
      BY <2>1, <2>5 DEF Provenance
    <3>2. TookUp(q, g, c)'
      BY <1>0, <2>1, <2>5, <3>1
    <3> QED
      BY <2>1, <3>2 DEF TookUp
  <2> QED
    BY <2>4, <2>5 DEF Provenance, TookUp
<1>4. ASSUME NEW r \in Scans, CommitScan(r) PROVE Provenance'
  <2>1. prior' = prior /\ \A g \in Files : scanState'[g] \in {None, scanState[g]}
    BY <1>4 DEF CommitScan, local
  <2> QED
    BY <1>0, <2>1 DEF Provenance
<1> QED
  BY <1>1, <1>2, <1>3, <1>4, BaselineSteps

-----------------------------------------------------------------------------
(* A file waits for the walk only while the run has not hashed it.          *)
LEMMA UnvisitedStep == IInv /\ [Next]_vars => Unvisited'
<1> SUFFICES ASSUME IInv, [Next]_vars PROVE Unvisited'
  OBVIOUS
<1> USE DEF IInv, TypeOK, local, tables
<1> DEFINE Shrinks == /\ UNCHANGED hash
                      /\ \A q \in Scans : todo'[q] \subseteq todo[q]
                      /\ \A q \in Scans : pc'[q] = "new" => pc[q] = "new"
<1>0. ASSUME Shrinks PROVE Unvisited'
  BY <1>0 DEF Unvisited
<1>1. CASE UNCHANGED vars
  <2>1. Shrinks
    BY <1>1 DEF vars
  <2> QED
    BY <1>0, <2>1
<1>2. ASSUME NEW f \in Files, Edit(f) PROVE Unvisited'
  <2>1. Shrinks
    BY <1>2 DEF Edit
  <2> QED
    BY <1>0, <2>1
<1>3. ASSUME NEW r \in Scans, StartFails(r) \/ Kill(r) \/ Signal(r) \/ WalkFails(r) \/ DetectFails(r)
      PROVE  Unvisited'
  <2>1. Shrinks
    BY <1>3 DEF StartFails, Kill, Signal, WalkFails, DetectFails, Fail, Gone, Goto
  <2> QED
    BY <1>0, <2>1
<1>4. ASSUME NEW r \in Scans, Start(r) PROVE Unvisited'
  BY <1>4 DEF Start, Goto, Unvisited
<1>5. ASSUME NEW r \in Scans, NEW f \in Files, WalkFile(r, f) PROVE Unvisited'
  <2>1. /\ pc' = pc /\ pc[r] = "walk"
        /\ todo' = [todo EXCEPT ![r] = @ \ {f}]
        /\ hash' = [hash EXCEPT ![r] = [hash[r] EXCEPT ![f] = tree[f]]]
    BY <1>5 DEF WalkFile
  <2>2. ASSUME NEW q \in Scans, NEW g \in todo'[q] PROVE hash'[q][g] = None
    BY <2>1, <2>2 DEF Unvisited
  <2>3. ASSUME NEW q \in Scans, NEW g \in Files, pc'[q] = "new" PROVE hash'[q][g] = None
    BY <2>1, <2>3 DEF Unvisited
  <2> QED
    BY <2>2, <2>3 DEF Unvisited
<1>6. ASSUME NEW r \in Scans, NEW f \in Files, WalkSkip(r, f) PROVE Unvisited'
  <2>1. Shrinks
    BY <1>6 DEF WalkSkip
  <2> QED
    BY <1>0, <2>1
<1>7. ASSUME NEW r \in Scans,
             WalkEnds(r) \/ RegisterRun(r) \/ Detect(r) \/ RunDedup(r) \/ PersistEnds(r)
             \/ CommitScan(r) \/ FinalizeRun(r)
      PROVE  Unvisited'
  <2>1. UNCHANGED <<hash, todo>> /\ \E l \in Stages \ {"new"} : Goto(r, l)
    BY <1>7 DEF WalkEnds, RegisterRun, Detect, RunDedup, PersistEnds, CommitScan, FinalizeRun,
                Stages
  <2>2. Shrinks
    BY <2>1 DEF Goto
  <2> QED
    BY <1>0, <2>2
<1>8. ASSUME NEW r \in Scans, NEW f \in Files, PersistFinding(r, f) PROVE Unvisited'
  <2>1. Shrinks
    BY <1>8 DEF PersistFinding
  <2> QED
    BY <1>0, <2>1
<1> QED
  BY <1>1, <1>2, <1>3, <1>4, <1>5, <1>6, <1>7, <1>8 DEF Next, Step, Walk

(* Behind the walk a run's baseline and hashes never change.                *)
LEMMA HistoryKept ==
  ASSUME IInv, [Next]_vars, NEW q \in Scans, pc[q] \notin {"new", "walk"}
  PROVE  prior'[q] = prior[q] /\ hash'[q] = hash[q]
<1> USE DEF IInv, TypeOK
<1>1. ASSUME NEW r \in Scans, Start(r) PROVE prior'[q] = prior[q] /\ hash'[q] = hash[q]
  BY <1>1 DEF Start
<1>2. ASSUME NEW r \in Scans, NEW f \in Files, WalkFile(r, f)
      PROVE  prior'[q] = prior[q] /\ hash'[q] = hash[q]
  BY <1>2 DEF WalkFile
<1>3. ASSUME NEW r \in Scans, CommitScan(r) PROVE prior'[q] = prior[q] /\ hash'[q] = hash[q]
  BY <1>3 DEF CommitScan, local
<1> QED
  BY <1>1, <1>2, <1>3, BaselineSteps

(* So what it reported depends on what its scanner read, on nothing else.   *)
LEMMA ReportedSame ==
  ASSUME IInv, [Next]_vars, NEW q \in Scans, pc[q] \notin {"new", "walk"}, snap'[q] = snap[q]
  PROVE  Reported(q)' = Reported(q)
  BY HistoryKept DEF Reported, Scope, Changed

(* What a run has queued stays within what its scanner reported.            *)
LEMMA QueueStep == IInv /\ [Next]_vars => QueueReported'
<1> SUFFICES ASSUME IInv, [Next]_vars PROVE QueueReported'
  OBVIOUS
<1> USE DEF IInv, TypeOK, local, tables
<1> DEFINE Ok(q) == queue'[q] # {} => pc'[q] = "persist" /\ queue'[q] \subseteq Reported(q)'
<1>0. ASSUME NEW q \in Scans, snap'[q] = snap[q], pc'[q] = pc[q], queue'[q] \subseteq queue[q]
      PROVE  Ok(q)
  <2>1. CASE queue[q] = {}
    BY <1>0, <2>1
  <2>2. CASE queue[q] # {}
    <3>1. pc[q] = "persist" /\ queue[q] \subseteq Reported(q)
      BY <2>2 DEF QueueReported
    <3>2. Reported(q)' = Reported(q)
      BY <1>0, <3>1, ReportedSame
    <3> QED
      BY <1>0, <3>1, <3>2
  <2> QED
    BY <2>1, <2>2
<1>1. CASE UNCHANGED <<queue, snap, pc>>
  <2>1. \A q \in Scans : Ok(q)
    BY <1>0, <1>1
  <2> QED
    BY <2>1 DEF QueueReported
<1>2. ASSUME NEW r \in Scans, StartFails(r) \/ Kill(r) \/ WalkFails(r) \/ DetectFails(r)
      PROVE  QueueReported'
  <2>1. /\ queue'[r] = {} /\ \A q \in Scans \ {r} : queue'[q] = queue[q]
        /\ \A q \in Scans \ {r} : pc'[q] = pc[q] /\ snap'[q] = snap[q]
    <3>1. Gone(r) /\ \E stage \in Stages : Goto(r, stage)
      BY <1>2 DEF StartFails, Kill, WalkFails, DetectFails, Fail, Stages
    <3> QED
      BY <3>1 DEF Gone, Goto
  <2>2. \A q \in Scans : Ok(q)
    BY <1>0, <2>1
  <2> QED
    BY <2>2 DEF QueueReported
<1>3. ASSUME NEW r \in Scans,
             Start(r) \/ WalkEnds(r) \/ RegisterRun(r) \/ Detect(r) \/ CommitScan(r)
             \/ FinalizeRun(r)
      PROVE  QueueReported'
  <2>1. /\ pc[r] # "persist" /\ queue' = queue
        /\ \A q \in Scans \ {r} : pc'[q] = pc[q] /\ snap'[q] = snap[q]
    BY <1>3 DEF Start, WalkEnds, RegisterRun, Detect, CommitScan, FinalizeRun, Goto
  <2>2. Ok(r)
    BY <2>1 DEF QueueReported
  <2>3. \A q \in Scans : Ok(q)
    BY <1>0, <2>1, <2>2
  <2> QED
    BY <2>3 DEF QueueReported
<1>4. ASSUME NEW r \in Scans, PersistEnds(r) PROVE QueueReported'
  <2>1. /\ queue[r] = {} /\ queue' = queue /\ snap' = snap
        /\ \A q \in Scans \ {r} : pc'[q] = pc[q]
    BY <1>4 DEF PersistEnds, Goto
  <2>2. \A q \in Scans : Ok(q)
    BY <1>0, <2>1
  <2> QED
    BY <2>2 DEF QueueReported
<1>5. ASSUME NEW r \in Scans, RunDedup(r) PROVE QueueReported'
  <2>1. /\ snap' = snap /\ pc'[r] = "persist"
        /\ \A q \in Scans \ {r} : pc'[q] = pc[q] /\ queue'[q] = queue[q]
    BY <1>5 DEF RunDedup, Goto
  <2>0. pc[r] = "dedup"
    BY <1>5 DEF RunDedup
  <2>2. PICK S \in SUBSET Reported(r) : scored' = [scored EXCEPT ![r] = S]
    BY <1>5 DEF RunDedup
  <2>3. queue'[r] = S
    <3>1. S \subseteq Files
      BY DEF Reported, Scope
    <3>2. scored'[r] = S
      BY <2>2
    <3> QED
      BY <1>5, <3>2 DEF RunDedup
  <2>4. Reported(r)' = Reported(r)
    BY <2>0, <2>1, ReportedSame
  <2>5. ASSUME NEW q \in Scans PROVE Ok(q)
    <3>1. CASE q = r
      BY <2>1, <2>3, <2>4, <3>1
    <3>2. CASE q # r
      BY <1>0, <2>1, <3>2
    <3> QED
      BY <3>1, <3>2
  <2> QED
    BY <2>5 DEF QueueReported
<1>6. ASSUME NEW r \in Scans, NEW f \in Files, PersistFinding(r, f) PROVE QueueReported'
  <2>1. snap' = snap /\ pc' = pc /\ \A q \in Scans : queue'[q] \subseteq queue[q]
    BY <1>6 DEF PersistFinding
  <2>2. \A q \in Scans : Ok(q)
    BY <1>0, <2>1
  <2> QED
    BY <2>2 DEF QueueReported
<1>7. ASSUME NEW f \in Files, Edit(f) PROVE UNCHANGED <<queue, snap, pc>>
  BY <1>7 DEF Edit
<1>8. ASSUME NEW r \in Scans, NEW f \in Files, WalkFile(r, f) \/ WalkSkip(r, f)
      PROVE  UNCHANGED <<queue, snap, pc>>
  BY <1>8 DEF WalkFile, WalkSkip
<1>9. ASSUME NEW r \in Scans, Signal(r) PROVE UNCHANGED <<queue, snap, pc>>
  BY <1>9 DEF Signal
<1>10. CASE UNCHANGED vars
  BY <1>1, <1>10 DEF vars
<1> QED
  BY <1>1, <1>2, <1>3, <1>4, <1>5, <1>6, <1>7, <1>8, <1>9, <1>10 DEF Next, Step, Walk

(* What a run reported and did not warn about is in the findings table or   *)
(* still queued, after every step: the history filter drops only reports    *)
(* the table already holds, and the persist loop drops nothing silently.    *)
LEMMA OnItsWayStep == IInv /\ [Next]_vars => OnItsWay'
<1> SUFFICES ASSUME IInv, [Next]_vars PROVE OnItsWay'
  OBVIOUS
<1> USE DEF IInv, TypeOK, local, tables
<1> DEFINE Late(q) == pc'[q] \in {"persist", "commit", "finalize", "exited"}
           Clean(q) == warned'[q] \cap {"opengrep", "finding"} = {}
           There(q, f) == findings'[f] # None \/ (pc'[q] = "persist" /\ f \in queue'[q])
           Ok(q) == Late(q) /\ Clean(q) => \A f \in Reported(q)' : There(q, f)
<1>q. ASSUME \A q \in Scans : Ok(q) PROVE OnItsWay'
  BY <1>q DEF OnItsWay, Persisted
<1>0. ASSUME NEW q \in Scans, snap'[q] = snap[q], pc'[q] = pc[q], queue'[q] = queue[q],
             warned[q] \subseteq warned'[q],
             \A f \in Files : findings[f] # None => findings'[f] # None
      PROVE  Ok(q)
  <2>1. CASE pc[q] \in {"persist", "commit", "finalize", "exited"}
    <3>1. Reported(q)' = Reported(q)
      BY <1>0, <2>1, ReportedSame
    <3>2. Reported(q) \subseteq Files
      BY DEF Reported, Scope
    <3> QED
      BY <1>0, <2>1, <3>1, <3>2 DEF OnItsWay, Persisted
  <2>2. CASE pc[q] \notin {"persist", "commit", "finalize", "exited"}
    BY <1>0, <2>2
  <2> QED
    BY <2>1, <2>2
<1>1. CASE UNCHANGED <<queue, snap, pc, warned, findings>>
  <2>1. \A q \in Scans : Ok(q)
    BY <1>0, <1>1
  <2> QED
    BY <1>q, <2>1
<1>2. ASSUME NEW r \in Scans,
             StartFails(r) \/ Kill(r) \/ WalkFails(r) \/ DetectFails(r)
             \/ Start(r) \/ WalkEnds(r) \/ RegisterRun(r) \/ Detect(r)
      PROVE  OnItsWay'
  <2>1. /\ ~Late(r) /\ findings' = findings
        /\ \A q \in Scans \ {r} : pc'[q] = pc[q] /\ queue'[q] = queue[q]
        /\ \A q \in Scans \ {r} : snap'[q] = snap[q] /\ warned'[q] = warned[q]
    <3>1. CASE StartFails(r) \/ Kill(r) \/ WalkFails(r) \/ DetectFails(r)
      <4>1. /\ Gone(r) /\ \E stage \in {"failed", "killed"} : Goto(r, stage)
            /\ UNCHANGED <<warned, findings>>
        BY <3>1 DEF StartFails, Kill, WalkFails, DetectFails, Fail
      <4> QED
        BY <4>1 DEF Gone, Goto
    <3>2. CASE Start(r) \/ WalkEnds(r) \/ RegisterRun(r) \/ Detect(r)
      BY <3>2 DEF Start, WalkEnds, RegisterRun, Detect, Goto, Warn
    <3> QED
      BY <1>2, <3>1, <3>2
  <2>2. ASSUME NEW q \in Scans PROVE Ok(q)
    <3>1. CASE q = r
      BY <2>1, <3>1
    <3>2. CASE q # r
      BY <1>0, <2>1, <3>2
    <3> QED
      BY <3>1, <3>2
  <2> QED
    BY <1>q, <2>2
<1>3. ASSUME NEW r \in Scans, RunDedup(r) PROVE OnItsWay'
  <2>1. /\ snap' = snap /\ findings' = findings /\ pc'[r] = "persist"
        /\ \A q \in Scans : warned[q] \subseteq warned'[q]
        /\ \A q \in Scans \ {r} : pc'[q] = pc[q] /\ queue'[q] = queue[q]
    <3>1. \A q \in Scans : warned[q] \subseteq warned'[q]
      <4>1. Warn(r, "history") \/ UNCHANGED warned
        BY <1>3 DEF RunDedup
      <4> QED
        BY <4>1, WarnGrows
    <3>2. pc' = [pc EXCEPT ![r] = "persist"] /\ snap' = snap /\ findings' = findings
      BY <1>3 DEF RunDedup, Goto
    <3>3. \A q \in Scans \ {r} : queue'[q] = queue[q]
      BY <1>3 DEF RunDedup
    <3> QED
      BY <3>1, <3>2, <3>3
  <2>2. PICK S \in SUBSET Reported(r) :
            /\ scored' = [scored EXCEPT ![r] = S]
            /\ \A f \in Reported(r) : f \in S \/ findings[f] = Severity[snap[r][f]]
    <3> DEFINE new == {f \in Reported(r) : ~Known(r, f)}
    <3>1. scored' = [scored EXCEPT ![r] = new] \/ scored' = [scored EXCEPT ![r] = Reported(r)]
      BY <1>3 DEF RunDedup
    <3>2. new \in SUBSET Reported(r)
          /\ \A f \in Reported(r) : f \in new \/ findings[f] = Severity[snap[r][f]]
      BY DEF Known
    <3> HIDE DEF new
    <3> QED
      BY <3>1, <3>2
  <2>3. queue'[r] = S
    <3>1. S \subseteq Files
      BY DEF Reported, Scope
    <3>2. scored'[r] = S
      BY <2>2
    <3> QED
      BY <1>3, <3>2 DEF RunDedup
  <2>4. Reported(r)' = Reported(r)
    <3>1. pc[r] = "dedup"
      BY <1>3 DEF RunDedup
    <3> QED
      BY <2>1, <3>1, ReportedSame
  <2>5. ASSUME NEW f \in Reported(r) PROVE There(r, f)
    <3>1. Severity[snap[r][f]] # None
      BY <2>5, ReportedLabel
    <3> QED
      BY <2>1, <2>2, <2>3, <2>5, <3>1
  <2>6. ASSUME NEW q \in Scans PROVE Ok(q)
    <3>1. CASE q = r
      BY <2>4, <2>5, <3>1
    <3>2. CASE q # r
      BY <1>0, <2>1, <3>2
    <3> QED
      BY <3>1, <3>2
  <2> QED
    BY <1>q, <2>6
<1>4. ASSUME NEW r \in Scans, NEW f \in Files, PersistFinding(r, f) PROVE OnItsWay'
  <2>1. /\ snap' = snap /\ pc' = pc /\ pc[r] = "persist"
        /\ \A q \in Scans \ {r} : queue'[q] = queue[q]
        /\ queue'[r] = queue[r] \ {f} /\ f \in queue[r]
    BY <1>4 DEF PersistFinding
  <2>2. Severity[snap[r][f]] # None
    <3>1. f \in Reported(r)
      BY <2>1 DEF QueueReported
    <3> QED
      BY <3>1, ReportedLabel
  <2>3. /\ \A q \in Scans : warned[q] \subseteq warned'[q]
        /\ \A g \in Files : findings[g] # None => findings'[g] # None
        /\ findings'[f] # None \/ "finding" \in warned'[r]
    <3>1. \A q \in Scans : warned[q] \subseteq warned'[q]
      <4>1. Warn(r, "finding") \/ UNCHANGED warned
        BY <1>4 DEF PersistFinding
      <4> QED
        BY <4>1, WarnGrows
    <3>2. CASE findings' = [findings EXCEPT ![f] = Severity[snap[r][f]]]
      BY <2>2, <3>1, <3>2
    <3>3. CASE Warn(r, "finding") /\ UNCHANGED findings
      BY <3>1, <3>3 DEF Warn
    <3>4. \/ findings' = [findings EXCEPT ![f] = Severity[snap[r][f]]]
          \/ Warn(r, "finding") /\ UNCHANGED findings
      BY <1>4 DEF PersistFinding
    <3> QED
      BY <3>2, <3>3, <3>4
  <2>4. Reported(r)' = Reported(r) /\ Reported(r) \subseteq Files
    BY <2>1, ReportedSame DEF Reported, Scope
  <2>5. Ok(r)
    <3>1. SUFFICES ASSUME Late(r), Clean(r), NEW g \in Reported(r)' PROVE There(r, g)
      OBVIOUS
    <3>2. findings[g] # None \/ g \in queue[r]
      BY <2>1, <2>3, <2>4, <3>1 DEF OnItsWay
    <3>3. CASE g = f
      BY <2>1, <2>3, <3>1, <3>3
    <3>4. CASE g # f
      BY <2>1, <2>3, <2>4, <3>1, <3>2, <3>4
    <3> QED
      BY <3>3, <3>4
  <2>6. ASSUME NEW q \in Scans PROVE Ok(q)
    <3>1. CASE q = r
      BY <2>5, <3>1
    <3>2. CASE q # r
      BY <1>0, <2>1, <2>3, <3>2
    <3> QED
      BY <3>1, <3>2
  <2> QED
    BY <1>q, <2>6
<1>5. ASSUME NEW r \in Scans, PersistEnds(r) \/ CommitScan(r) \/ FinalizeRun(r) PROVE OnItsWay'
  <2>1. /\ snap' = snap /\ findings' = findings /\ queue' = queue
        /\ (pc[r] = "persist" /\ queue[r] = {}) \/ pc[r] \in {"commit", "finalize"}
        /\ \A q \in Scans : warned[q] \subseteq warned'[q]
        /\ \A q \in Scans \ {r} : pc'[q] = pc[q]
    <3>1. \A q \in Scans : warned[q] \subseteq warned'[q]
      <4>1. Warn(r, "commit") \/ Warn(r, "finalize") \/ UNCHANGED warned
        BY <1>5 DEF PersistEnds, CommitScan, FinalizeRun
      <4> QED
        BY <4>1, WarnGrows
    <3>2. /\ snap' = snap /\ findings' = findings /\ queue' = queue
          /\ (pc[r] = "persist" /\ queue[r] = {}) \/ pc[r] \in {"commit", "finalize"}
          /\ \E l \in Stages : Goto(r, l)
      BY <1>5 DEF PersistEnds, CommitScan, FinalizeRun, Stages
    <3> QED
      BY <3>1, <3>2 DEF Goto
  <2>2. Reported(r)' = Reported(r)
    BY <2>1, ReportedSame
  <2>3. Ok(r)
    <3>1. SUFFICES ASSUME Clean(r), NEW f \in Reported(r) PROVE findings[f] # None
      BY <2>1, <2>2
    <3>2. warned[r] \cap {"opengrep", "finding"} = {}
      BY <2>1, <3>1
    <3> QED
      BY <2>1, <3>1, <3>2 DEF OnItsWay, Persisted
  <2>4. ASSUME NEW q \in Scans PROVE Ok(q)
    <3>1. CASE q = r
      BY <2>3, <3>1
    <3>2. CASE q # r
      BY <1>0, <2>1, <3>2
    <3> QED
      BY <3>1, <3>2
  <2> QED
    BY <1>q, <2>4
<1>6. ASSUME NEW f \in Files, Edit(f) PROVE UNCHANGED <<queue, snap, pc, warned, findings>>
  BY <1>6 DEF Edit
<1>7. ASSUME NEW r \in Scans, NEW f \in Files, WalkFile(r, f) \/ WalkSkip(r, f)
      PROVE  UNCHANGED <<queue, snap, pc, warned, findings>>
  BY <1>7 DEF WalkFile, WalkSkip
<1>8. ASSUME NEW r \in Scans, Signal(r) PROVE UNCHANGED <<queue, snap, pc, warned, findings>>
  BY <1>8 DEF Signal
<1>9. CASE UNCHANGED vars
  BY <1>1, <1>9 DEF vars
<1> QED
  BY <1>1, <1>2, <1>3, <1>4, <1>5, <1>6, <1>7, <1>8, <1>9 DEF Next, Step, Walk

-----------------------------------------------------------------------------
(* The strengthened invariant says what it has to: a hash in the baseline   *)
(* was taken up by some run, whose report is recorded unless it has an      *)
(* excuse.                                                                  *)
LEMMA InvariantSuffices == IInv => NoSilentLoss
<1> SUFFICES ASSUME IInv, NEW f \in Files, Vulnerable(scanState[f]), findings[f] = None
             PROVE  \E r \in Scans : /\ hash[r][f] = scanState[f]
                                      /\ f \in Changed(r)
                                      /\ Excused(r, f)
  BY DEF NoSilentLoss
<1> USE DEF IInv
<1>1. PICK r \in Scans : TookUp(r, f, scanState[f])
  BY DEF Provenance, Vulnerable
<1>2. hash[r][f] = scanState[f] /\ f \in Changed(r)
  BY <1>1 DEF TookUp, Changed, Vulnerable
<1>3. Excused(r, f)
  <2>1. SUFFICES ASSUME Persisted(r), warned[r] \cap {"opengrep", "finding"} = {},
                        ~Raced(r, f)
                 PROVE  FALSE
    BY DEF Excused
  <2>2. snap[r][f] = hash[r][f]
    BY <1>2, <2>1 DEF Raced, Detected
  <2>3. f \in Reported(r)
    BY <1>2, <2>2 DEF Reported, Scope, Vulnerable
  <2>4. pc[r] # "persist"
    BY <2>1 DEF Persisted
  <2> QED
    BY <2>1, <2>3, <2>4 DEF OnItsWay
<1> QED
  BY <1>2, <1>3

(* The strengthened invariant is inductive.                                 *)
LEMMA InvariantStep == IInv /\ [Next]_vars => IInv'
BY TypeStep, ProvenanceStep, UnvisitedStep, QueueStep, OnItsWayStep DEF IInv

(* Tables, processes and warnings keep their types, whatever is edited,     *)
(* killed or lost.                                                          *)
THEOREM TypeCorrect == Spec => []TypeOK
<1>1. IInv => TypeOK
  BY DEF IInv
<1> QED
  BY <1>1, InitInvariant, InvariantStep, PTL DEF Spec

(* No vulnerable content is lost silently, for any files, contents, runs in *)
(* parallel and faults: a hash in scan_state has its finding, or a run that *)
(* took it up has an excuse an operator can see.                            *)
THEOREM NothingLostSilently == Spec => []NoSilentLoss
BY InitInvariant, InvariantStep, InvariantSuffices, PTL DEF Spec

(* A run that found nothing changed has rescanned everything: what it       *)
(* reported is what it walked, and it is recorded, or there is an excuse.   *)
LEMMA QuietSuffices == IInv => QuietScanHeals
<1> SUFFICES ASSUME IInv, NEW r \in Scans, Persisted(r), Changed(r) = {},
                    NEW f \in Files, Vulnerable(hash[r][f]), ~Excused(r, f)
             PROVE  findings[f] # None
  BY DEF QuietScanHeals
<1>1. warned[r] \cap {"opengrep", "finding"} = {} /\ snap[r][f] = hash[r][f]
  BY DEF Excused, Raced, Detected
<1>2. f \in Reported(r)
  BY <1>1 DEF Reported, Scope, Vulnerable
<1>3. pc[r] # "persist"
  BY DEF Persisted
<1> QED
  BY <1>1, <1>2, <1>3 DEF IInv, OnItsWay

(* A scan that finds nothing changed heals whatever earlier runs, killed or *)
(* failed, left unscanned: afterwards every vulnerable file it walked has a *)
(* finding, unless it warned or the file was edited under it.               *)
THEOREM QuietScansHeal == Spec => []QuietScanHeals
BY InitInvariant, InvariantStep, QuietSuffices, PTL DEF Spec

-----------------------------------------------------------------------------
(* Runs one after the other.  As long as no two runs were alive at once,    *)
(* the tables are the live run's own: the baseline is what it walked so     *)
(* far, and a label only changes by its hand.                               *)
Fresh == \A r \in Scans : pc[r] = "new" => prior[r] = NoFile

OneAtATime == \A q, r \in Scans : Active(q) /\ Active(r) => q = r

\* The baseline is what the live run took over or walked, less what its commit deleted.
BaselineFollows ==
  \A r \in Scans : Active(r) => \A f \in Files :
    \/ scanState[f] = Took(r, f)
    \/ pc[r] = "finalize" /\ scanState[f] = None

\* A report is recorded with its very label, or it survived dedup and is queued or warned about.
Dispatched ==
  \A r \in Scans : pc[r] \in {"persist", "commit", "finalize"} =>
    \A f \in Reported(r) :
      \/ findings[f] = Severity[snap[r][f]]
      \/ f \in scored[r] /\ (f \in queue[r] \/ "finding" \in warned[r])

\* The verdict on what the live run inherited stands until the run writes its own.
Inherited ==
  \A r \in Scans : Active(r) /\ ~Persisted(r) => \A f \in Files : Vulnerable(prior[r][f]) =>
    \/ findings[f] = Severity[prior[r][f]]
    \/ \E q \in Scans \ {r} : Excused(q, f) /\ Took(q, f) = prior[r][f]
    \/ pc[r] = "persist" /\ f \in Reported(r)

\* The verdict on the baseline itself: VerdictIsCurrent without its hypothesis.
Current ==
  \A f \in Files : Vulnerable(scanState[f]) =>
    \/ findings[f] = Severity[scanState[f]]
    \/ \E r \in Scans : Excused(r, f) /\ Took(r, f) = scanState[f]

InTurn == OneAtATime /\ BaselineFollows /\ Dispatched /\ Inherited /\ Current

TInv == IInv /\ Fresh /\ (~overlapped => InTurn)
\* The step that a run takes, or that ends it.
Moves(r) == Start(r) \/ StartFails(r) \/ Kill(r) \/ Step(r)

\* A step leaves this run alone, up to its context being cancelled.
Same(q) ==
  /\ pc'[q] = pc[q] /\ prior'[q] = prior[q] /\ hash'[q] = hash[q] /\ snap'[q] = snap[q]
  /\ scored'[q] = scored[q] /\ queue'[q] = queue[q] /\ warned'[q] = warned[q]

(* A run ends by an error, or is killed: it moves nothing but itself.       *)
LEMMA FailMoves ==
  ASSUME TypeOK, NEW r \in Scans, StartFails(r) \/ Kill(r) \/ WalkFails(r) \/ DetectFails(r)
  PROVE  /\ UNCHANGED <<tables, warned, overlapped, prior, hash>>
         /\ pc' = [pc EXCEPT ![r] = "failed"] \/ pc' = [pc EXCEPT ![r] = "killed"]
         /\ \A q \in Scans \ {r} : Same(q)
<1>1. /\ Gone(r)
      /\ Goto(r, "failed") \/ Goto(r, "killed")
      /\ UNCHANGED <<tables, warned, overlapped>>
  BY DEF StartFails, Kill, WalkFails, DetectFails, Fail, tables
<1> QED
  BY <1>1 DEF TypeOK, Gone, Goto, Same

(* And is over.                                                             *)
LEMMA FailEnds ==
  ASSUME TypeOK, NEW r \in Scans, StartFails(r) \/ Kill(r) \/ WalkFails(r) \/ DetectFails(r)
  PROVE  pc'[r] \in {"failed", "killed"}
BY FailMoves DEF TypeOK

(* One run moves at a time: the others keep everything of theirs.           *)
LEMMA OthersKeep ==
  ASSUME TypeOK, NEW r \in Scans, Moves(r), NEW q \in Scans, q # r
  PROVE  Same(q)
<1> USE DEF TypeOK, Same, local, tables
<1>1. CASE StartFails(r) \/ Kill(r) \/ WalkFails(r) \/ DetectFails(r)
  BY <1>1, FailMoves
<1>2. CASE Start(r) \/ WalkEnds(r) \/ PersistEnds(r)
  BY <1>2 DEF Start, WalkEnds, PersistEnds, Goto
<1>3. ASSUME NEW f \in Files, WalkFile(r, f) \/ WalkSkip(r, f) PROVE Same(q)
  BY <1>3 DEF WalkFile, WalkSkip
<1>4. CASE RegisterRun(r)
  BY <1>4 DEF RegisterRun, Goto, Warn
<1>5. CASE Detect(r)
  BY <1>5 DEF Detect, Goto, Warn
<1>6. CASE RunDedup(r)
  BY <1>6 DEF RunDedup, Goto, Warn
<1>7. ASSUME NEW f \in Files, PersistFinding(r, f) PROVE Same(q)
  BY <1>7 DEF PersistFinding, Warn
<1>8. CASE CommitScan(r)
  BY <1>8 DEF CommitScan, Goto, Warn
<1>9. CASE FinalizeRun(r)
  BY <1>9 DEF FinalizeRun, Goto, Warn
<1> QED
  BY <1>1, <1>2, <1>3, <1>4, <1>5, <1>6, <1>7, <1>8, <1>9 DEF Moves, Step, Walk

(* A step is one run's, or it concerns no run and no table.                 *)
LEMMA StepsOfNext ==
  ASSUME TypeOK, [Next]_vars
  PROVE  \/ UNCHANGED <<tables, overlapped>> /\ \A q \in Scans : Same(q)
         \/ \E r \in Scans : Moves(r)
<1> USE DEF Same, local
<1>1. CASE UNCHANGED vars
  BY <1>1 DEF vars
<1>2. ASSUME NEW f \in Files, Edit(f)
      PROVE  UNCHANGED <<tables, overlapped>> /\ \A q \in Scans : Same(q)
  BY <1>2 DEF Edit
<1>3. ASSUME NEW r \in Scans, Signal(r)
      PROVE  UNCHANGED <<tables, overlapped>> /\ \A q \in Scans : Same(q)
  BY <1>3 DEF Signal
<1> QED
  BY <1>1, <1>2, <1>3 DEF Next, Moves

(* What a step that leaves a run alone leaves alone of it.                  *)
LEMMA SameRun ==
  ASSUME NEW q \in Scans, Same(q)
  PROVE  /\ Active(q)' = Active(q) /\ Persisted(q)' = Persisted(q)
         /\ Reported(q)' = Reported(q)
         /\ \A f \in Files : Took(q, f)' = Took(q, f) /\ Excused(q, f)' = Excused(q, f)
<1> USE DEF Same
<1>1. Active(q)' = Active(q) /\ Persisted(q)' = Persisted(q)
  BY DEF Active, Persisted
<1>2. Changed(q)' = Changed(q)
  BY DEF Changed
<1>3. Reported(q)' = Reported(q)
  BY <1>2 DEF Reported, Scope
<1>4. ASSUME NEW f \in Files PROVE Took(q, f)' = Took(q, f) /\ Excused(q, f)' = Excused(q, f)
  <2>1. Took(q, f)' = Took(q, f)
    BY DEF Took
  <2>2. Raced(q, f)' = Raced(q, f)
    BY <1>1, <1>2 DEF Raced, Detected
  <2>3. Excused(q, f)' = Excused(q, f)
    BY <1>1, <2>2 DEF Excused
  <2> QED
    BY <2>1, <2>3
<1> QED
  BY <1>1, <1>3, <1>4

(* As long as runs follow one another, a run that moves is the one alive    *)
(* run, or it has just started, or failed to, and no table is touched.      *)
LEMMA MoverIsAlone ==
  ASSUME TypeOK, OneAtATime, NEW r \in Scans, Moves(r), ~overlapped', NEW q \in Scans, q # r
  PROVE  Active(q) => StartFails(r)
<1> SUFFICES ASSUME Active(q), ~StartFails(r) PROVE FALSE
  OBVIOUS
<1>1. CASE Start(r)
  BY <1>1 DEF Start, Live
<1>2. ~Active(r)
  BY DEF OneAtATime
<1>3. CASE Step(r)
  BY <1>2, <1>3 DEF Step, Walk, WalkFails, WalkEnds, WalkFile, WalkSkip, RegisterRun, Detect,
     DetectFails, RunDedup, PersistEnds, PersistFinding, CommitScan, FinalizeRun, Active
<1>4. CASE Kill(r)
  BY <1>2, <1>4 DEF Kill
<1> QED
  BY <1>1, <1>3, <1>4 DEF Moves

(* Overlap is never forgotten.                                              *)
LEMMA OverlapSticks ==
  ASSUME TypeOK, [Next]_vars, overlapped PROVE overlapped'
<1>1. ASSUME NEW r \in Scans, Moves(r) PROVE overlapped'
  <2>1. CASE StartFails(r) \/ Kill(r)
    BY <2>1 DEF StartFails, Kill
  <2>2. CASE Start(r)
    BY <2>2 DEF Start
  <2>3. CASE Step(r)
    BY <2>3 DEF Step, Walk, WalkFails, WalkEnds, WalkFile, WalkSkip, RegisterRun, Detect,
       DetectFails, RunDedup, PersistEnds, PersistFinding, CommitScan, FinalizeRun
  <2> QED
    BY <1>1, <2>1, <2>2, <2>3 DEF Moves
<1> QED
  BY <1>1, StepsOfNext

(* A run that has not started has loaded nothing.                           *)
LEMMA FreshStep == TypeOK /\ Fresh /\ [Next]_vars => Fresh'
<1> SUFFICES ASSUME TypeOK, Fresh, [Next]_vars, NEW q \in Scans, pc'[q] = "new"
             PROVE  prior'[q] = NoFile
  BY DEF Fresh
<1>1. ASSUME Same(q) PROVE prior'[q] = NoFile
  BY <1>1 DEF Fresh, Same
<1>2. ASSUME NEW r \in Scans, Moves(r), q = r PROVE FALSE
  <2> USE DEF TypeOK, Goto
  <2>1. CASE StartFails(r) \/ Kill(r) \/ WalkFails(r) \/ DetectFails(r)
    BY <1>2, <2>1, FailMoves
  <2>2. CASE Start(r) \/ WalkEnds(r) \/ RegisterRun(r) \/ Detect(r) \/ RunDedup(r)
             \/ PersistEnds(r) \/ CommitScan(r) \/ FinalizeRun(r)
    BY <1>2, <2>2 DEF Start, WalkEnds, RegisterRun, Detect, RunDedup, PersistEnds, CommitScan,
       FinalizeRun
  <2>3. ASSUME NEW f \in Files, WalkFile(r, f) \/ WalkSkip(r, f) \/ PersistFinding(r, f)
        PROVE  FALSE
    BY <1>2, <2>3 DEF WalkFile, WalkSkip, PersistFinding
  <2> QED
    BY <1>2, <2>1, <2>2, <2>3 DEF Moves, Step, Walk
<1> QED
  BY <1>1, <1>2, StepsOfNext, OthersKeep

(* Only a start makes a run live, and without overlap it finds none alive.  *)
LEMMA OneAtATimeStep ==
  ASSUME TypeOK, OneAtATime, [Next]_vars, ~overlapped' PROVE OneAtATime'
<1>1. CASE \A q \in Scans : Same(q)
  BY <1>1, SameRun DEF OneAtATime
<1>2. ASSUME NEW r \in Scans, Moves(r) PROVE OneAtATime'
  <2>1. ASSUME NEW q \in Scans, q # r, Active(q)', Active(r)' PROVE FALSE
    <3>1. Active(q)
      BY <1>2, <2>1, OthersKeep, SameRun
    <3>2. StartFails(r)
      BY <1>2, <2>1, <3>1, MoverIsAlone
    <3> QED
      BY <2>1, <3>2, FailMoves DEF TypeOK, Active
  <2>2. ASSUME NEW p \in Scans, NEW q \in Scans, p # r, q # r, Active(p)', Active(q)'
        PROVE  p = q
    BY <1>2, <2>2, OthersKeep, SameRun DEF OneAtATime
  <2> QED
    BY <2>1, <2>2 DEF OneAtATime
<1> QED
  BY <1>1, <1>2, StepsOfNext

(* Every step leaves the baseline to the live run: it is what the run       *)
(* loaded, with the files it walked at their hashes, until its commit       *)
(* removes the rows of files it did not see.                                *)
LEMMA BaselineStep ==
  ASSUME TInv, [Next]_vars, ~overlapped' PROVE BaselineFollows'
<1> USE DEF TInv, IInv, InTurn
<1>0. TypeOK /\ InTurn
  BY OverlapSticks
<1> DEFINE Ok(q) == Active(q)' => \A f \in Files :
                      \/ scanState'[f] = Took(q, f)'
                      \/ pc'[q] = "finalize" /\ scanState'[f] = None
<1>1. ASSUME NEW q \in Scans, Same(q), UNCHANGED scanState PROVE Ok(q)
  BY <1>0, <1>1, SameRun DEF BaselineFollows, Same
<1>2. ASSUME NEW r \in Scans, Moves(r), NEW q \in Scans PROVE Ok(q)
  <2>1. CASE q # r
    <3>1. CASE StartFails(r)
      <4>1. UNCHANGED scanState
        BY <1>0, <3>1, FailMoves DEF tables
      <4> QED
        BY <1>0, <1>1, <1>2, <2>1, <4>1, OthersKeep
    <3>2. CASE ~StartFails(r)
      <4>1. ~Active(q)
        BY <1>0, <1>2, <2>1, <3>2, MoverIsAlone
      <4> QED
        BY <1>0, <1>2, <2>1, <4>1, OthersKeep, SameRun
    <3> QED
      BY <3>1, <3>2
  <2>2. CASE q = r
    <3> USE DEF TypeOK, local, tables
    <3>1. CASE StartFails(r) \/ Kill(r) \/ WalkFails(r) \/ DetectFails(r)
      BY <2>2, <3>1, FailMoves DEF Active
    <3>2. CASE Start(r)
      <4>1. scanState' = scanState /\ prior'[r] = scanState /\ hash' = hash
        BY <3>2 DEF Start
      <4>2. \A f \in Files : hash[r][f] = None
        BY <3>2 DEF Start, Unvisited
      <4> QED
        BY <2>2, <4>1, <4>2 DEF Took
    <3>3. ASSUME NEW f \in Files, WalkFile(r, f) PROVE Ok(r)
      <4>1. /\ prior' = prior /\ tree[f] # None /\ scanState'[f] = tree[f] /\ hash'[r][f] = tree[f]
            /\ \A g \in Files \ {f} : scanState'[g] = scanState[g] /\ hash'[r][g] = hash[r][g]
        BY <3>3 DEF WalkFile
      <4>2. \A g \in Files : scanState[g] = Took(r, g)
        BY <1>0, <3>3 DEF WalkFile, BaselineFollows, Active
      <4> QED
        BY <4>1, <4>2 DEF Took
    <3>4. ASSUME \/ WalkEnds(r) \/ RegisterRun(r) \/ Detect(r) \/ RunDedup(r) \/ PersistEnds(r)
                 \/ \E f \in Files : WalkSkip(r, f) \/ PersistFinding(r, f)
          PROVE  Ok(r)
      <4>1. UNCHANGED <<scanState, prior, hash>> /\ pc[r] \notin {"new", "finalize"} /\ Active(r)
        BY <3>4 DEF WalkEnds, RegisterRun, Detect, RunDedup, PersistEnds, WalkSkip,
           PersistFinding, Active
      <4>2. \A f \in Files : scanState[f] = Took(r, f)
        BY <1>0, <4>1 DEF BaselineFollows
      <4> QED
        BY <4>1, <4>2 DEF Took
    <3>5. CASE CommitScan(r)
      <4>1. /\ UNCHANGED <<prior, hash>> /\ pc[r] = "commit" /\ pc'[r] = "finalize"
            /\ \A f \in Files : scanState'[f] \in {None, scanState[f]}
        BY <3>5 DEF CommitScan, Goto
      <4>2. \A f \in Files : scanState[f] = Took(r, f)
        BY <1>0, <4>1 DEF BaselineFollows, Active
      <4> QED
        BY <2>2, <4>1, <4>2 DEF Took
    <3>6. CASE FinalizeRun(r)
      BY <2>2, <3>6 DEF FinalizeRun, Goto, Active
    <3> QED
      BY <1>2, <2>2, <3>1, <3>2, <3>3, <3>4, <3>5, <3>6 DEF Moves, Step, Walk
  <2> QED
    BY <2>1, <2>2
<1>3. ASSUME NEW q \in Scans PROVE Ok(q)
  BY <1>0, <1>1, <1>2, StepsOfNext DEF tables
<1> QED
  BY <1>3 DEF BaselineFollows

(* Every step keeps track of the live run's reports: dedup drops what the   *)
(* table holds with the same label, and only this run writes labels.        *)
LEMMA DispatchedStep ==
  ASSUME TInv, [Next]_vars, ~overlapped' PROVE Dispatched'
<1> USE DEF TInv, IInv, InTurn
<1>0. TypeOK /\ InTurn
  BY OverlapSticks
<1>d. Dispatched
  BY <1>0
<1> DEFINE Behind(q) == pc'[q] \in {"persist", "commit", "finalize"}
           Done(q, f) == \/ findings'[f] = Severity[snap'[q][f]]
                         \/ f \in scored'[q] /\ (f \in queue'[q] \/ "finding" \in warned'[q])
           Ok(q) == Behind(q) => \A f \in Reported(q)' : Done(q, f)
<1>1. ASSUME NEW q \in Scans, Same(q), UNCHANGED findings PROVE Ok(q)
  BY <1>0, <1>1, SameRun DEF Dispatched, Same
<1>2. ASSUME NEW r \in Scans, Moves(r), NEW q \in Scans PROVE Ok(q)
  <2>1. CASE q # r
    <3>1. CASE StartFails(r)
      <4>1. UNCHANGED findings
        BY <1>0, <3>1, FailMoves DEF tables
      <4> QED
        BY <1>0, <1>1, <1>2, <2>1, <4>1, OthersKeep
    <3>2. CASE ~StartFails(r)
      <4>1. ~Active(q)
        BY <1>0, <1>2, <2>1, <3>2, MoverIsAlone
      <4>2. ~Active(q)'
        BY <1>0, <1>2, <2>1, <4>1, OthersKeep, SameRun
      <4> QED
        BY <4>2 DEF Active
    <3> QED
      BY <3>1, <3>2
  <2>2. CASE q = r
    <3> USE DEF TypeOK, local, tables
    <3>1. ASSUME StartFails(r) \/ Kill(r) \/ WalkFails(r) \/ DetectFails(r) PROVE ~Behind(r)
      BY <3>1, FailMoves
    <3>2. ASSUME \/ Start(r) \/ WalkEnds(r) \/ RegisterRun(r) \/ Detect(r) \/ FinalizeRun(r)
                 \/ \E f \in Files : WalkFile(r, f) \/ WalkSkip(r, f)
          PROVE  ~Behind(r)
      BY <3>2 DEF Start, WalkEnds, RegisterRun, Detect, FinalizeRun, WalkFile, WalkSkip, Goto
    <3>3. CASE RunDedup(r)
      <4>1. /\ pc[r] = "dedup" /\ snap' = snap /\ findings' = findings
            /\ queue'[r] = scored'[r]
        BY <3>3 DEF RunDedup
      <4>2. \A f \in Reported(r) : f \in scored'[r] \/ Known(r, f)
        <5> DEFINE new == {f \in Reported(r) : ~Known(r, f)}
        <5>1. scored' = [scored EXCEPT ![r] = new] \/ scored' = [scored EXCEPT ![r] = Reported(r)]
          BY <3>3 DEF RunDedup
        <5>2. \A f \in Reported(r) : f \in new \/ Known(r, f)
          OBVIOUS
        <5> HIDE DEF new
        <5> QED
          BY <5>1, <5>2
      <4>3. Reported(r)' = Reported(r)
        BY <4>1, ReportedSame
      <4> QED
        BY <2>2, <4>1, <4>2, <4>3 DEF Known
    <3>4. ASSUME NEW f \in Files, PersistFinding(r, f) PROVE Ok(r)
      <4>1. pc[r] = "persist" /\ pc' = pc /\ snap' = snap /\ scored' = scored
            /\ queue'[r] = queue[r] \ {f}
        BY <3>4 DEF PersistFinding
      <4>2. \/ findings' = [findings EXCEPT ![f] = Severity[snap[r][f]]]
            \/ Warn(r, "finding") /\ UNCHANGED findings
        BY <3>4 DEF PersistFinding
      <4>3. warned[r] \subseteq warned'[r]
        BY <3>4, WarnGrows DEF PersistFinding
      <4>4. Reported(r)' = Reported(r) /\ Reported(r) \subseteq Files
        BY <4>1, ReportedSame DEF Reported, Scope
      <4>5. \A g \in Reported(r) :
              \/ findings[g] = Severity[snap[r][g]]
              \/ g \in scored[r] /\ (g \in queue[r] \/ "finding" \in warned[r])
        BY <1>d, <4>1 DEF Dispatched
      <4>6. CASE findings' = [findings EXCEPT ![f] = Severity[snap[r][f]]]
        BY <4>1, <4>3, <4>4, <4>5, <4>6
      <4>7. CASE Warn(r, "finding") /\ UNCHANGED findings
        <5>1. "finding" \in warned'[r]
          BY <4>7 DEF Warn
        <5> QED
          BY <4>1, <4>4, <4>5, <4>7, <5>1
      <4> QED
        BY <4>2, <4>6, <4>7
    <3>5. ASSUME PersistEnds(r) \/ CommitScan(r) PROVE Ok(r)
      <4>1. /\ UNCHANGED <<findings, snap, scored, queue>> /\ pc[r] \in {"persist", "commit"}
        BY <3>5 DEF PersistEnds, CommitScan
      <4>2. warned[r] \subseteq warned'[r]
        BY <3>5, WarnGrows DEF PersistEnds, CommitScan, Warn
      <4>3. Reported(r)' = Reported(r)
        BY <4>1, ReportedSame
      <4> QED
        BY <1>d, <4>1, <4>2, <4>3 DEF Dispatched
    <3> QED
      BY <1>2, <2>2, <3>1, <3>2, <3>3, <3>4, <3>5 DEF Moves, Step, Walk
  <2> QED
    BY <2>1, <2>2
<1>3. ASSUME NEW q \in Scans PROVE Ok(q)
  BY <1>0, <1>1, <1>2, StepsOfNext DEF tables
<1> QED
  BY <1>3 DEF Dispatched

(* A run that is no longer writing and has an excuse keeps it: its history  *)
(* is frozen, warnings only grow, and being killed is an excuse too.        *)
LEMMA ExcuseKept ==
  ASSUME IInv, Fresh, [Next]_vars, NEW q \in Scans, NEW f \in Files,
         Excused(q, f), Took(q, f) # None, ~Active(q) \/ Persisted(q)
  PROVE  Excused(q, f)' /\ Took(q, f)' = Took(q, f)
<1> USE DEF IInv
<1>0. pc[q] \in {"commit", "finalize", "exited", "failed", "killed"}
  <2>1. pc[q] # "new"
    <3>1. SUFFICES ASSUME pc[q] = "new" PROVE FALSE
      OBVIOUS
    <3>2. hash[q][f] = None /\ prior[q][f] = None
      BY <3>1 DEF Fresh, Unvisited, NoFile
    <3> QED
      BY <3>2 DEF Took
  <2> QED
    BY <2>1 DEF Active, Persisted
<1>1. CASE Same(q)
  BY <1>1, SameRun
<1>2. CASE Moves(q)
  <2> USE DEF TypeOK, local, tables
  <2>1. Took(q, f)' = Took(q, f)
    BY <1>0, HistoryKept DEF Took
  <2>2. Kill(q) \/ CommitScan(q) \/ FinalizeRun(q)
    BY <1>0, <1>2 DEF Moves, Start, StartFails, Step, Walk, WalkFails, WalkEnds, WalkFile,
       WalkSkip, RegisterRun, Detect, DetectFails, RunDedup, PersistEnds, PersistFinding
  <2>3. CASE Kill(q)
    <3>1. ~Persisted(q)'
      BY <2>3, FailEnds DEF Persisted
    <3> QED
      BY <2>1, <3>1 DEF Excused
  <2>4. CASE CommitScan(q) \/ FinalizeRun(q)
    <3>1. /\ Persisted(q) /\ Persisted(q)'
          /\ snap' = snap /\ prior' = prior /\ hash' = hash
      BY <2>4 DEF CommitScan, FinalizeRun, Goto, Persisted
    <3>2. warned[q] \subseteq warned'[q]
      BY <2>4, WarnGrows DEF CommitScan, FinalizeRun
    <3>3. CASE warned[q] \cap {"opengrep", "finding"} # {}
      BY <2>1, <3>2, <3>3 DEF Excused
    <3>4. CASE Raced(q, f)
      <4>1. Changed(q)' = Changed(q)
        BY <3>1 DEF Changed
      <4>2. Raced(q, f)' \/ "opengrep" \in warned'[q]
        BY <3>1, <3>4, <4>1 DEF Raced, Detected
      <4> QED
        BY <2>1, <4>2 DEF Excused
    <3> QED
      BY <3>1, <3>3, <3>4 DEF Excused
  <2> QED
    BY <2>2, <2>3, <2>4
<1> QED
  BY <1>1, <1>2, StepsOfNext, OthersKeep

(* Every step but a start leaves what the live run inherited with its       *)
(* verdict, and a start inherits a baseline whose verdicts are current.     *)
LEMMA InheritedStep ==
  ASSUME TInv, [Next]_vars, ~overlapped' PROVE Inherited'
<1> USE DEF TInv, IInv
<1>0. TypeOK /\ OneAtATime /\ Inherited /\ Current
  BY OverlapSticks DEF InTurn
<1> DEFINE Writing(q) == Active(q)' /\ ~Persisted(q)'
           Other(q, f) == \E p \in Scans \ {q} :
                            Excused(p, f)' /\ Took(p, f)' = prior'[q][f]
           Kept(q, f) == \/ findings'[f] = Severity[prior'[q][f]]
                         \/ Other(q, f)
                         \/ pc'[q] = "persist" /\ f \in Reported(q)'
           Ok(q) == Writing(q) => \A f \in Files : Vulnerable(prior'[q][f]) => Kept(q, f)
<1>1. ASSUME NEW q \in Scans, Active(q), NEW f \in Files, Vulnerable(prior[q][f]),
             prior'[q] = prior[q],
             \E p \in Scans \ {q} : Excused(p, f) /\ Took(p, f) = prior[q][f]
      PROVE  Other(q, f)
  <2>1. PICK p \in Scans \ {q} : Excused(p, f) /\ Took(p, f) = prior[q][f]
    BY <1>1
  <2>2. ~Active(p) /\ Took(p, f) # None
    BY <1>0, <1>1, <2>1 DEF OneAtATime, Vulnerable
  <2>3. Excused(p, f)' /\ Took(p, f)' = Took(p, f)
    BY <2>1, <2>2, ExcuseKept
  <2> QED
    BY <1>1, <2>1, <2>3
<1>2. ASSUME NEW q \in Scans, Same(q), UNCHANGED findings PROVE Ok(q)
  <2>1. SUFFICES ASSUME Active(q), ~Persisted(q), NEW f \in Files, Vulnerable(prior[q][f])
                 PROVE  Kept(q, f)
    BY <1>2, SameRun DEF Same
  <2>2. \/ findings[f] = Severity[prior[q][f]]
        \/ \E p \in Scans \ {q} : Excused(p, f) /\ Took(p, f) = prior[q][f]
        \/ pc[q] = "persist" /\ f \in Reported(q)
    BY <1>0, <2>1 DEF Inherited
  <2>3. prior'[q] = prior[q] /\ pc'[q] = pc[q] /\ Reported(q)' = Reported(q)
    BY <1>2, SameRun DEF Same
  <2> HIDE DEF Other
  <2> QED
    BY <1>1, <1>2, <2>1, <2>2, <2>3
<1>3. ASSUME NEW r \in Scans, Moves(r), NEW q \in Scans PROVE Ok(q)
  <2>1. CASE q # r
    <3>1. CASE StartFails(r)
      <4>1. UNCHANGED findings
        BY <1>0, <3>1, FailMoves DEF tables
      <4> QED
        BY <1>0, <1>2, <1>3, <2>1, <4>1, OthersKeep
    <3>2. CASE ~StartFails(r)
      <4>1. ~Active(q)
        BY <1>0, <1>3, <2>1, <3>2, MoverIsAlone
      <4>2. ~Active(q)'
        BY <1>0, <1>3, <2>1, <4>1, OthersKeep, SameRun
      <4> QED
        BY <4>2
    <3> QED
      BY <3>1, <3>2
  <2>2. CASE q = r
    <3>1. ASSUME StartFails(r) \/ Kill(r) \/ WalkFails(r) \/ DetectFails(r) PROVE ~Writing(r)
      BY <1>0, <3>1, FailMoves DEF TypeOK, Active
    <3>2. ASSUME PersistEnds(r) \/ CommitScan(r) \/ FinalizeRun(r) PROVE ~Writing(r)
      BY <3>2 DEF TypeOK, PersistEnds, CommitScan, FinalizeRun, Goto, Active, Persisted
    <3>3. CASE Start(r)
      <4>1. findings' = findings /\ prior'[r] = scanState /\ pc[r] = "new" /\ Live = {}
        BY <3>3 DEF TypeOK, Start, tables, local
      <4>2. SUFFICES ASSUME NEW f \in Files, Vulnerable(scanState[f]) PROVE Kept(r, f)
        BY <2>2, <4>1
      <4>3. CASE findings[f] = Severity[scanState[f]]
        BY <4>1, <4>3
      <4>4. ASSUME NEW p \in Scans, Excused(p, f), Took(p, f) = scanState[f] PROVE Other(r, f)
        <5>1. Took(p, f) # None /\ ~Active(p)
          BY <4>1, <4>2, <4>4 DEF Vulnerable, Live
        <5>2. Took(r, f) = None
          BY <4>1 DEF Took, Fresh, Unvisited, NoFile
        <5>3. p # r /\ Excused(p, f)' /\ Took(p, f)' = scanState[f]
          BY <4>4, <5>1, <5>2, ExcuseKept
        <5> QED
          BY <4>1, <5>3
      <4> HIDE DEF Other
      <4> QED
        BY <1>0, <4>2, <4>3, <4>4 DEF Current
    <3>4. ASSUME \/ WalkEnds(r) \/ RegisterRun(r) \/ Detect(r) \/ RunDedup(r)
                 \/ \E g \in Files : WalkFile(r, g) \/ WalkSkip(r, g)
          PROVE  Ok(r)
      <4>1. /\ findings' = findings /\ prior' = prior
            /\ Active(r) /\ ~Persisted(r) /\ pc[r] # "persist"
        BY <3>4 DEF WalkEnds, RegisterRun, Detect, RunDedup, WalkFile, WalkSkip, tables, local,
           Active, Persisted
      <4>2. SUFFICES ASSUME NEW f \in Files, Vulnerable(prior[r][f]) PROVE Kept(r, f)
        BY <4>1
      <4>3. \/ findings[f] = Severity[prior[r][f]]
            \/ \E p \in Scans \ {r} : Excused(p, f) /\ Took(p, f) = prior[r][f]
        BY <1>0, <4>1, <4>2 DEF Inherited
      <4> HIDE DEF Other
      <4> QED
        BY <1>1, <4>1, <4>2, <4>3
    <3>5. ASSUME NEW g \in Files, PersistFinding(r, g) PROVE Ok(r)
      <4>1. /\ prior' = prior /\ snap' = snap /\ pc' = pc /\ pc[r] = "persist" /\ g \in queue[r]
            /\ \A f \in Files \ {g} : findings'[f] = findings[f]
            /\ Active(r) /\ ~Persisted(r)
        BY <3>5 DEF TypeOK, PersistFinding, Active, Persisted
      <4>2. SUFFICES ASSUME NEW f \in Files, Vulnerable(prior[r][f]) PROVE Kept(r, f)
        BY <4>1
      <4>3. Reported(r)' = Reported(r)
        BY <4>1, ReportedSame
      <4>4. CASE f = g
        BY <4>1, <4>3, <4>4 DEF QueueReported
      <4>5. CASE f # g
        <5>1. \/ findings[f] = Severity[prior[r][f]]
              \/ \E p \in Scans \ {r} : Excused(p, f) /\ Took(p, f) = prior[r][f]
              \/ f \in Reported(r)
          BY <1>0, <4>1, <4>2 DEF Inherited
        <5> HIDE DEF Other
        <5> QED
          BY <1>1, <4>1, <4>2, <4>3, <4>5, <5>1
      <4> QED
        BY <4>4, <4>5
    <3> QED
      BY <1>3, <2>2, <3>1, <3>2, <3>3, <3>4, <3>5 DEF Moves, Step, Walk
  <2> QED
    BY <2>1, <2>2
<1>4. ASSUME NEW q \in Scans PROVE Ok(q)
  BY <1>0, <1>2, <1>3, StepsOfNext DEF tables
<1> QED
  BY <1>4 DEF Inherited

(* When a run has persisted, each vulnerable file of the baseline has its   *)
(* verdict: the run scanned the file and wrote or knew the label, or it did *)
(* not look at it and the verdict it inherited stands.                      *)
LEMMA PersistedVerdict ==
  ASSUME TInv, InTurn, [Next]_vars, NEW r \in Scans, PersistEnds(r),
         NEW f \in Files, Vulnerable(scanState[f])
  PROVE  \/ findings[f] = Severity[scanState[f]]
         \/ \E p \in Scans : Excused(p, f)' /\ Took(p, f)' = scanState[f]
<1> USE DEF TInv, IInv, InTurn
<1>1. /\ UNCHANGED <<prior, hash, snap, warned>>
      /\ pc[r] = "persist" /\ pc'[r] = "commit" /\ queue[r] = {}
  BY DEF TypeOK, PersistEnds, Goto, local
<1>2. scanState[f] = Took(r, f) /\ Took(r, f)' = Took(r, f)
  BY <1>1 DEF BaselineFollows, Active, Took
<1>3. SUFFICES ASSUME ~Excused(r, f)'
               PROVE  \/ findings[f] = Severity[scanState[f]]
                      \/ \E p \in Scans : Excused(p, f)' /\ Took(p, f)' = scanState[f]
  BY <1>2
<1>4. /\ warned[r] \cap {"opengrep", "finding"} = {}
      /\ Changed(r) = {} \/ f \in Changed(r) => snap[r][f] = hash[r][f]
  <2>1. Changed(r)' = Changed(r)
    BY <1>1 DEF Changed
  <2> QED
    BY <1>1, <1>3, <2>1 DEF Excused, Raced, Detected, Persisted
<1>5. CASE hash[r][f] # None /\ (Changed(r) = {} \/ f \in Changed(r))
  <2>1. snap[r][f] = scanState[f]
    BY <1>2, <1>4, <1>5 DEF Took
  <2>2. f \in Reported(r)
    BY <1>5, <2>1 DEF Reported, Scope, Vulnerable
  <2> QED
    BY <1>1, <1>4, <2>1, <2>2 DEF Dispatched
<1>6. CASE hash[r][f] = None \/ ~(Changed(r) = {} \/ f \in Changed(r))
  <2>1. prior[r][f] = scanState[f]
    BY <1>2, <1>6 DEF Changed, Took
  <2>2. f \notin Reported(r)
    BY <1>4, <1>6 DEF Reported, Scope
  <2>3. Active(r) /\ ~Persisted(r)
    BY <1>1 DEF Active, Persisted
  <2>4. \/ findings[f] = Severity[scanState[f]]
        \/ \E p \in Scans \ {r} : Excused(p, f) /\ Took(p, f) = scanState[f]
    BY <2>1, <2>2, <2>3 DEF Inherited
  <2>5. ASSUME NEW p \in Scans \ {r}, Excused(p, f), Took(p, f) = scanState[f]
        PROVE  Excused(p, f)' /\ Took(p, f)' = scanState[f]
    <3>1. Same(p)
      BY OthersKeep DEF Moves, Step
    <3> QED
      BY <2>5, <3>1, SameRun
  <2> QED
    BY <2>4, <2>5
<1> QED
  BY <1>5, <1>6

(* After every step the verdict on the baseline is current, or a run that   *)
(* took the content up has an excuse: itself, while it is still going.      *)
LEMMA CurrentStep ==
  ASSUME TInv, [Next]_vars, ~overlapped' PROVE Current'
<1> USE DEF TInv, IInv
<1>0. TypeOK /\ InTurn /\ Current
  BY OverlapSticks DEF InTurn
<1> DEFINE Good(f) == \/ findings'[f] = Severity[scanState'[f]]
                      \/ \E p \in Scans : Excused(p, f)' /\ Took(p, f)' = scanState'[f]
<1>1. SUFFICES ASSUME NEW f \in Files, Vulnerable(scanState'[f]) PROVE Good(f)
  BY DEF Current
<1>2. ASSUME NEW r \in Scans, Active(r)', ~Persisted(r)' PROVE Good(f)
  <2>1. Took(r, f)' = scanState'[f]
    BY <1>2, BaselineStep DEF BaselineFollows, Persisted
  <2> QED
    BY <1>2, <2>1 DEF Excused
<1>3. ASSUME scanState'[f] = scanState[f], UNCHANGED findings,
             \A p \in Scans : Excused(p, f) /\ Took(p, f) = scanState[f]
                              => Excused(p, f)' /\ Took(p, f)' = Took(p, f)
      PROVE  Good(f)
  BY <1>0, <1>1, <1>3 DEF Current
<1>4. CASE UNCHANGED tables /\ \A q \in Scans : Same(q)
  BY <1>3, <1>4, SameRun DEF tables
<1>5. ASSUME NEW r \in Scans, Moves(r) PROVE Good(f)
  <2>0. ASSUME NEW p \in Scans, p # r, Excused(p, f)
        PROVE  Excused(p, f)' /\ Took(p, f)' = Took(p, f)
    BY <1>0, <1>5, <2>0, OthersKeep, SameRun
  <2>1. CASE StartFails(r) \/ Kill(r) \/ WalkFails(r) \/ DetectFails(r)
    <3>1. UNCHANGED <<scanState, findings, prior, hash>> /\ ~Persisted(r)'
      BY <1>0, <2>1, FailMoves, FailEnds DEF Persisted, tables
    <3>2. Excused(r, f)' /\ Took(r, f)' = Took(r, f)
      BY <3>1 DEF Excused, Took
    <3> QED
      BY <1>3, <2>0, <3>1, <3>2
  <2>2. ASSUME \/ Start(r) \/ WalkEnds(r) \/ RegisterRun(r) \/ Detect(r) \/ RunDedup(r)
               \/ \E g \in Files : WalkFile(r, g) \/ WalkSkip(r, g) \/ PersistFinding(r, g)
        PROVE  Active(r)' /\ ~Persisted(r)'
    BY <1>0, <2>2 DEF TypeOK, Start, WalkEnds, RegisterRun, Detect, RunDedup, WalkFile,
       WalkSkip, PersistFinding, Goto, Active, Persisted
  <2>3. CASE PersistEnds(r)
    <3>1. UNCHANGED <<scanState, findings>>
      BY <2>3 DEF PersistEnds, tables
    <3> QED
      BY <1>0, <1>1, <2>3, <3>1, PersistedVerdict
  <2>4. CASE CommitScan(r) \/ FinalizeRun(r)
    <3>1. UNCHANGED findings /\ scanState'[f] \in {None, scanState[f]} /\ Persisted(r)
      BY <2>4 DEF CommitScan, FinalizeRun, Persisted
    <3>2. scanState'[f] = scanState[f] /\ scanState[f] # None
      BY <1>1, <3>1 DEF Vulnerable
    <3>3. ASSUME Excused(r, f), Took(r, f) = scanState[f]
          PROVE  Excused(r, f)' /\ Took(r, f)' = Took(r, f)
      BY <3>1, <3>2, <3>3, ExcuseKept
    <3> QED
      BY <1>3, <2>0, <3>1, <3>2, <3>3
  <2> QED
    BY <1>2, <1>5, <2>1, <2>2, <2>3, <2>4 DEF Moves, Step, Walk
<1> QED
  BY <1>4, <1>5, StepsOfNext

(* Nothing has run at the start.                                            *)
LEMMA InitTurn == Init => TInv
<1> SUFFICES ASSUME Init PROVE TInv
  OBVIOUS
<1>1. \A r \in Scans : pc[r] = "new" /\ ~Active(r) /\ prior[r] = NoFile
  BY DEF Init, Active
<1>2. \A f \in Files : scanState[f] = None
  BY DEF Init, NoFile
<1>3. OneAtATime /\ BaselineFollows /\ Dispatched /\ Inherited /\ Current
  BY <1>1, <1>2 DEF OneAtATime, BaselineFollows, Dispatched, Inherited, Current, Vulnerable
<1> QED
  BY <1>1, <1>3, InitInvariant DEF TInv, InTurn, Fresh

(* The invariant about runs in turn is inductive.                           *)
LEMMA TurnStep == TInv /\ [Next]_vars => TInv'
<1> SUFFICES ASSUME TInv, [Next]_vars PROVE TInv'
  OBVIOUS
<1>1. IInv' /\ Fresh'
  BY InvariantStep, FreshStep DEF TInv, IInv
<1>2. ASSUME ~overlapped' PROVE InTurn'
  <2>1. TypeOK /\ OneAtATime
    BY <1>2, OverlapSticks DEF TInv, IInv, InTurn
  <2> QED
    BY <1>2, <2>1, OneAtATimeStep, BaselineStep, DispatchedStep, InheritedStep, CurrentStep
       DEF InTurn
<1> QED
  BY <1>1, <1>2 DEF TInv

(* Runs in turn never leave an older verdict behind: the label of a file in *)
(* the findings table is the one of its content in the baseline, or a run   *)
(* that took up this very content has an excuse an operator can see.        *)
THEOREM VerdictsStayCurrent == Spec => []VerdictIsCurrent
<1>1. TInv => VerdictIsCurrent
  BY DEF TInv, InTurn, Current, VerdictIsCurrent
<1> QED
  BY <1>1, InitTurn, TurnStep, PTL DEF Spec

-----------------------------------------------------------------------------
(* Leaving "commit" for "finalize" is a commit, and exit code 0 comes from  *)
(* a finalize.                                                              *)
LEMMA WhoCommits ==
  ASSUME TypeOK, [Next]_vars, NEW r \in Scans, pc[r] = "commit", pc'[r] = "finalize"
  PROVE  CommitScan(r)
<1>1. ~Same(r)
  BY DEF Same
<1>2. Moves(r)
  BY <1>1, StepsOfNext, OthersKeep
<1>3. ~(StartFails(r) \/ Kill(r) \/ WalkFails(r) \/ DetectFails(r))
  BY FailMoves DEF TypeOK
<1> QED
  BY <1>2, <1>3 DEF Moves, Start, Step, Walk, WalkEnds, WalkFile, WalkSkip, RegisterRun, Detect,
     RunDedup, PersistEnds, PersistFinding, FinalizeRun

LEMMA WhoExitsClean ==
  ASSUME TypeOK, [Next]_vars, NEW r \in Scans, exit[r] = None, exit'[r] = 0
  PROVE  FinalizeRun(r)
<1> USE DEF TypeOK
<1>0. None # 0
  BY LifecycleAssumption
<1>1. ASSUME NEW q \in Scans, StartFails(q) \/ WalkFails(q) \/ DetectFails(q) PROVE FALSE
  <2>1. exit' = [exit EXCEPT ![q] = 2]
    BY <1>1 DEF StartFails, WalkFails, DetectFails, Fail
  <2> QED
    BY <1>0, <2>1
<1>2. ASSUME NEW q \in Scans, FinalizeRun(q) PROVE q = r
  <2>1. exit' = [exit EXCEPT ![q] = ExitCode(q)]
    BY <1>2 DEF FinalizeRun
  <2> QED
    BY <1>0, <2>1
<1>3. ASSUME UNCHANGED exit PROVE FALSE
  BY <1>0, <1>3
<1>4. ASSUME NEW q \in Scans, Kill(q) \/ Signal(q) \/ Start(q) PROVE UNCHANGED exit
  BY <1>4 DEF Kill, Signal, Start
<1>5. ASSUME NEW q \in Scans,
             \/ WalkEnds(q) \/ RegisterRun(q) \/ Detect(q) \/ RunDedup(q) \/ PersistEnds(q)
             \/ CommitScan(q)
             \/ \E f \in Files : WalkFile(q, f) \/ WalkSkip(q, f) \/ PersistFinding(q, f)
      PROVE  UNCHANGED exit
  BY <1>5 DEF WalkEnds, RegisterRun, Detect, RunDedup, PersistEnds, CommitScan, WalkFile,
     WalkSkip, PersistFinding
<1>6. UNCHANGED vars => UNCHANGED exit
  BY DEF vars
<1>7. ASSUME NEW f \in Files, Edit(f) PROVE UNCHANGED exit
  BY <1>7 DEF Edit
<1> QED
  BY <1>1, <1>2, <1>3, <1>4, <1>5, <1>6, <1>7 DEF Next, Step, Walk

(* A commit that did not warn leaves the baseline equal to what the walk    *)
(* saw: it was what the run took over, with the walked files at their       *)
(* hashes, and exactly the rows of the others go.                           *)
LEMMA CommitMirrors ==
  ASSUME TInv, ~overlapped, NEW r \in Scans, CommitScan(r), "commit" \notin warned'[r]
  PROVE  scanState' = hash[r]
<1> USE DEF TInv, IInv, TypeOK
<1>1. scanState' = [f \in Files |-> IF f \in Removed(r) THEN None ELSE scanState[f]]
  <2>1. ~Warn(r, "commit")
    BY DEF Warn
  <2> QED
    BY <2>1 DEF CommitScan
<1>2. ASSUME NEW f \in Files PROVE scanState[f] = Took(r, f)
  BY DEF InTurn, BaselineFollows, CommitScan, Active
<1>3. ASSUME NEW f \in Files PROVE scanState'[f] = hash[r][f]
  BY <1>1, <1>2 DEF Removed, Took
<1> QED
  BY <1>1, <1>3

(* CommitScan deletes the rows of the files the walk did not see, and no    *)
(* other, unless it warned or runs overlapped.                              *)
THEOREM CommitsMirrorTheWalk == Spec => CommitMirrorsWalk
<1>1. ASSUME TInv, [Next]_vars
      PROVE  [\A r \in Scans : pc[r] = "commit" /\ pc'[r] = "finalize"
                /\ "commit" \notin warned'[r] /\ ~overlapped
              => scanState' = hash[r]]_vars
  BY <1>1, WhoCommits, CommitMirrors DEF TInv, IInv
<1> QED
  BY <1>1, InitTurn, TurnStep, PTL DEF Spec, CommitMirrorsWalk

(* A finalize with exit code 0 has recorded every BLOCK that was reported:  *)
(* one that survived dedup would have set the code, one that did not was    *)
(* in the table with this label, and nobody else wrote there since.         *)
LEMMA ExitZeroRecords ==
  ASSUME TInv, ~overlapped, NEW r \in Scans, FinalizeRun(r), exit'[r] = 0,
         NEW f \in Reported(r), Severity[snap[r][f]] = "BLOCK"
  PROVE  findings[f] = "BLOCK"
<1>1. exit'[r] = ExitCode(r)
  BY DEF FinalizeRun, TInv, IInv, TypeOK
<1>2. f \notin scored[r]
  BY <1>1 DEF ExitCode
<1>3. pc[r] = "finalize"
  BY DEF FinalizeRun
<1>4. findings[f] = Severity[snap[r][f]]
  BY <1>2, <1>3 DEF TInv, InTurn, Dispatched
<1> QED
  BY <1>4

(* Exit code 0 is never a lie about the findings table: whatever statement  *)
(* failed or signal came, every BLOCK the scanner reported is recorded as   *)
(* one, if no run overlapped.                                               *)
THEOREM ExitZeroIsRecorded == Spec => CleanExitIsRecorded
<1>1. ASSUME TInv, [Next]_vars
      PROVE  [\A r \in Scans : exit[r] = None /\ exit'[r] = 0 /\ ~overlapped
              => \A f \in Reported(r) :
                   Severity[snap[r][f]] = "BLOCK" => findings[f] = "BLOCK"]_vars
  BY <1>1, WhoExitsClean, ExitZeroRecords DEF TInv, IInv
<1> QED
  BY <1>1, InitTurn, TurnStep, PTL DEF Spec, CleanExitIsRecorded
=============================================================================
