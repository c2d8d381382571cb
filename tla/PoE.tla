-------------------------------- MODULE PoE --------------------------------
(***************************************************************************)
(* What happens to the scored findings after the scan (runScan in          *)
(* cmd/zerotrust): poe.Verifier.Run builds an image of the artifact, boots *)
(* a container, fires a request at it for every eligible finding, grades   *)
(* the answer and raises what was confirmed; the results are persisted,    *)
(* patches are suggested, and the process exits.                           *)
(*                                                                         *)
(* Docker, the model, the database and the sandboxed application are       *)
(* external: each of their calls may fail, and a docker run that fails may *)
(* leave the container it created.                                         *)
(***************************************************************************)
EXTENDS Routes

CONSTANTS
  Scored,  \* the findings a scan may hand over: sequences of records [sev, conf, lang, file, line]
  Methods, \* methods of the graph, records [name, file, line]
  Calls,   \* pairs of caller and callee
  Source,  \* the lines of each file
  None     \* no result, no exit code

Severities == <<"BLOCK", "HIGH", "MEDIUM", "LOW", "SUPPRESSED">>
Rank(sev) == CHOOSE i \in DOMAIN Severities : Severities[i] = sev

\* Confidences are percentages.
SeverityFromConfidence(c) ==
  CASE c >= 92 -> "BLOCK" [] c >= 75 -> "HIGH" [] c >= 60 -> "MEDIUM"
    [] c >= 30 -> "LOW" [] OTHER -> "SUPPRESSED"

PoEMinSeverity == "HIGH"
PoESupportedLanguages == {"java", "python", "javascript", "typescript", "go"}
BoostPoEConfirmed == 20

Statuses == {"not_attempted", "language_unsupported", "failed_sandbox", "failed_timeout",
             "inconclusive", "failed_no_effect", "success"}
Resources == {"image", "network", "container", "file"}

\* The deduplication never labels a finding above its confidence, but for the
\* LOW of a verdict of not exploitable.
ASSUME PoEAssumption ==
  /\ None \notin Statuses /\ None \notin {0, 1, 2}
  /\ \A s \in Scored : s \in Seq({s[i] : i \in DOMAIN s})
  /\ \A s \in Scored : \A i \in DOMAIN s :
       /\ {"sev", "conf"} \subseteq DOMAIN s[i]
       /\ \E r \in DOMAIN Severities : s[i].sev = Severities[r]
       /\ s[i].conf \in 0..100
       /\ \/ s[i].sev = "LOW"
          \/ Rank(s[i].sev) >= Rank(SeverityFromConfidence(s[i].conf))

VARIABLES
  pc,       \* where runScan and Verifier.Run stand
  scored,   \* the findings handed over by the scan
  found,    \* the findings as Run returns them
  result,   \* PoEResult.Status of each finding
  k,        \* loop counter over the eligible findings
  res,      \* docker objects and files of this run that exist
  booted,   \* the sandbox came up
  logged,   \* leftovers a warning was logged for
  stored,   \* the severities in the database
  patch,    \* PatchStatus of each finding
  exit      \* exit code

vars == <<pc, scored, found, result, k, res, booted, logged, stored, patch, exit>>

Indices == DOMAIN scored

TypeOK ==
  /\ pc \in {"detect", "build", "network", "stage", "run", "health", "failed", "verify",
             "teardown", "rmi", "persist", "patch", "exit", "done"}
  /\ scored \in Scored /\ DOMAIN found = Indices
  /\ \A i \in Indices : found[i].conf \in 0..100
  /\ result \in [Indices -> Statuses \cup {None}]
  /\ k \in Nat \ {0}
  /\ res \subseteq Resources /\ logged \subseteq Resources
  /\ booted \in BOOLEAN
  /\ stored \in [Indices -> {Severities[i] : i \in DOMAIN Severities}]
  /\ patch \in [Indices -> {"none", "not_attempted", "unsupported", "validation_failed", "generated"}]
  /\ exit \in {0, 1, 2, None}

(***************************************************************************)
(* partitionEligible: the indices worth a try, in order, and why the       *)
(* others are not.                                                         *)
(***************************************************************************)
TooLow(f) == Rank(f.sev) > Rank(PoEMinSeverity)
Unsupported(f) == f.lang \notin PoESupportedLanguages
IsEligible(i) == ~TooLow(scored[i]) /\ ~Unsupported(scored[i])
Ineligible(i) == IF TooLow(scored[i]) THEN "not_attempted" ELSE "language_unsupported"
Eligible == SelectSeq([i \in Indices |-> i], IsEligible)

\* The loops over the eligible findings use the position, not the index stored there.
Position(n) == n
Positions == {Position(n) : n \in DOMAIN Eligible}

Init ==
  /\ pc = "detect"
  /\ scored \in Scored
  /\ found = scored
  /\ result = [i \in Indices |-> IF IsEligible(i) THEN None ELSE Ineligible(i)]
  /\ k = 1 /\ res = {} /\ booted = FALSE /\ logged = {}
  /\ stored = [i \in Indices |-> scored[i].sev]
  /\ patch = [i \in Indices |-> "none"]
  /\ exit = None

Goto(p) == pc' = p
MarkAll(S, status) == result' = [i \in Indices |-> IF i \in S THEN status ELSE result[i]]
Keep(x) == UNCHANGED <<scored, stored, patch, exit, x>>

\* Nothing eligible: no sandbox. An artifact of no known runtime: none either.
Detect ==
  /\ pc = "detect"
  /\ \/ Eligible = <<>> /\ Goto("persist") /\ UNCHANGED result
     \/ Eligible # <<>> /\ Goto("build") /\ UNCHANGED result
     \/ /\ Eligible # <<>> /\ Goto("persist")
        /\ MarkAll({i \in Indices : result[i] = None}, "language_unsupported")
  /\ Keep(<<found, k, res, booted, logged>>)

BuildImage ==
  /\ pc = "build"
  /\ \/ Goto("network") /\ res' = res \cup {"image"} /\ UNCHANGED result
     \/ Goto("persist") /\ MarkAll(Positions, "failed_sandbox") /\ UNCHANGED res
  /\ Keep(<<found, k, booted, logged>>)

\* A free port is picked and the network created.
CreateNetwork ==
  /\ pc = "network"
  /\ \/ Goto("stage") /\ res' = res \cup {"network"}
     \/ Goto("failed") /\ UNCHANGED res
  /\ Keep(<<found, result, k, booted, logged>>)

\* Without the staged seccomp profile the container runs all the same.
StageProfile ==
  /\ pc = "stage" /\ Goto("run")
  /\ res' = res \cup {"file"} \/ UNCHANGED res
  /\ Keep(<<found, result, k, booted, logged>>)

\* When docker run fails, boot removes the network and nothing else.
RunContainer ==
  /\ pc = "run"
  /\ \/ Goto("health") /\ res' = res \cup {"container"} /\ UNCHANGED logged
     \/ /\ Goto("failed")
        /\ \E left \in SUBSET {"container"} :
             \/ res' = (res \ {"network"}) \cup left /\ UNCHANGED logged
             \/ res' = res \cup left /\ logged' = logged \cup {"network"}
  /\ Keep(<<found, result, k, booted>>)

\* The port is polled until the application accepts or the time is up.
WaitHealthy ==
  /\ pc = "health"
  /\ \/ Goto("verify") /\ booted' = TRUE
     \/ Goto("failed") /\ UNCHANGED booted
  /\ Keep(<<found, result, k, res, logged>>)

\* A failed boot returns before the deferred teardown is set up.
BootFailed ==
  /\ pc = "failed" /\ Goto("rmi")
  /\ MarkAll(Positions, "failed_sandbox")
  /\ Keep(<<found, k, res, booted, logged>>)

\* A route in the convention of the finding's language, walking towards the callers.
HasRoute(f) ==
  /\ ~Unsupported(f)
  /\ EntryPoints(Calls, EnclosingMethod(Methods, f.file, f.line),
                 {m \in Methods : RouteOf(f.lang, Source[m.file], m) # NoRoute}) # {}

(***************************************************************************)
(* The grade of an answer: a server error that leaks internals confirms,   *)
(* otherwise the model is asked, and its reply is searched for the words   *)
(* in this order.                                                          *)
(***************************************************************************)
Replies == SUBSET {"CONFIRMED", "NO_EFFECT"}
Grade(leaks, reply) ==
  CASE leaks \/ "CONFIRMED" \in reply -> "success"
    [] ~leaks /\ reply = {"NO_EFFECT"} -> "failed_no_effect"
    [] OTHER -> "inconclusive"

\* One finding: no route, no request, no answer, no grade, or a grade.
VerifyOne(f) ==
  IF ~HasRoute(f) THEN {"inconclusive"}
  ELSE {"failed_sandbox", "failed_timeout", "inconclusive"}
         \cup {Grade(leaks, reply) : leaks \in BOOLEAN, reply \in Replies}

Least(a, b) == IF a < b THEN a ELSE b

\* Mutant of Boosted: the boost in place of the boosted confidence.
BoostedAlone(c) == BoostPoEConfirmed

Boosted(c) == Least(c + BoostPoEConfirmed, 100)

Raised(f) == [f EXCEPT !.conf = Boosted(f.conf), !.sev = SeverityFromConfidence(Boosted(f.conf))]

Verify ==
  /\ pc = "verify" /\ k <= Len(Eligible)
  /\ \E status \in VerifyOne(found[Position(k)]) :
       /\ MarkAll({Position(k)}, status)
       /\ found' = IF status = "success" THEN [found EXCEPT ![Position(k)] = Raised(@)] ELSE found
  /\ k' = k + 1
  /\ Keep(<<pc, res, booted, logged>>)

VerifyEnds ==
  /\ pc = "verify" /\ k > Len(Eligible)
  /\ Goto("teardown")
  /\ Keep(<<found, result, k, res, booted, logged>>)

\* Mutant of Removes: the staged profile is forgotten.
RemovesNoFile == {"container", "network"}

\* The teardown: a warning for each removal that fails.
Removes == {"container", "network", "file"}

Teardown ==
  /\ pc = "teardown" /\ Goto("rmi")
  /\ \E left \in SUBSET (Removes \cap res) :
       res' = (res \ Removes) \cup left /\ logged' = logged \cup left
  /\ Keep(<<found, result, k, booted>>)

\* A failure to remove the image is swallowed.
RemoveImage ==
  /\ pc = "rmi" /\ Goto("persist")
  /\ res' = res \ {"image"} \/ UNCHANGED res
  /\ Keep(<<found, result, k, booted, logged>>)

\* The verified rows are written again; a write that fails is logged and skipped.
PersistPoEResults ==
  /\ pc = "persist" /\ Goto("patch")
  /\ \E done \in SUBSET {i \in Indices : result[i] # None} :
       stored' = [i \in Indices |-> IF i \in done THEN found[i].sev ELSE stored[i]]
  /\ UNCHANGED <<scored, found, result, k, res, booted, logged, patch, exit>>

\* Patches are suggested for what is now BLOCK or HIGH, or the run is cancelled.
SuggestPatches ==
  /\ pc = "patch"
  /\ \/ /\ Goto("exit") /\ UNCHANGED exit
        /\ patch' \in [Indices -> {"not_attempted", "unsupported", "validation_failed", "generated"}]
        /\ \A i \in Indices : patch'[i] = "not_attempted" <=> TooLow(found[i])
     \/ Goto("exit") /\ UNCHANGED <<exit, patch>>
     \/ Goto("done") /\ exit' = 2 /\ UNCHANGED patch
  /\ UNCHANGED <<scored, found, result, k, res, booted, logged, stored>>

Exit ==
  /\ pc = "exit" /\ Goto("done")
  /\ exit' = IF \E i \in Indices : found[i].sev \in {"BLOCK", "HIGH"} THEN 1 ELSE 0
  /\ UNCHANGED <<scored, found, result, k, res, booted, logged, stored, patch>>

Terminated == pc = "done" /\ UNCHANGED vars

Next ==
  \/ Detect \/ BuildImage \/ CreateNetwork \/ StageProfile \/ RunContainer \/ WaitHealthy
  \/ BootFailed \/ Verify \/ VerifyEnds \/ Teardown \/ RemoveImage
  \/ PersistPoEResults \/ SuggestPatches \/ Exit \/ Terminated

Spec == Init /\ [][Next]_vars

-----------------------------------------------------------------------------
(* Properties                                                              *)

(***************************************************************************)
(* A verification only ever strengthens the verdict of a finding, and only *)
(* when the exploit was confirmed; so a scan that found something to block *)
(* is never turned into one that exits clean (config.go:65-68,             *)
(* poe.go:143-149, main.go:205-217).  Only a finding pinned to LOW below   *)
(* 30 % may lose its label to the confidence when it is raised.            *)
(***************************************************************************)
OnlyConfirmationRaises ==
  /\ \A i \in Indices :
       /\ scored[i].sev = "LOW" \/ Rank(found[i].sev) <= Rank(scored[i].sev)
       /\ found[i] # scored[i] => result[i] = "success"
  /\ exit = 0 => \A i \in Indices : stored[i] \notin {"BLOCK", "HIGH"}

(***************************************************************************)
(* Once a sandbox that came up has been torn down, whatever of it is left  *)
(* behind was warned about; only the image goes without a word             *)
(* (sandbox.go:155-181, build.go:196-200).                                 *)
(***************************************************************************)
LeftoversAreLogged ==
  booted /\ pc \in {"rmi", "persist", "patch", "exit", "done"} => res \ {"image"} \subseteq logged

(***************************************************************************)
(* The findings worth a try are the ones that get it: after the run every  *)
(* eligible finding has a result and every other one its reason            *)
(* (poe.go:82-87).                                                         *)
(***************************************************************************)
EligibleAreVerified ==
  pc \in {"persist", "patch", "exit", "done"} =>
    \A i \in Indices : IF IsEligible(i) THEN result[i] # None ELSE result[i] = Ineligible(i)
=============================================================================
