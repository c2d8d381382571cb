--------------------------- MODULE ScanLifecycle ---------------------------
(***************************************************************************)
(* One project scanned again and again by the zerotrust CLI.  Every run is *)
(* a process that walks the tree, registers itself, runs the detectors,    *)
(* deduplicates against the findings table, persists, commits the baseline *)
(* and finalizes its scan_runs row (Pipeline.StartScanProcess).  Developers *)
(* edit files at any time; a run can be killed, be interrupted by a signal, *)
(* lose a database statement, or lose a detector.                          *)
(*                                                                         *)
(* The three tables are what survives a run: scanState (the differential   *)
(* baseline), runs (scan_runs.status) and findings.  A file carries at most *)
(* one finding, whose label is a function of the file's content: scoring   *)
(* is the subject of module Dedup, the concurrency of the detectors that   *)
(* of module DetectionPaths.                                               *)
(***************************************************************************)
EXTENDS Naturals, FiniteSets

CONSTANTS
  Files,        \* relative paths the walk can meet
  Contents,     \* file contents (equal contents have equal SHA-256)
  Severity,     \* the label of the finding a content carries, or "none"
  None,         \* no such file, no such row, not decided yet
  Scans,        \* run identifiers, one per CLI invocation
  Faults,       \* the faults the environment may inject
  MaxParallel,  \* bound: CLI processes alive at once
  MaxEdits      \* bound: edits of the tree

FaultKinds == {"kill", "signal", "db", "detector", "reasoning", "unreadable"}
Labels == {"BLOCK", "LOW"}

ASSUME LifecycleAssumption ==
  /\ None \notin Contents \cup Labels
  /\ None \notin {0, 1, 2}
  /\ Severity \in [Contents -> Labels \cup {"none"}]
  /\ Faults \subseteq FaultKinds
  /\ MaxEdits \in Nat
  /\ MaxParallel \in Nat

VARIABLES
  tree,       \* working tree: content of each file, or None
  scanState,  \* table scan_state: content hash per file, or None
  runs,       \* table scan_runs: status per run
  findings,   \* table findings: label per file, or None
  pc,         \* where each run stands
  cancelled,  \* the run's context is cancelled
  prior,      \* priorMap, the baseline the run loaded
  todo,       \* files WalkDir has not visited yet
  hash,       \* hash the run computed per file (None: not seen)
  snap,       \* content of the tree when the detectors read it (None: no file)
  scored,     \* findings (by file) that survived dedup
  queue,      \* of these, the ones persistFindings has not reached
  warned,     \* warnings the run logged, by stage
  exit,       \* process exit code, or None
  overlapped, \* some two runs were alive at the same time
  edits       \* edits so far

tables == <<scanState, runs, findings>>
local  == <<prior, todo, hash, snap, scored, queue>>
vars   == <<tree, tables, pc, cancelled, local, warned, exit, overlapped, edits>>

Stages == {"new", "walk", "register", "detect", "dedup", "persist", "commit",
           "finalize", "exited", "failed", "killed"}
Warnings == {"register", "opengrep", "history", "finding", "commit", "finalize"}

Active(r) == pc[r] \notin {"new", "exited", "failed", "killed"}
Live == {r \in Scans : Active(r)}

TypeOK ==
  /\ tree \in [Files -> Contents \cup {None}]
  /\ scanState \in [Files -> Contents \cup {None}]
  /\ runs \in [Scans -> {None, "running", "complete"}]
  /\ findings \in [Files -> Labels \cup {None}]
  /\ pc \in [Scans -> Stages]
  /\ cancelled \in [Scans -> BOOLEAN]
  /\ prior \in [Scans -> [Files -> Contents \cup {None}]]
  /\ todo \in [Scans -> SUBSET Files]
  /\ hash \in [Scans -> [Files -> Contents \cup {None}]]
  /\ snap \in [Scans -> [Files -> Contents \cup {None}]]
  /\ scored \in [Scans -> SUBSET Files]
  /\ queue \in [Scans -> SUBSET Files]
  /\ warned \in [Scans -> SUBSET Warnings]
  /\ exit \in [Scans -> {None, 0, 1, 2}]
  /\ overlapped \in BOOLEAN
  /\ edits \in Nat

NoFile == [f \in Files |-> None]

Init ==
  /\ tree \in [Files -> Contents \cup {None}]
  /\ scanState = NoFile
  /\ runs = [r \in Scans |-> None]
  /\ findings = NoFile
  /\ pc = [r \in Scans |-> "new"]
  /\ cancelled = [r \in Scans |-> FALSE]
  /\ prior = [r \in Scans |-> NoFile]
  /\ todo = [r \in Scans |-> {}]
  /\ hash = [r \in Scans |-> NoFile]
  /\ snap = [r \in Scans |-> NoFile]
  /\ scored = [r \in Scans |-> {}]
  /\ queue = [r \in Scans |-> {}]
  /\ warned = [r \in Scans |-> {}]
  /\ exit = [r \in Scans |-> None]
  /\ overlapped = FALSE
  /\ edits = 0

-----------------------------------------------------------------------------
(* Helpers: the differential sets of a run, and what can go wrong.         *)

\* New or modified files, by comparison with the baseline loaded at the start.
Changed(r) == {f \in Files : hash[r][f] # None /\ hash[r][f] # prior[r][f]}

\* Mutant: asks the file system, not the walk, so unreadable files keep their row.
RemovedFromTree(r) == {f \in Files : prior[r][f] # None /\ tree[f] = None}

\* Files with a baseline row that the walk did not see (deleted or unreadable).
Removed(r) == {f \in Files : prior[r][f] # None /\ hash[r][f] = None}

\* Mutant: an empty change set means there is nothing to scan.
ScopeChangedOnly(r) == Changed(r)

\* Files handed to the pattern scanner: the change set, or the whole target
\* when nothing changed.
Scope(r) == {f \in Files : Changed(r) = {} \/ f \in Changed(r)}

\* What the scanner reports on the contents it read.
Reported(r) == {f \in Scope(r) : snap[r][f] # None /\ Severity[snap[r][f]] # "none"}

\* Mutant: whatever was found there before counts as known.
KnownLocation(r, f) == findings[f] # None

\* The findings table has this very verdict already.
Known(r, f) == findings[f] = Severity[snap[r][f]]

\* Mutant: the code counts the BLOCK findings on top of the failure code.
ExitCodeCounting(r) ==
  LET blocks == {f \in scored[r] : Severity[snap[r][f]] = "BLOCK"}
  IN  IF blocks = {} THEN 0 ELSE 1 + Cardinality(blocks)

\* 1 when a finding the run returns is a BLOCK (exitCodeForFindings).
ExitCode(r) == IF \E f \in scored[r] : Severity[snap[r][f]] = "BLOCK" THEN 1 ELSE 0

\* A statement succeeds only on a live context, and may fail on any.
Outcome(r, ok) ==
  IF ok THEN ~cancelled[r] ELSE cancelled[r] \/ "db" \in Faults

Goto(r, stage) == pc' = [pc EXCEPT ![r] = stage]
\* Mutant: errors of a cancelled context are not worth a warning.
WarnUnlessCancelled(r, stage) ==
  warned' = IF cancelled[r] THEN warned ELSE [warned EXCEPT ![r] = @ \cup {stage}]
Warn(r, stage) == warned' = [warned EXCEPT ![r] = @ \cup {stage}]
\* The process is gone; prior and hash stay as history for the properties.
Gone(r) ==
  /\ todo' = [todo EXCEPT ![r] = {}]
  /\ queue' = [queue EXCEPT ![r] = {}]
  /\ scored' = [scored EXCEPT ![r] = {}]
  /\ snap' = [snap EXCEPT ![r] = NoFile]
  /\ cancelled' = [cancelled EXCEPT ![r] = FALSE]
  /\ UNCHANGED <<prior, hash>>
\* The run ends with an error: cobra reports it and the process exits with 2.
Fail(r) ==
  /\ Goto(r, "failed")
  /\ exit' = [exit EXCEPT ![r] = 2]
  /\ Gone(r)

-----------------------------------------------------------------------------
(* Environment.                                                            *)

Edit(f) ==
  /\ edits < MaxEdits
  /\ \E c \in (Contents \cup {None}) \ {tree[f]} : tree' = [tree EXCEPT ![f] = c]
  /\ edits' = edits + 1
  /\ UNCHANGED <<tables, pc, cancelled, local, warned, exit, overlapped>>

\* SIGKILL, power loss or a panic: the process disappears.
Kill(r) ==
  /\ "kill" \in Faults
  /\ Active(r)
  /\ Goto(r, "killed")
  /\ Gone(r)
  /\ UNCHANGED <<tree, tables, warned, exit, overlapped, edits>>

\* SIGINT or SIGTERM cancels the context; nothing else happens at once.
Signal(r) ==
  /\ "signal" \in Faults
  /\ Active(r)
  /\ ~cancelled[r]
  /\ cancelled' = [cancelled EXCEPT ![r] = TRUE]
  /\ UNCHANGED <<tree, tables, pc, local, warned, exit, overlapped, edits>>

-----------------------------------------------------------------------------
(* Ingestion: Indexer.Diff.                                                *)

\* The run starts and loads the baseline.
Start(r) ==
  /\ pc[r] = "new"
  /\ Cardinality(Live) < MaxParallel
  /\ prior' = [prior EXCEPT ![r] = scanState]
  /\ todo' = [todo EXCEPT ![r] = Files]
  /\ overlapped' = (overlapped \/ Live # {})
  /\ Goto(r, "walk")
  /\ UNCHANGED <<tree, tables, cancelled, hash, snap, scored, queue, warned, exit, edits>>

\* Loading the baseline fails: the diff, and with it the run, is over.
StartFails(r) ==
  /\ pc[r] = "new"
  /\ Faults \cap {"db", "signal"} # {}
  /\ Fail(r)
  /\ UNCHANGED <<tree, tables, warned, overlapped, edits>>

\* WalkDir visits one file: its row is upserted at once, changed or not.
WalkFile(r, f) ==
  /\ pc[r] = "walk"
  /\ f \in todo[r]
  /\ tree[f] # None
  /\ ~cancelled[r]
  /\ hash' = [hash EXCEPT ![r][f] = tree[f]]
  /\ scanState' = [scanState EXCEPT ![f] = tree[f]]
  /\ todo' = [todo EXCEPT ![r] = @ \ {f}]
  /\ UNCHANGED <<tree, runs, findings, pc, cancelled, prior, snap, scored, queue, warned,
                 exit, overlapped, edits>>

\* The file does not exist, or cannot be hashed: it is left out of the walk.
WalkSkip(r, f) ==
  /\ pc[r] = "walk"
  /\ f \in todo[r]
  /\ tree[f] = None \/ (~cancelled[r] /\ "unreadable" \in Faults)
  /\ todo' = [todo EXCEPT ![r] = @ \ {f}]
  /\ UNCHANGED <<tree, tables, pc, cancelled, prior, hash, snap, scored, queue, warned,
                 exit, overlapped, edits>>

\* A cancelled context, a failed upsert or an unreadable directory aborts the walk;
\* rows written so far stay.
WalkFails(r) ==
  /\ pc[r] = "walk"
  /\ todo[r] # {}
  /\ Outcome(r, FALSE) \/ "unreadable" \in Faults
  /\ Fail(r)
  /\ UNCHANGED <<tree, tables, warned, overlapped, edits>>

WalkEnds(r) ==
  /\ pc[r] = "walk"
  /\ todo[r] = {}
  /\ Goto(r, "register")
  /\ UNCHANGED <<tree, tables, cancelled, local, warned, exit, overlapped, edits>>

-----------------------------------------------------------------------------
(* registerRun, detection and dedup.                                       *)

\* The scan_runs row is created with status "running"; a failure is a warning.
RegisterRun(r) ==
  /\ pc[r] = "register"
  /\ \/ /\ Outcome(r, TRUE)
        /\ runs' = [runs EXCEPT ![r] = "running"]
        /\ UNCHANGED warned
     \/ /\ Outcome(r, FALSE)
        /\ Warn(r, "register")
        /\ UNCHANGED runs
  /\ Goto(r, "detect")
  /\ UNCHANGED <<tree, scanState, findings, cancelled, local, exit, overlapped, edits>>

\* All paths end without an error.  A pattern scanner that fails, or is killed
\* by the cancelled context, only leaves a warning.
Detect(r) ==
  /\ pc[r] = "detect"
  /\ \/ /\ ~cancelled[r]
        /\ snap' = [snap EXCEPT ![r] = tree]
        /\ UNCHANGED warned
     \/ /\ cancelled[r] \/ "detector" \in Faults
        /\ Warn(r, "opengrep")
        /\ UNCHANGED snap
  /\ Goto(r, "dedup")
  /\ UNCHANGED <<tree, tables, cancelled, prior, todo, hash, scored, queue, exit, overlapped,
                 edits>>

\* The reasoning path returns an error: findings of every path are discarded.
DetectFails(r) ==
  /\ pc[r] = "detect"
  /\ cancelled[r] \/ "reasoning" \in Faults
  /\ Fail(r)
  /\ UNCHANGED <<tree, tables, warned, overlapped, edits>>

\* Findings already persisted with the same verdict are dropped; without the
\* history every finding survives.
RunDedup(r) ==
  /\ pc[r] = "dedup"
  /\ \/ /\ Outcome(r, TRUE)
        /\ scored' = [scored EXCEPT ![r] = {f \in Reported(r) : ~Known(r, f)}]
        /\ UNCHANGED warned
     \/ /\ Outcome(r, FALSE)
        /\ scored' = [scored EXCEPT ![r] = Reported(r)]
        /\ Warn(r, "history")
  /\ queue' = [queue EXCEPT ![r] = scored'[r]]
  /\ Goto(r, "persist")
  /\ UNCHANGED <<tree, tables, cancelled, prior, todo, hash, snap, exit, overlapped, edits>>

-----------------------------------------------------------------------------
(* Persistence: persistFindings, CommitScan, FinalizeScanRun.              *)

\* Mutant: the upsert does nothing on a conflict, the first label stays.
PersistFindingOnce(r, f) ==
  /\ pc[r] = "persist"
  /\ f \in queue[r]
  /\ \/ /\ Outcome(r, TRUE)
        /\ findings' = [findings EXCEPT ![f] = IF @ = None THEN Severity[snap[r][f]] ELSE @]
        /\ UNCHANGED warned
     \/ /\ Outcome(r, FALSE)
        /\ Warn(r, "finding")
        /\ UNCHANGED findings
  /\ queue' = [queue EXCEPT ![r] = @ \ {f}]
  /\ UNCHANGED <<tree, scanState, runs, pc, cancelled, prior, todo, hash, snap, scored,
                 exit, overlapped, edits>>

\* One UpsertFinding; a failure is a warning and the loop goes on.
PersistFinding(r, f) ==
  /\ pc[r] = "persist"
  /\ f \in queue[r]
  /\ \/ /\ Outcome(r, TRUE)
        /\ findings' = [findings EXCEPT ![f] = Severity[snap[r][f]]]
        /\ UNCHANGED warned
     \/ /\ Outcome(r, FALSE)
        /\ Warn(r, "finding")
        /\ UNCHANGED findings
  /\ queue' = [queue EXCEPT ![r] = @ \ {f}]
  /\ UNCHANGED <<tree, scanState, runs, pc, cancelled, prior, todo, hash, snap, scored,
                 exit, overlapped, edits>>

PersistEnds(r) ==
  /\ pc[r] = "persist"
  /\ queue[r] = {}
  /\ Goto(r, "commit")
  /\ UNCHANGED <<tree, tables, cancelled, local, warned, exit, overlapped, edits>>

\* Rows of files the walk did not see are deleted; the loop stops at the first error.
CommitScan(r) ==
  /\ pc[r] = "commit"
  /\ \/ /\ Removed(r) = {} \/ Outcome(r, TRUE)
        /\ scanState' = [f \in Files |-> IF f \in Removed(r) THEN None ELSE scanState[f]]
        /\ UNCHANGED warned
     \/ /\ Outcome(r, FALSE)
        /\ \E done \in SUBSET Removed(r) :
             /\ done # Removed(r)
             /\ cancelled[r] => done = {}
             /\ scanState' = [f \in Files |-> IF f \in done THEN None ELSE scanState[f]]
        /\ Warn(r, "commit")
  /\ Goto(r, "finalize")
  /\ UNCHANGED <<tree, runs, findings, cancelled, local, exit, overlapped, edits>>

\* The row becomes "complete"; there must be one.  The process then exits.
FinalizeRun(r) ==
  /\ pc[r] = "finalize"
  /\ \/ /\ Outcome(r, TRUE)
        /\ runs[r] # None
        /\ runs' = [runs EXCEPT ![r] = "complete"]
        /\ UNCHANGED warned
     \/ /\ Outcome(r, FALSE) \/ runs[r] = None
        /\ Warn(r, "finalize")
        /\ UNCHANGED runs
  /\ exit' = [exit EXCEPT ![r] = ExitCode(r)]
  /\ Goto(r, "exited")
  /\ UNCHANGED <<tree, scanState, findings, cancelled, local, overlapped, edits>>

-----------------------------------------------------------------------------
Walk(r) == WalkFails(r) \/ WalkEnds(r) \/ \E f \in Files : WalkFile(r, f) \/ WalkSkip(r, f)

\* The steps a run takes by itself.
Step(r) ==
  \/ Walk(r)
  \/ RegisterRun(r)
  \/ Detect(r) \/ DetectFails(r)
  \/ RunDedup(r)
  \/ PersistEnds(r) \/ \E f \in Files : PersistFinding(r, f)
  \/ CommitScan(r)
  \/ FinalizeRun(r)

Next ==
  \/ \E f \in Files : Edit(f)
  \/ \E r \in Scans : Start(r) \/ StartFails(r) \/ Kill(r) \/ Signal(r) \/ Step(r)

Spec == Init /\ [][Next]_vars

-----------------------------------------------------------------------------
(* Properties.                                                             *)

Vulnerable(c) == c # None /\ Severity[c] # "none"

\* The run got through persistFindings.
Persisted(r) == pc[r] \in {"commit", "finalize", "exited"}

\* The detectors have run, f was in their scope, and they read another content
\* of f than the walk had hashed.
Detected(r) == Persisted(r) \/ pc[r] \in {"dedup", "persist"}
Raced(r, f) ==
  /\ Detected(r)
  /\ "opengrep" \notin warned[r]
  /\ Changed(r) = {} \/ f \in Changed(r)
  /\ snap[r][f] # hash[r][f]

\* Reasons, each visible to an operator, why a file taken up by r may be unrecorded.
Excused(r, f) ==
  \/ ~Persisted(r)
  \/ warned[r] \cap {"opengrep", "finding"} # {}
  \/ Raced(r, f)

\* The content of f that r dealt with.
Took(r, f) == IF hash[r][f] # None THEN hash[r][f] ELSE prior[r][f]

(* No vulnerable content is lost silently: the walk advances the baseline   *)
(* before anything is scanned, so a hash in scan_state must either have its *)
(* finding in the findings table, or have been put into the change set of a *)
(* run that is still going, was killed or failed, logged a warning about    *)
(* its scanner or its writes, or had the file edited under it.              *)
NoSilentLoss ==
  \A f \in Files : Vulnerable(scanState[f]) =>
    \/ findings[f] # None
    \/ \E r \in Scans : /\ hash[r][f] = scanState[f]
                         /\ f \in Changed(r)
                         /\ Excused(r, f)

(* A scan that finds nothing changed rescans the whole target, so it heals  *)
(* whatever earlier interrupted runs left unscanned: after it persisted,    *)
(* every vulnerable file it walked has a finding.                           *)
QuietScanHeals ==
  \A r \in Scans : Persisted(r) /\ Changed(r) = {} =>
    \A f \in Files :
      Vulnerable(hash[r][f]) /\ ~Excused(r, f) => findings[f] # None

(* The inductive strengthening of TypeOK and NoSilentLoss (proved in        *)
(* ScanLifecycleProofs).  Hashes in the baseline, and in the baseline a run *)
(* loaded, come from the change set of some run; what a run reported is on  *)
(* its way to the findings table, or in it, until the run is gone.          *)
TookUp(r, f, c) == hash[r][f] = c /\ prior[r][f] # c

Provenance ==
  \A f \in Files :
    /\ scanState[f] # None => \E r \in Scans : TookUp(r, f, scanState[f])
    /\ \A q \in Scans : prior[q][f] # None => \E r \in Scans : TookUp(r, f, prior[q][f])

Unvisited ==
  \A r \in Scans :
    /\ pc[r] = "new" => \A f \in Files : hash[r][f] = None
    /\ \A f \in todo[r] : hash[r][f] = None

QueueReported ==
  \A r \in Scans : queue[r] # {} => pc[r] = "persist" /\ queue[r] \subseteq Reported(r)

OnItsWay ==
  \A r \in Scans :
    (Persisted(r) \/ pc[r] = "persist") /\ warned[r] \cap {"opengrep", "finding"} = {} =>
      \A f \in Reported(r) : findings[f] # None \/ (pc[r] = "persist" /\ f \in queue[r])

IInv == TypeOK /\ Provenance /\ Unvisited /\ QueueReported /\ OnItsWay

(* Without overlapping runs the label in the findings table is the one of   *)
(* the baseline content, unless a run that took up this very content (it    *)
(* hashed it, or inherited it as its baseline) has an excuse: history,      *)
(* dedup and upsert never leave an older verdict behind.                    *)
VerdictIsCurrent ==
  \A f \in Files : Vulnerable(scanState[f]) /\ ~overlapped =>
    \/ findings[f] = Severity[scanState[f]]
    \/ \E r \in Scans : Excused(r, f) /\ Took(r, f) = scanState[f]

(* CommitScan leaves the baseline equal to what the walk saw: deleted files *)
(* go, and nothing else does, unless the run warned or runs overlapped.     *)
CommitMirrorsWalk ==
  [][\A r \in Scans : pc[r] = "commit" /\ pc'[r] = "finalize"
       /\ "commit" \notin warned'[r] /\ ~overlapped
     => scanState' = hash[r]]_vars

(* Exit code 0: every BLOCK the run's scanner reported is in the findings   *)
(* table as a BLOCK already, whatever statement failed or signal came, if   *)
(* no run overlapped it.  A run that could not record one does not exit 0.  *)
CleanExitIsRecorded ==
  [][\A r \in Scans : exit[r] = None /\ exit'[r] = 0 /\ ~overlapped
     => \A f \in Reported(r) :
          Severity[snap[r][f]] = "BLOCK" => findings[f] = "BLOCK"]_vars

(* What ingestion.go:162-168 says of the baseline (CommitScan persists it,  *)
(* after a successful scan; without the commit the next scan is a full one) *)
(* amounts to: a run that exits without a warning and without an edit under *)
(* it leaves no vulnerable file of its walk unrecorded.                     *)
CompletedScanCoversWalk ==
  \A r \in Scans : pc[r] = "exited" /\ warned[r] = {} =>
    \A f \in Files :
      Vulnerable(hash[r][f]) /\ ~Raced(r, f) => findings[f] # None

(* What main.go:208 says of the exit code: 0 means no BLOCK or HIGH finding *)
(* among those the run reported.                                            *)
ExitZeroMeansNoBlock ==
  \A r \in Scans : exit[r] = 0 /\ warned[r] = {} =>
    \A f \in Reported(r) : Severity[snap[r][f]] # "BLOCK"
=============================================================================
