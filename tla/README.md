# ZeroTrust.sh, specified

TLA+ models, TLC runs and TLAPS proofs for the scan engine of ZeroTrust.sh: a
Go program that scans a source tree for vulnerabilities on three concurrent
paths, remembers what it scanned and what it found in Postgres, and drives a
Joern JVM as a subprocess. `PROJECT.json` is the machine-readable index (runs,
mutants, the source lines behind every definition, hazards, theorems); paths
below are relative to `src/`.

## 1. The system

| component | state | operations | interacts with |
|---|---|---|---|
| CLI (`cmd/zerotrust/main.go`) | context, exit code | `runScan`, signal handler, `exitCodeForFindings` | runs one pipeline per process |
| pipeline (`internal/pipeline/pipeline.go`) | run id, project id, `findCh` | `StartScanProcess`: Joern, ingestion, register, detect, dedup, persist, commit, finalize; `Close` | everything else |
| differential index (`internal/ingestion`) | table `scan_state` | `Diff` (walk, hash, upsert), `Commit` (delete) | pipeline, tables |
| tables (`pkg/postgres`) | `scan_runs`, `findings`, `scan_state`, `cpg_*` | upserts, snapshots, finalize | shared by all CLI processes |
| Joern client (`internal/cpg_engine/joern.go`, `pipeline/portmgr.go`) | `cmd`, `done`, `crashed`, `stopping`, one TCP port | `Start`, `Stop`, crash watcher, `waitReady`, `resolvePortConflict` | JVM, other processes on the port |
| detection paths (`runDeterministic`, `runReasoning`, `orchestrator/engine.go`) | slices under mutexes, errgroup, channel | fan out, collect, send, close, range | scanners, dedup |
| dedup and scoring (`internal/dedup`, `internal/finding`) | reports of a scan, persisted verdicts, sidecar, KEV set | history, gate 1, SSVC, boosts, suppression | paths, `findings` |
| surface selection B1, B2 (`internal/semantic/targeting`, `enrichment`) | file classes, call graph, surfaces, claims | `Run`, `Enrich` | CPG graph, Trivy |
| reasoning funnel B3 to B5 (`internal/semantic/contracts`, `crypto`, `triage`, `analysis`, `pipeline/reasoning.go`) | verdicts, queue of surfaces, a conversation | contract check, triage, tool loop, `processB5Findings` | CPG graph, LLM |
| CPG build and cache (`pipeline/cpg_incremental.go`, `cpg_engine/build.go`) | snapshot files, `cpg_cache`, nodes and edges in Postgres | build, load, patch, ingest | Joern, tables |
| CPG graph (`cpg_engine/graph_impl.go`), HTTP protocol (`http.go`) | scan-scoped caches, pending queries | node, edge and taint queries | Joern |
| LLM providers (`pkg/llm`) | retry budget | `Generate`, `Chat` | B3, B4, B5, PoE |
| proof of exploit (`internal/poe`) | docker objects, results | `Verifier.Run` | Docker, LLM, graph |
| MIV, patches, reports, output | see PROJECT.json | | |

What is hard here:

- **What survives a failure.** The baseline (`scan_state`) is advanced file by
  file *while walking*, before any detector has run. A crash, a signal, an
  error of one path or a failing statement between the two must not make a
  vulnerable file count as scanned and clean without anybody noticing.
- **Several processes.** CLI processes share tables and the Joern port without
  locks. Developers edit files between the hash and the scan.
- **Concurrency in one process.** Three paths and their workers, a bounded
  channel, a closer goroutine, an errgroup whose error arrives behind the
  channel's end.
- **A subprocess with its own mind.** The port is probed, not reserved; the JVM
  binds it seconds later, dies at any time, ignores SIGTERM; the flag that says
  so belongs to the client, not to the process.
- **A model that answers anything.** B3 to B5 and the exploit grader ask a
  language model that may answer without looking, call tools that do not exist,
  fail or contradict itself. What it says must not decide more than the gates
  around it allow, and its conversation has to end.
- **Graphs with gaps.** Call graphs have cycles, and the queries behind them may
  be cut short or fail one by one; searches and attributions run on what arrived.
- **Queries that outlive their caller.** A query to Joern that was given up goes
  on in the server and may replace the graph the next query is answered from.
- **Verdicts over time.** Reports of one location arrive in any order, are
  filtered by history, merged, boosted, pinned and suppressed; the row must
  follow the reports from scan to scan.

## 2. Modules

| module | models | lines of code it stands for |
|---|---|---|
| `ScanLifecycle` | scans of one project, with faults | `StartScanProcess`, `Diff`, `Commit`, the three tables, `runScan` |
| `JoernClient` | clients, callers, JVMs and the port | `Start`, `Stop`, watcher, `waitReady`, `resolvePortConflict` |
| `Gather` | abstract promise of the detection stage | (specification only) |
| `DetectionPaths` | the detection stage; implements `Gather` | `StartScanProcess` 343-372, the three paths |
| `Dedup` | one finding_id over many scans | `Layer.process`, `merge`, scoring, suppression, the row |
| `CPGCache` | how scans of several projects obtain their graphs | `buildOrLoadCPG`, `BuildCPG`, `IncrementalPatch`, `SaveCPG`, `IngestCPGToDB`, `cpg_cache`, `cpg_builds` |
| `JoernQuery` | one client talking to its Joern server | `doQuery`, `BuildCPG` with its attempts, `SaveCPG`, `LoadCPG` |
| `CallGraph` | reachability and distances in a call graph | `GetCallers`, `GetCallees`, searches |
| `Targeting` | B1, step by step | `targeting.Run`, boundaries, IDOR, second order, bulk queries |
| `Enrichment` | B2: flows, walk-up, fan-in, call paths, CVEs | `Enrich`, `ProjectWideTaintPaths`, Trivy matches |
| `Attribution` | B1 followed by B2, and what comes out | `runReasoning` 248-290 |
| `Contracts` | B3 and the crypto check as operators | `Checker.Check`, `escalate`, the rule book |
| `Investigation` | B5 on one surface | `scanOne`, `runToolLoop`, `selfConsistencyCheck` |
| `Funnel` | crypto, B3, B4, B5 and what is sent; contains the two above | `runReasoning` 272-485, `triage.Filter`, `processB5Findings` |
| `Routes` | the entry point of a finding | `route*.go` |
| `PoE` | verification, persistence, patches and exit behind a scan | `Verifier.Run`, sandbox, grading, `runScan` 168-217 |
| `MC...` | model values and bounds for TLC | |
| `...Proofs` | theorems and their TLAPS proofs | |

Operators whose comment begins with "Mutant:" are deliberately wrong variants
of the definition behind them. They are used nowhere; `PROJECT.json` names for
every checked property one variant that breaks it.

The modules are separate because what joins the components is narrow.
`ScanLifecycle` sees the detection stage as three outcomes (findings read from
the tree, a scanner warning, an error), and `DetectionPaths` shows that this is
all there is to see: everything found is delivered, or the stage fails because
of a path (`Gather`). It sees scoring as a function of the content, and `Dedup`
examines that function. A missing Joern only empties the paths that need it. `Attribution` ends where
`Funnel` begins: with surfaces and what is known of each (`Shapes`), every one of
them conceivable. `Funnel` in turn is the step `Analyse` of `DetectionPaths`, and
the reports it sends are kinds of reports of `Dedup`. `JoernQuery` is the inside
of the step `Build` of `CPGCache`, which sees a build that fails or yields a new
graph; `BuiltGraphIsNew` and `FailsForCause` say that this is right. `PoE` starts
from the scored findings of `Dedup`, whose label never exceeds their confidence,
unless it is the LOW that a verdict of not exploitable is pinned to
(`verdict.go` 170-188); `PoEAssumption` is what `LabelsAreBacked` proves of them.

### ScanLifecycle

State: the tree; `scanState`, `runs` and `findings` (the tables, keyed by file
since the project is fixed); per run its stage `pc`, the loaded baseline
`prior`, files still to visit `todo`, the hashes seen, the content `snap` the
scanner read, the survivors of dedup, those not yet upserted, the warnings, the
exit code; `overlapped` and `edits` are history and bound.

| action | code |
|---|---|
| `Start`, `StartFails` | `Diff` loads `priorMap` |
| `WalkFile`, `WalkSkip`, `WalkFails`, `WalkEnds` | the `WalkDir` callback: hash, compare, **upsert at once**; unhashable files are left out; a directory error, a failed upsert or a cancelled context aborts with the rows written so far |
| `RegisterRun` | `registerRun`, failures are warnings |
| `Detect`, `DetectFails` | the scanner reads the change set, or everything if it is empty; a failing scanner is a warning; a failing path ends the run |
| `RunDedup` | `dedupHistorical`: unchanged verdicts are dropped, all are kept if the history cannot be read |
| `PersistFinding`, `PersistEnds` | one `UpsertFinding` at a time |
| `CommitScan` | deletes the rows of files the walk did not see, up to the first error |
| `FinalizeRun` | `FinalizeScanRun`, needs the row; then the exit code |
| `Edit`, `Kill`, `Signal` | environment: developers, SIGKILL or panic, SIGINT/SIGTERM cancelling the context |

Abstractions: a content is its own hash; a file carries at most one finding and
its label depends on the content alone; BLOCK stands for BLOCK and HIGH (both
give exit code 1), LOW for the rest; the walk visits files in any order; the
detectors of a run read the tree in one step (an edit before or after the walk's
read of a file is kept, edits *between* two detectors are not); `isTestPath`
filtering, removed files in the CPG, and the SSVC and PoE rows behind a finding
are left out; a killed or failed run drops its local state except the history
variables the properties use.

### JoernClient

State: per client `mu`, `cmd`, `crashed`, `stopping`; per caller its place
inside `Start`, `Stop` or the conflict dialogue and the process it holds; per
process its life, its spawner, its watcher and the signals sent to it; the port.
`StartLock`, `StartCheck`, `StartSpawn` are the critical section of `Start`,
`ReadyCheck` and `ReadyPing` the loop of `waitReady`, `FindOwner` and
`KillOwner` the dialogue of `resolvePortConflict` (its retry is again
`StartLock`, from stage "freeing"), `StopTake` to `StopKill` the steps of `Stop`
between which the mutex is free, `WatcherFlag` and `WatcherDone` the crash
watcher. `Bind` and `Exit` are the JVM.

Abstractions: ping counters are free choices (any ping may be the last); the
idle poll of `resolvePortConflict` is a free delay; the process group is one
process; a pid is not reused; only Joern servers of modelled clients listen on
the port; a CLI process that is killed is a caller that takes no more steps.

### DetectionPaths and Gather

`FanOut`, `Scan`, `Lock`, `AppendFound`, `WorkersDone` are the two paths that
spawn workers (the critical section is split into the read of the slice header
and the write, so that a missing mutex would show), `SelectSurfaces` to `Analyse`
the reasoning path, `Send`, `PathReturns`, `Close`, `Receive`, `Finish` the
channel and the errgroup. The errgroup's context is not modelled as cancelling
scanners separately: a cancelled scanner is one that fails, and any may. The mapping to `Gather` takes received findings for
`delivered`, the errgroup's error for `broken`, the main goroutine's state for
`outcome`.

### Dedup

One finding_id: `Report` is a report arriving from the channel, `EndScan` is
`process` plus the upsert. `Unchanged`, `Merge`, `MergeAll`, `Score`, `Suppress`
are the functions of the code in the order the code calls them. Confidences are
percentages, and so are CVSS scores (9.8 is 98, the code divides by ten):
decimal fractions of two digits are exact in this form, the floats of the code
are not at thresholds, which is outside the model. Whether KEV or EPSS call the
CVE exploited, and whether the sidecar has the rule, are chosen anew for every
scan. Path-based suppression and the CWE table are constants.

### CPGCache

State: on disk the trees, the hashes of the last walk and the snapshot files; in
the database the row of `cpg_cache`, the version of `cpg_builds`, and the rows of
nodes and edges; of the scan its place `pc` in the code, its project and change
set, the graph in its JVM (`loaded`), the version its client was given by
`SetDBBackend` (`backend`), and how `buildOrLoadCPG` ended. `trouble` and
`unsynced` are history. `WithID` are the projects scanned with `--project-id`:
`pipeline.go` 441 names the snapshot by this option and not by the derived ID of
the project, so all others share the file `default.cpg` (`SnapshotPath`, `Sharing`).

| action | code |
|---|---|
| `StartScan` | `runIngestion`: the walk, then `buildOrLoadCPG` with the changed files |
| `GateHit`, `GateMiss` | the cache gate: row, `os.Stat`, `LoadCPG` |
| `EnsureDBBackend` | `ensureDBBackend`: a recorded version is taken, otherwise the graph is ingested |
| `LoadSnapshot`, `Locate`, `Patch` | the prior snapshot, the methods of the changed files, `IncrementalPatch` |
| `Build`, `Save` | `buildFullCPG`: lines of code, `BuildCPG`, `SaveCPG` |
| `Ingest`, `RecordBuild` | `IngestCPGToDB`, one kind of rows at a time, and the version behind them |
| `UpsertCPGCache` | the row of `cpg_cache`, always with 0 changed functions |
| `EndScan`, `Crash`, `Edit` | the scan ends or dies and its JVM with it; developers |

Abstractions: a graph is its project and the contents of its files, a file has
one method and a kind of rows one page; edits happen between scans; each scan
spawns its own JVM, which is fresh (an externally managed server is not
modelled) and scans of the machine follow each other; the version of an ingest,
a Unix second, is the number of the scan; `Client.Version` only ever answers
"unknown", so the invalidation by Joern version never fires and is left out, as
is the return for no changed functions, which an empty list alone would reach;
whether the changed files exceed the line limit is a free choice, the target
directory, which stands in for an empty change set, counts no lines. Methods are
found by node ID and patched by full name: no ID is a full name, so the patch
changes nothing (`Patched`, lemma `PatchChangesNothing`). A snapshot copied in
part fails at the gate, which logs that it is rebuilding, and fails again in
`LoadSnapshot`, which returns: nothing ever replaces it.

### JoernQuery

State: of the client the query in hand (`step`), whether it polls, which of its
two deadlines have passed (`build` for the imports and checks of `BuildCPG`,
`query` for every query without a deadline of its caller), the idle clock; of
the server its queue, the answers it holds and the active graph. `Post`,
`GiveUp`, `PollUnfinished`, `PollGarbled` and `PollAnswered` are `doQuery` line by
line: one POST, never repeated, then polls, of which a 202 alone leaves the idle
clock running. `After` is the script around it: load, import, count methods, the
second language, save, and one query for the stages that follow. `Work` is the
single thread of the REPL, which executes what it has accepted in order, also
for a client that has gone; `Effects` says that an import may succeed without a
graph ("quiet"), fail and leave either the old graph or none, or make a new one
with or without methods. `failed` and `garbled` are history.

Abstractions: a transport error of a poll, which the code retries, is a stutter;
a response that cannot be read ends the query; one page query stands for all.

### Targeting, Enrichment, Attribution

Methods are numbered in the order of the METHOD query; a file is as its first
lines classify it (`Bound`), names match or do not (`AuthNamed`, `IDORNamed`).
`GetCallGraph` and `QueryNodes` fetch in bulk: from the database, where an
interrupted cursor ends like an exhausted one, so that up to `MaxLostRows` rows
may be missing at the end, or from Joern, all or nothing. `Seed`, `Visit` and
`NextSearch` are the searches with their worklist, one method per step, forwards
from sources, backwards from sinks and from authentication; `Select` merges,
classifies and sorts. In `Enrichment`, `QueryTaint` filters phantom flows and
cuts the rest at `MaxTaintPaths`, `WalkUp` attributes one flow whose method is no
surface (the callers of up to `MaxBlind` methods cannot be had), `Attribute`
applies the fan-in guard, `StartSurface` and `FinishSurface` are the workers.

Abstractions: the least distance is taken from the set of callers at each
distance; a name matches a package or not; the order of a surface's paths and
source excerpts are left out. The sort of the surfaces is stated by its result
(`Sorted`: each surface stands behind as many as come before it), which the
total order of the code (kind, depth, ID) makes unique.
`WalkUpRounds` is 6 as the loop says, but the early stop ends it behind the
third round without a hit (`GiveUpRound`).

### Contracts, Investigation, Funnel

`Contracts` computes the verdict of B3 on a surface from what it contains
(`Shapes`): applicable CWEs, anchors, sinks, sanitizers, and the votes of the
model for each CWE that is escalated, two samples of which each may say yes, no,
or fail. `Investigation` is B5: `CallTools` and `Answer` are one round of
`runToolLoop`, an answer being accepted or refused by the gates on
investigation, second hop and diversity; then the final answer, the retry of an
empty one, `Judge` with the gates of `scanOne`, and `Probe`, the second opinion.
`Funnel` adds the order of the stages and the book-keeping of `runReasoning`:
which surfaces are reviewed, in a queue of one at a time, and what is sent.

Abstractions: a verdict is whether it claims exploitability, a confidence and
whether it hedges; whether a tool call returned something (`informed`) is
history; tools are two names and one that is made up. The stage names follow
the source; `Shapes` covers one surface kind per path through the code.

### PoE and Routes

One action per step of `Verifier.Run`: `Detect`, `BuildImage`, the four steps of
`boot`, `Verify` for one finding, `Teardown`, `RemoveImage`; then
`PersistPoEResults`, `SuggestPatches`, `Exit`. `res` holds the docker objects and
files that exist, `logged` those a warning names. The verdict of an attempt
follows `gradeExploitResult`: deterministic marks first, then the reply of the
model, of which `parseVerdict` makes a status. `Routes` finds the enclosing
method and the entry points by language over sources of a few lines.

## 3. Runs

| run | bounds | shows |
|---|---|---|
| `scan_runs` | 2 files, 2 contents, 2 runs, 1 edit; at once with kill, signal, scanner and path failures, or in turn with kill, failing statements, scanners and unreadable files | `NoSilentLoss`, `CleanExitIsRecorded`, `QuietScanHeals`, `VerdictIsCurrent`, `CommitMirrorsWalk` |
| `scan_lost` | in turn, kills only | violated: a clean scan behind a killed one leaves a file unscanned |
| `joern_client` | 2 CLI processes, 3 JVMs | seven safety and liveness properties of the subprocess |
| `detection_paths` | 4 workers, 7 findings, capacity 2 | delivery, closing, termination, refinement of `Gather` |
| `dedup` | 10 kinds of reports, up to 3 a scan, any number of scans | order, monotonicity, no overstatement, changed verdicts land |
| `cpg_cache` | 2 projects without IDs on one snapshot, 2 files, 2 contents, 3 scans, 1 edit; failing calls and crashes | `RecordedBuildComplete`, `BackendsAgree`, `ErrorHasCause` |
| `shared_snapshot` | the same, nothing fails and nothing is edited | violated: a scan goes on with the graph of the other project |
| `joern_query` | 2 languages, every fault, any queue | `BuiltGraphIsNew`, `FailsForCause`, `ScriptEnds` |
| `attribution` | 8 methods in 3 call graphs (chain, cycle, deep), 1 lost row, 1 blind method, 2 workers | `SurfacesOnPaths`, `AttributionIsUnambiguous`, `ConfirmedSinksKept`, `AttributionEnds` |
| `funnel` | 2 surfaces, 6 pairs of shapes, 4 rounds, 3 tool names, 4 confidences | gates on verdicts, one report per violation, `SafeNeedsProof`, `ReasoningEnds` |
| `poe` | lists of up to 3 findings, every call free to fail | `OnlyConfirmationRaises`, `LeftoversAreLogged` |
| `poe_index` | the same | violated: eligible findings left out, others attacked |

Why the bounds suffice. Two files tell "in the change set" from "not in it",
which is all a file needs another one for; two runs give every order of a
baseline written by one and loaded by the other; two contents with different
labels distinguish a stale verdict from a missing one; one edit in addition to
a free initial tree changes, removes or restores a file during either run.
`MCScanRuns` puts two instances of the lifecycle side by side, which differ in the
manner of the runs and in the faults: every fault in overlapping runs is too much for
TLC, and is left to the proofs, which make no such distinction. For
Joern, three processes allow an orphan candidate, its successor and a
competitor; a channel of capacity two blocks with seven findings in flight. In
`Dedup` three reports are the least that make merging order matter in the
middle, and rows of earlier scans are unbounded. Three scans of `CPGCache` are a
build, a scan that fails or dies anywhere, and one that relies on what both left
behind; the two projects have no ID, as in every scan without `--project-id`, so
either finds what the other left in their snapshot.
`JoernQuery` needs two languages for an abandoned import to meet the next one.
In `Attribution` the chain has a source, a sink and an authentication check on
side branches, the cycle is one a search runs around and has an edge out of the
project, the deep graph a flow with two surfaces above it at different
distances; one lost row or one blind method is what changes an attribution,
`LongFlow` = 2 and `MaxTaintPaths` = 4 stand for 500 and 1000 and are both exceeded.
`MaxToolCalls` is 4 and not 8: every nudge of the loop fires at most once or in
the first rounds, so four rounds hold an investigation, a refusal of each kind and
an answer. Confidences of 0, 80, 90 and 100 lie on both sides of each threshold,
before and behind a downgrade. Two surfaces are the least for a review to be
mixed up with another one. In `PoE`, three findings put an eligible one behind
one that is not, in every combination that the loops tell apart.
What the bounds leave open, the proofs of section 4 close for every safety
property that a passing run checks.

CHECK_DEADLOCK is off where the system really stops: after the last run or
scan, and when no process is left to spawn. It is on everywhere else, with an explicit
step for the end (`Finished`, `Terminated`).

The type invariants of `Dedup`, `DetectionPaths`, `Funnel`, `PoE` and `JoernQuery`
document their variables; TLC was run with them once, and the runs spend their
time on the other properties.

### Fairness

`ScanLifecycle`, `Dedup`, `CPGCache` and `PoE` assume none: all their properties are safety.
`JoernClient` assumes that goroutines are scheduled, that the stop timer fires,
that a spawned JVM reaches its bind and that SIGKILL works; nothing about
SIGTERM, about operators, or about callers calling anything. A `Stop` step may
be taken by the timer although the process has just exited, as in the `select`
of the code. `DetectionPaths` assumes that every runnable goroutine runs and
that every analysis returns: scanners are child processes under the scan's
context, LLM calls and Joern queries have deadlines. `Funnel` and
`Attribution` assume that the goroutine of the path goes on: every request to a
model or to Joern ends with an answer or an error, because `pkg/llm` and `doQuery`
have deadlines. `JoernQuery` is where the latter is shown: it assumes that the
client's goroutine runs and that its clock advances, and nothing at all about
the server, which may hang, answer every poll with "not yet", or die unnoticed.
No strong fairness is used.

### Disagreements between code and documentation

Three are kept as runs:

- *The baseline is advanced before the scan* (`scan_lost`). `ingestion.go`
  162-167 promises that it advances on commit, after success. `NoSilentLoss`
  and `QuietScanHeals` say what does hold: the loss is never silent (some run
  was killed, failed, warned or raced an edit), and the next scan that meets no
  change at all repairs it.
- *The verifier attacks the wrong findings* (`poe_index`): positions in the list
  of eligible indices are used as indices (`poe.go` 119, 132, 143). Findings
  before the first ineligible one are right, all others are not.
- *Projects without an ID share a snapshot* (`shared_snapshot`, `OwnGraph`).
  `cpg_incremental.go` 424-435 tells how this was found and whom to pass;
  `pipeline.go` 441 still passes the raw `Config.ProjectID`, empty without
  `--project-id`. What a scan queries may be the graph of another project; that the
  tables and Joern agree on it, and that taint analysis fails for a cause only, holds
  all the same (`BackendsAgree`, `ErrorHasCause`).

The following were found with TLC as well. Their properties stay in the modules;
a configuration that checks one is the named one with the constants given here.

- *Exit code 0 on an unchanged rescan* (`ExitZeroMeansNoBlock`, `ScanLost.cfg`
  without faults and edits), against `main.go` 208.
- *A rescan lowers a verdict* (`RescanKeepsVerdict`, `Dedup.cfg` with
  `ReportsOfOpenGrep` and two reports): history filters raw reports, gate 1
  merges afterwards. Against `gates.go` 49-50 and `dedup_test.go` 142-151.
  `ChangedVerdictLands` is about the other scans, none of whose reports equals the row.
- *The cache gate takes every graph for current* (`HitIsCurrent`, `CPGCache.cfg` with
  one project, which is in `WithID`, and without faults): the gate asks for 0 changed
  functions, the only number anything writes. Against `cpg_incremental.go` 135-137 and
  `docs/architecture.md` 44.
- *The crash flag outlives its process* (`CrashFlagHonest`, `JoernClient.cfg`
  with one client and `SharedClient`), against "All exported methods are safe to
  call concurrently" (`joern.go` 152). The pipeline has one caller per client;
  for it the flag is right, which is proved.
- *A decision without evidence* (`DecidedOnEvidence`, `Funnel.cfg`): a tool call
  that fails or names no tool counts as an investigation, and so does the retry
  of an empty answer. `analysis.go` 301-303 means to exclude verdicts nobody
  looked into; `UninvestigatedNeverDecides` is what the code does guarantee.
- *Sanitized flows are never marked* (`SanitizedPathsAreMarked`,
  `Attribution.cfg`): nothing sets `TaintPath.Sanitized` (`interface.go` 136-137),
  so that the structural "safe" of B3 is unreachable.

Met while modelling, without a property: `ingestion.go` 89 says that MIV errors
set `BlockLLM=true`, the code defaults to WARN (137-142), and no model path is
ever passed. A save that fails is commented as non-fatal in `build.go` 206 and
fails the build. A sandbox that fails to boot leaves container, network or
profile without a warning (the `booted` in `LeftoversAreLogged`). Invalid patches
are kept although `patch.go` 24-26 says they are omitted. The walk-up of
`enrichment.go` 264 has six rounds and stops behind the third. Some IDOR signals
contain capitals and are compared with lower case, so they never match. Cursors
are drained without a look at `rows.Err()` (`graph_impl.go` 285-311), which is
where `MaxLostRows` comes from. The guard on a CWE mismatch in B5 and the outcome
"dropped" of the taint gate never fire.

## 4. Proofs

Eight modules, `...Proofs`, state the theorems of the module they are named for;
`FindingsProofs` is about two, `Attribution` (where a taint path becomes a
surface's finding) and `Dedup` (where findings become a verdict), which share their
lemmas on induction and sequences. A theorem holds for every value of the constants that satisfies the module's assumption, and
the assumptions say no more than the code sees to:

| assumption | says |
|---|---|
| `LifecycleAssumption` | None is no content, label or exit code; severities are labels; faults are known kinds |
| `JoernAssumption` | callers have clients, None is no process and no caller |
| `CacheAssumption` | None, Torn and Default are themselves |
| `QueryAssumption` | there is a first attempt, faults are known kinds, no project is no graph |
| `PathsAssumption` | every worker has a path, no two workers report the same finding, the channel holds one at least |
| `DedupAssumption` | a report has the fields of `Finding` and one path of origin; only the reasoning path pins a severity or finds anything exploitable; a pinned label is LOW or backed by its confidence (`reasoning.go` 195-224, `verdict.go` 170-192); what the path reports of a class that can be automated without a verdict is a contract violation of 65 % (`reasoning.go` 137) |
| `TargetingAssumption` | a node ID is a number, in the list of methods and on both ends of a call; the imports of a method's file are among the four kinds; the bound on lost rows is a number |
| `EnrichmentAssumption` | there is a worker; the caps of the taint query and the bound on blind methods are numbers |
| `FunnelAssumption`, `InvestigationAssumption` | None is no surface; tools are finitely many and an invented name is none of them; a confidence is a number, of any size |
| `PoEAssumption` | findings are scored as `Dedup` leaves them |

Bounds (edits, reports, processes, rounds) are arbitrary numbers.

- **TypeCorrect** in all eight (in `FindingsProofs`, that of `Dedup`).
- **NothingLostSilently** (`NoSilentLoss`): for any number of files, contents and
  overlapping runs and any faults. `NoSilentLoss` is not inductive: when `CommitScan` or a
  walk rewrites the baseline nothing in it says where a hash came from. The
  invariant adds `Provenance` (every hash in the table, *and in every loaded
  baseline*, was in the change set of some run), `Unvisited` (a run has no hash
  for a file it has not visited, so its history is written once),
  `QueueReported`, and `OnItsWay` (what a run reported is in the table or in its
  queue as long as it logged no warning). A run that took up the hash is then
  either excused or past persistence with its finding stored.
- **QuietScansHeal** (`QuietScanHeals`) from the same invariant: a run without
  changes has the whole tree in its scope, so what it walked is what it reported.
- **VerdictsStayCurrent** (`VerdictIsCurrent`), **CommitsMirrorTheWalk**
  (`CommitMirrorsWalk`) and **ExitZeroIsRecorded** (`CleanExitIsRecorded`) speak of
  runs in turn. `TInv` adds what is true as long as `overlapped` is not: one run is
  alive at most (`OneAtATime`); the baseline is what it took over or walked, less
  what its commit deleted (`BaselineFollows`); each of its reports is recorded with
  its very label or still queued, or was warned about (`Dispatched`); and
  until it writes its own verdict on a file the inherited one stands
  (`Inherited`). The last is what the property lacks: a run that leaves a file
  alone has to find its verdict at the end as it was at the start, and the excuse
  of an earlier run has to last (`ExcuseKept`). On the way the properties could be
  stated more strongly than they had been: a run whose file was edited excuses
  only the content it took up, and a clean exit need not be free of warnings.
- **NeverOrphaned**, **StopIsExclusive**, **StopReaps** of the Joern client, for any
  number of callers per client. The invariant adds that a `Start` in its critical
  section sees no managed process (`MutexHeld`), that what is managed or held
  belongs to its spawner (`Belongs`), and that a process whose watcher is not
  done is managed or held (`Watched`), which gives the absence of orphans.
- **CrashFlagIsHonest** under the extra hypothesis that no two callers share a
  client. With it a client has no managed process while its caller is stopping
  the previous one (`OneAtATime`), so a watcher that fires later than a spawn is
  impossible. Without the hypothesis TLC finds a counterexample (section 3).
- **RecordedIsComplete** (`RecordedBuildComplete`): the invariant adds what each
  stage has in hand (`InHand`) and that the version of a scan is new until it is
  recorded, its rows being exactly those drained so far (`FreshVersion`).
- **BackendsDoAgree** (`BackendsAgree`) and **ErrorsHaveCauses** (`ErrorHasCause`), for
  any mix of projects with and without ID, any number of them on one snapshot. The
  history `unsynced` is what makes them provable without a project of its own per
  snapshot: a save puts everybody who shares the file behind, a recorded ingestion
  brings back its own project only. The invariant (`SyncInv`) says that a cache row
  names the file the project is saved to (`OwnPath`), that the recorded ingestion of a
  project that is not behind is that of the snapshot, which is not torn (`Synced`), that
  a scan ingests the graph its snapshot holds (`Held`), and that what was ingested is what is
  served (`Served`).
- **BuiltGraph** (`BuiltGraphIsNew`): for any number of attempts and any faults of
  the server and the network. The property speaks of the end of a build only; the
  invariant carries it there. The server has never heard of a query that is still
  ahead in the script (`Fresh`), so the import in hand is the last in its queue
  and, once it is answered, the queue is empty and the graph is its own
  (`LastIn`); while the methods are counted nothing but the count is queued
  (`Counting`). Its step lemmas have one step per kind of step (`StepKinds`): a
  query returns, is accepted, is worked off, the server dies, or none of these.
- **FailuresHaveCauses** (`FailsForCause`): the only query that could fail without a cause
  of its own is one that is cut short by the crash flag, which is raised behind a
  death only (`FlagIsHonest`).
- **EverythingArrivesOnce** (`NothingLostOnSuccess`), **ClosedBehindLastSend**
  (`CloseAfterLastSend`). A worker that appends holds the mutex and has
  read the slice nobody has written since (`Slices`), so a slice holds what its
  finished workers found (`Ledger`); what a path owes it is about to send or has
  sent, never both (`Sending`); a finding is in the channel once or was received
  once (`Channel`); the loop ends with the channel empty and closed (`Ending`).
- **StageImplementsGather** (`ImplementsGather`): initial states map to initial states; under the
  invariant a receive is a delivery, a worker that comes up with findings extends
  what the promise owes, the end of the loop is `Gather`'s end, every other step a stutter. That the
  stage may succeed only with everything delivered is where the invariant is needed.
- **LabelsAreBacked** (`NeverOverstated`), **VerdictIgnoresOrder** (`OrderIrrelevant`),
  **SecondOpinionsHelp** (`CorroborationNeverLowers`), **ChangesReachTheRow**
  (`ChangedVerdictLands`), for any number of reports and scans. `MergeAll` and `Survivors` are
  recursive functions, as the loops of the code are. The argument is not about the
  loop but about what it comes to: `Absorbs(m, S)` says of a report m and a set of
  reports S, without any order, that m is a most confident one of S, but that its
  label is a pinned one if S has any and its path BOTH if S has two. Merging
  keeps that up (`MergeAbsorbs`), so by induction on its length a list is absorbed by what it
  merges to (`MergeAllAbsorbs`), and orders of the same reports merge to like reports.
- **SurfacesLieOnPaths** (`SurfacesOnPaths`), for any call graph, any imports and
  names and whatever rows a broken cursor leaves out. Most of it is about walks:
  `Within(graph, n, S)` is characterised step by step (`WithinSteps`), as a union
  over the methods of S (`WithinEach`), from its far end (`WithinFront`) and against
  the calls (`WithinReversed`). The invariant of a search (`Searching`) says that what
  is seen has its least distance (`Nearest`), that whom a method seen leads to is seen,
  unless the method still waits in the worklist (`Settled`), and that the worklist is in the
  order of the distances and spans two of them (`InOrder`). `Settled` alone gives
  that nothing is missed; that a distance is the least one needs the order, for it
  keeps a longer way from arriving first. With an empty worklist the search is `Complete`. The property counts
  steps up to the number of nodes and the search does not: each step up to the
  least distance adds a method (`LevelsFill`), so as many steps as nodes miss none.
  `TargetingIInv` adds the searches done so far (`SearchesDone`) and the
  list handed on (`SurfacesChosen`); that the sort keeps every surface is
  `SortedKeepsAll`.
- **FlowsGoToOneSurface** (`AttributionIsUnambiguous`), for any taint paths and any
  methods whose callers could not be had. The code walks from the method up to
  surfaces, the property asks from each surface down to the method: `WithinReversed`
  makes one of the other, and `WalkFindsNearest` shows that the rounds of the loop,
  early stop included, end at the nearest surfaces. In the invariant a claim is
  on a path the loop is past, one per path, and goes to the one nearest surface
  (`ClaimsSettled`), and from the cap on a sink has at most three claimants
  (`FanInCapped`); the cap takes claims away by sink, so a sink that passed keeps all of its.
- **DirectSinksSurvive** (`ConfirmedSinksKept`), for any number of workers, surfaces
  and callees: the label of the sink is both among the sinks of the surface and
  on its call path, so the filter takes the branch that keeps it (`OwnSinksStay`); the
  taint paths and the claims are complete before the first worker starts (`InTurn`).
- **NoToolNoDecision** (`UninvestigatedNeverDecides`), **TwoAnglesToBlock**
  (`BlockNeedsTwoAngles`), **ViolationsAreReportedOnce**
  (`EveryViolationReportedOnce`), **DroppedOnProof** (`SafeNeedsProof`). The invariant keeps
  the result of B3 tied to samples that explain it (`Contracted`), the review in progress to a
  surface B3 did not drop (`Phases`, `Matching`), and carries what each gate left of a
  verdict through the second opinion to the decision (`Gates`). The loop over the CWEs is
  taken by induction (`BestIsBest`): the best candidate is one of the list and none ranks
  above it. TwoAnglesToBlock has the
  hypothesis that confidences are at most 100: the prompt asks for that
  (`b5_analysis.md.tmpl` 180), no code checks it, and above 100 the deduction for an
  objection no longer leads below BLOCK.
- **ConfirmationOnlyRaises** (`OnlyConfirmationRaises`), **NothingLeftSilently**
  (`LeftoversAreLogged`). A finding is as it was scored until the loop comes to it
  and raised once at most (`RaisedOnce`), a row holds one of the two severities
  (`RowsAreCurrent`), the exit code tells of the findings (`ExitTells`), and
  behind the teardown of a sandbox that came up what is left is logged (`Booted`).

The invariants were also checked by TLC on the instances of the runs, but for
`TargetingIInv`, which speaks of walks of any length and cannot be evaluated. Each other
step lemma has one step per action; the temporal theorems combine them by PTL.

Induction over data. The library's induction theorems take an operator, which
the provers at hand cannot instantiate. `FindingsProofs` and `FunnelProofs` use
instead that the order on the natural numbers is well founded
(`NatLessThanWellFounded`, `WFMin`): a *set* of numbers that has 0 and with each
number its successor is all of them (`NatSetInduction`), and the set to apply it to is that of
the lengths for which the claim holds.

What the proofs changed. `NeverOverstated` had been stated without the exception for LOW, and
TLC had agreed: the one report of a verdict of not exploitable in the instance
was of 90 %. It is false for one of less than 30 %, which is in the instance now, as is such
a finding in that of `PoE`. `DedupAssumption` had to name what the producers of reports see to, which the list
of reports had implied. The loops of `Dedup` and `Contracts` became
recursive functions that follow the code turn by turn. `TargetingAssumption` had not
said that callees are numbers like methods, although the call graph may name nodes that are
no METHOD nodes; without that the order of the surfaces by ID means nothing. `BackendsAgree`
and `ErrorHasCause` had been proved for projects with IDs only; `unsynced`, which had been
about the saving project, now covers whoever shares the file, and the two need no ID. The surfaces had been
sorted by a library operator whose result is any permutation that fits, out of a set of all
of them; `Sorted` names the one there is. A surface's paths were a sequence on which
nothing depended but their number and what each adds; they are a set.

Only model-checked: the liveness properties (`StopTerminates`,
`ForeignServerNoticed`, `KilledServerNoticed`, `StageEnds`, `ReasoningEnds`, `AttributionEnds`,
`ScriptEnds`) and with them anything about fairness, which is out of the
prover's reach. `CompletedScanCoversWalk`, `EligibleAreVerified` and
`OwnGraph`, the properties of the three runs that expect a violation, are false of the code.

## 5. Not modelled, and the plan

Not modelled, and why:

- Tables of patterns (taint taxonomy, crypto rules, boundaries, signals),
  prompts, parsers of scanner output, rendering and the benchmark: data and I/O
  without a protocol. Where a decision depends on them, it is a constant or a
  free choice of the model.
- LLM providers and their retries: sequential clients whose outcome, an answer
  or an error, is chosen freely by the modules that call them.
- Model integrity verification and `expand.go`: the pipeline never calls them
  with anything to do.
- The cache of the CISA KEV catalogue: filled from the one loop of the dedup
  layer, so its unlocked fetch has no rival within a process; `Dedup` takes its
  answer as a free choice per scan.
- The scan-scoped caches of single nodes and edges in `graph_impl.go`: the
  queries by which one could read what another has stored in part (line 401)
  have no caller in a scan.

No safety property of a passing run is open for the proofs. What would come next is the model:
the taint taxonomy with `graph_impl.go`'s flow queries behind `Flows`, and the
retry budget of `pkg/llm`, over which `Funnel` chooses freely today.
