------------------------------ MODULE CPGCache ------------------------------
(***************************************************************************)
(* How a scan obtains its code property graph: Pipeline.buildOrLoadCPG     *)
(* with its snapshot files under ~/.zerotrust, the tables cpg_cache,       *)
(* cpg_builds, cpg_nodes and cpg_edges, and the graph that Joern holds in  *)
(* memory.  Scans of several projects on one machine follow each other;    *)
(* every scan has a client and a JVM of its own, and any of its calls may  *)
(* fail, or the scan may die between any two of them.                      *)
(*                                                                         *)
(* A graph is abstracted to its project and the contents of the files it   *)
(* was imported from.  One method stands for the methods of a file.        *)
(***************************************************************************)
EXTENDS Naturals

CONSTANTS
  Projects,       \* projects scanned on the machine, by derived project ID
  Files,          \* file names, relative to the root of a project
  Contents,       \* contents of a file
  None,           \* no content, no graph, no row
  Torn,           \* a snapshot file that was copied in part
  Default,        \* the base name of the snapshot without a project ID
  WithID,         \* projects scanned with --project-id; for others Config.ProjectID is empty
  Faults,         \* what may fail: "db", "joern", "crash"
  MaxScans,       \* bound on the scans
  MaxEdits        \* bound on the edits of working trees

Slots == Projects \cup {Default}
Trees == [Files -> Contents \cup {None}]
Empty == [f \in Files |-> None]
Graphs == [owner : Projects, code : Trees]
Versions == 1 .. MaxScans
Kinds == {"methods", "calls", "edges"}
Rows == [project : Projects, version : Versions, kind : Kinds, graph : Graphs]

ASSUME CacheAssumption ==
  /\ None \notin Contents \cup Graphs \cup Slots \cup Versions
  /\ Torn \notin Graphs \cup {None}
  /\ Default \notin Projects
  /\ WithID \subseteq Projects
  /\ Faults \subseteq {"db", "joern", "crash"}
  /\ MaxScans \in Nat
  /\ MaxEdits \in Nat

VARIABLES
  tree,     \* per project, its working tree
  hashes,   \* scan_state: the contents the last walk recorded
  snapshot, \* files <slot>.cpg
  cacheRow, \* cpg_cache: cpg_path of the project (changed_functions is always 0)
  builds,   \* cpg_builds: cpg_version of the project
  rows,     \* cpg_nodes and cpg_edges
  pc,       \* where the scan stands, "idle" between scans
  proj,     \* the project of the scan
  changed,  \* ChangeSet.Changed; empty: the target directory is the scope
  loaded,   \* the active graph of the scan's JVM
  backend,  \* pgCPGVersion of the client, None without a DB backend
  outcome,  \* how buildOrLoadCPG came by the graph, or "error"
  trouble,  \* history: what went wrong in this scan
  unsynced, \* history: projects whose snapshot was saved to behind their last recorded ingest
  scans,    \* scans started; stands for the Unix second of an ingest
  edits     \* edits made

diskVars == <<tree, hashes, snapshot>>
dbVars   == <<cacheRow, builds, rows>>
scanVars == <<proj, changed, loaded, backend, outcome, trouble>>
vars     == <<diskVars, dbVars, pc, scanVars, unsynced, scans, edits>>

TypeOK ==
  /\ tree \in [Projects -> Trees]
  /\ hashes \in [Projects -> Trees]
  /\ snapshot \in [Slots -> Graphs \cup {None, Torn}]
  /\ cacheRow \in [Projects -> Slots \cup {None}]
  /\ builds \in [Projects -> Versions \cup {None}]
  /\ rows \subseteq Rows
  /\ pc \in {"idle", "gate", "ensure", "snapshot", "locate", "patch", "build",
             "save", "record", "row", "scan"} \cup Kinds
  /\ proj \in Projects
  /\ changed \subseteq Files
  /\ loaded \in Graphs \cup {None}
  /\ backend \in Versions \cup {None}
  /\ outcome \in {"none", "hit", "patched", "built", "error"}
  /\ trouble \subseteq {"db", "joern", "large", "empty", "torn"}
  /\ unsynced \subseteq Projects
  /\ scans \in 0 .. MaxScans
  /\ edits \in 0 .. MaxEdits

Init ==
  /\ tree \in [Projects -> Trees \ {Empty}]
  /\ hashes = [p \in Projects |-> Empty]
  /\ snapshot = [s \in Slots |-> None]
  /\ cacheRow = [p \in Projects |-> None]
  /\ builds = [p \in Projects |-> None]
  /\ rows = {}
  /\ pc = "idle"
  /\ proj \in Projects
  /\ changed = {}
  /\ loaded = None
  /\ backend = None
  /\ outcome = "none"
  /\ trouble = {}
  /\ unsynced = {}
  /\ scans = 0
  /\ edits = 0

-----------------------------------------------------------------------------
(* Helpers.                                                                *)

\* cpgSnapshotPath, as runIngestion calls it: with Config.ProjectID.
SnapshotPath(p) == IF p \in WithID THEN p ELSE Default

\* The projects with the same snapshot file: all that are scanned without an ID.
Sharing(p) == {q \in Projects : SnapshotPath(q) = SnapshotPath(p)}

\* GetCPGCache of the project.
CachedPath(p) == cacheRow[p]

\* Mutant: importCpg takes what a torn file holds for a graph.
LoadableUnchecked(s) == snapshot[s] # None

\* A snapshot that importCpg can open.
Loadable(s) == snapshot[s] \notin {None, Torn}

\* Files of the walk with another hash than last time.
Changed(p) == {f \in Files : tree[p][f] \notin {None, hashes[p][f]}}

\* The files with methods in a graph.
WithMethods(g) == {f \in Files : g.code[f] # None}

\* METHOD nodes are found by file and named by node ID ...
NodeID(f) == <<"id", f>>
\* ... but patched by full name.
FullName(f) == <<"name", f>>

\* importCode.incrementally for each file with a method of one of the names.
Patched(g, names) ==
  [g EXCEPT !.code = [f \in Files |->
     IF f \in WithMethods(g) /\ FullName(f) \in names THEN tree[g.owner][f]
     ELSE g.code[f]]]

\* What the tables hold of a version.
RowsOf(p, v) == {r \in rows : r.project = p /\ r.version = v}

\* Another call of the scan failed.
Fails(kind) == kind \in Faults /\ trouble' = trouble \cup {kind}

Goto(l) == pc' = l

\* The process, with its client and its JVM, is gone.
Gone ==
  /\ Goto("idle")
  /\ changed' = {}
  /\ loaded' = None
  /\ backend' = None
  /\ outcome' = "none"
  /\ trouble' = {}

\* buildOrLoadCPG returns.
Return(how) == Goto("scan") /\ outcome' = how

-----------------------------------------------------------------------------
(* buildOrLoadCPG.                                                         *)

\* The walk of the ingestion stage records its hashes; Joern is fresh.
StartScan(p) ==
  /\ pc = "idle"
  /\ scans < MaxScans
  /\ proj' = p
  /\ changed' = Changed(p)
  /\ hashes' = [hashes EXCEPT ![p] =
                  [f \in Files |-> IF tree[p][f] = None THEN @[f] ELSE tree[p][f]]]
  /\ scans' = scans + 1
  /\ Goto("gate")
  /\ UNCHANGED <<tree, snapshot, dbVars, loaded, backend, outcome, trouble, unsynced, edits>>

\* The cache gate opens: the row's file is there and can be loaded.
GateHit ==
  /\ pc = "gate"
  /\ CachedPath(proj) # None
  /\ Loadable(CachedPath(proj))
  /\ loaded' = snapshot[CachedPath(proj)]
  /\ outcome' = "hit"
  /\ Goto("ensure")
  /\ UNCHANGED <<diskVars, dbVars, proj, changed, backend, trouble, unsynced, scans, edits>>

\* No row, no file, or one of the calls fails: on to the snapshot.
GateMiss ==
  /\ pc = "gate"
  /\ \/ Fails("db")
     \/ CachedPath(proj) = None /\ UNCHANGED trouble
     \/ /\ CachedPath(proj) # None
        /\ \/ ~Loadable(CachedPath(proj)) /\ UNCHANGED trouble
           \/ Fails("joern")
  /\ Goto("snapshot")
  /\ UNCHANGED <<diskVars, dbVars, proj, changed, loaded, backend, outcome, unsynced, scans, edits>>

\* ensureDBBackend: a recorded version is trusted, otherwise one is ingested.
EnsureDBBackend ==
  /\ pc = "ensure"
  /\ \/ /\ builds[proj] # None
        /\ backend' = builds[proj]
        /\ Return("hit")
        /\ UNCHANGED trouble
     \/ /\ \/ builds[proj] = None /\ UNCHANGED trouble
           \/ Fails("db")
        /\ Goto("methods")
        /\ UNCHANGED <<backend, outcome>>
  /\ UNCHANGED <<diskVars, dbVars, proj, changed, loaded, unsynced, scans, edits>>

\* Loads the prior snapshot, or builds if there is none.  A snapshot that does
\* not load ends in an error.
LoadSnapshot ==
  /\ pc = "snapshot"
  /\ LET s == SnapshotPath(proj) IN
     \/ /\ snapshot[s] = None
        /\ Goto("build")
        /\ UNCHANGED <<loaded, outcome, trouble>>
     \/ /\ Loadable(s)
        /\ loaded' = snapshot[s]
        /\ Goto("locate")
        /\ UNCHANGED <<outcome, trouble>>
     \/ /\ snapshot[s] # None
        /\ \/ ~Loadable(s) /\ trouble' = trouble \cup {"torn"}
           \/ Fails("joern")
        /\ Return("error")
        /\ UNCHANGED loaded
  /\ UNCHANGED <<diskVars, dbVars, proj, changed, backend, unsynced, scans, edits>>

\* Mutant: a method that cannot be looked up ends the build with an error.
LocateOrFail ==
  /\ pc = "locate"
  /\ \/ /\ changed # {} /\ changed \subseteq WithMethods(loaded)
        /\ Goto("patch")
        /\ UNCHANGED <<outcome, trouble>>
     \/ changed \ WithMethods(loaded) # {} /\ Return("error") /\ UNCHANGED trouble
     \/ changed = {} /\ Goto("build") /\ UNCHANGED <<outcome, trouble>>
     \/ Fails("joern") /\ Return("error")
  /\ UNCHANGED <<diskVars, dbVars, proj, changed, loaded, backend, unsynced, scans, edits>>

\* Looks up the methods of the changed files; a new file, and the target
\* directory, have none: full build.
Locate ==
  /\ pc = "locate"
  /\ \/ changed # {} /\ changed \subseteq WithMethods(loaded) /\ Goto("patch") /\ UNCHANGED trouble
     \/ changed \ WithMethods(loaded) # {} /\ Goto("build") /\ UNCHANGED trouble
     \/ changed = {} /\ Goto("build") /\ UNCHANGED trouble
     \/ Fails("joern") /\ Goto("build")
  /\ UNCHANGED <<diskVars, dbVars, proj, changed, loaded, backend, outcome, unsynced, scans, edits>>

\* IncrementalPatch by the node IDs of the methods.  A hub or a failing query
\* falls back to a full build.
Patch ==
  /\ pc = "patch"
  /\ \/ /\ loaded' = Patched(loaded, {NodeID(f) : f \in changed})
        /\ outcome' = "patched"
        /\ Goto("row")
        /\ UNCHANGED trouble
     \/ /\ Goto("build")
        /\ UNCHANGED <<loaded, outcome, trouble>>
     \/ /\ Fails("joern")
        /\ Goto("build")
        /\ UNCHANGED <<loaded, outcome>>
  /\ UNCHANGED <<diskVars, dbVars, proj, changed, backend, unsynced, scans, edits>>

-----------------------------------------------------------------------------
(* buildFullCPG.                                                           *)

\* BuildCPG imports the whole project.  The directory counts no lines, so it is
\* never too large.
Build ==
  /\ pc = "build"
  /\ \/ /\ tree[proj] # Empty
        /\ loaded' = [owner |-> proj, code |-> tree[proj]]
        /\ Goto("save")
        /\ UNCHANGED <<outcome, trouble>>
     \/ /\ tree[proj] = Empty
        /\ trouble' = trouble \cup {"empty"}
        /\ loaded' = None
        /\ Return("error")
     \/ /\ changed # {}
        /\ trouble' = trouble \cup {"large"}
        /\ Return("error")
        /\ UNCHANGED loaded
     \/ /\ Fails("joern")
        /\ loaded' \in {loaded, None}
        /\ Return("error")
  /\ UNCHANGED <<diskVars, dbVars, proj, changed, backend, unsynced, scans, edits>>

\* SaveCPG copies the graph over the snapshot.  A failing copy may leave
\* the old file, a part of the new one, or all of it, and fails the build.
Save ==
  /\ pc = "save"
  /\ LET s == SnapshotPath(proj) IN
     \/ /\ snapshot' = [snapshot EXCEPT ![s] = loaded]
        /\ unsynced' = unsynced \cup Sharing(proj)
        /\ outcome' = "built"
        /\ Goto("methods")
        /\ UNCHANGED trouble
     \/ /\ Fails("joern")
        /\ \E x \in {snapshot[s], Torn, loaded} : snapshot' = [snapshot EXCEPT ![s] = x]
        /\ unsynced' = unsynced \cup Sharing(proj)
        /\ Return("error")
  /\ UNCHANGED <<tree, hashes, dbVars, proj, changed, loaded, backend, scans, edits>>

\* Mutant: the build is recorded once the nodes are in.
AfterKindEarly == [methods |-> "calls", calls |-> "record", edges |-> "row"]

\* IngestCPGToDB drains methods, calls and edges, then records the build.
AfterKind == [methods |-> "calls", calls |-> "edges", edges |-> "record"]

\* Where the caller of IngestCPGToDB goes on: buildFullCPG writes cpg_cache,
\* ensureDBBackend returns.
AfterIngest == IF outcome = "built" THEN "row" ELSE "scan"

\* The batches of one kind of rows.
Ingest(kind) ==
  /\ pc = kind
  /\ \/ /\ rows' = rows \cup {[project |-> proj, version |-> scans, kind |-> kind, graph |-> loaded]}
        /\ Goto(AfterKind[kind])
        /\ UNCHANGED trouble
     \/ /\ Fails("db") \/ Fails("joern")
        /\ Goto(AfterIngest)
        /\ UNCHANGED rows
  /\ UNCHANGED <<diskVars, cacheRow, builds, proj, changed, loaded, backend, outcome, unsynced, scans, edits>>

\* Mutant: the backend is switched on although the build was not recorded.
RecordBuildUnchecked ==
  /\ pc = "record"
  /\ \/ /\ builds' = [builds EXCEPT ![proj] = scans]
        /\ unsynced' = unsynced \ {proj}
        /\ backend' = scans
        /\ UNCHANGED trouble
     \/ /\ Fails("db")
        /\ backend' = builds[proj]
        /\ UNCHANGED <<builds, unsynced>>
  /\ Goto(AfterIngest)
  /\ UNCHANGED <<diskVars, cacheRow, rows, proj, changed, loaded, outcome, scans, edits>>

\* RecordBuild; SetDBBackend once all of it went well.
RecordBuild ==
  /\ pc = "record"
  /\ \/ /\ builds' = [builds EXCEPT ![proj] = scans]
        /\ unsynced' = unsynced \ {proj}
        /\ backend' = scans
        /\ UNCHANGED trouble
     \/ /\ Fails("db")
        /\ UNCHANGED <<builds, unsynced, backend>>
  /\ Goto(AfterIngest)
  /\ UNCHANGED <<diskVars, cacheRow, rows, proj, changed, loaded, outcome, scans, edits>>

\* UpsertCPGCache; a failure is a warning.
UpsertCPGCache ==
  /\ pc = "row"
  /\ \/ cacheRow' = [cacheRow EXCEPT ![proj] = SnapshotPath(proj)] /\ UNCHANGED trouble
     \/ Fails("db") /\ UNCHANGED cacheRow
  /\ Goto("scan")
  /\ UNCHANGED <<diskVars, builds, rows, proj, changed, loaded, backend, outcome, unsynced, scans, edits>>

\* The later stages are over; unless one of them failed, CommitScan has evicted
\* the files that are gone.
EndScan ==
  /\ pc = "scan"
  /\ \/ hashes' = [hashes EXCEPT ![proj] =
                     [f \in Files |-> IF tree[proj][f] = None THEN None ELSE @[f]]]
     \/ UNCHANGED hashes
  /\ Gone
  /\ UNCHANGED <<tree, snapshot, dbVars, proj, unsynced, scans, edits>>

-----------------------------------------------------------------------------
(* The environment.                                                        *)

\* The process and its JVM die; a copy under way may be torn.
Crash ==
  /\ "crash" \in Faults
  /\ pc # "idle"
  /\ Gone
  /\ \/ UNCHANGED <<snapshot, unsynced>>
     \/ /\ pc = "save"
        /\ snapshot' = [snapshot EXCEPT ![SnapshotPath(proj)] = Torn]
        /\ unsynced' = unsynced \cup Sharing(proj)
  /\ UNCHANGED <<tree, hashes, dbVars, proj, scans, edits>>

\* A file changes, appears or goes between scans.
Edit(p, f) ==
  /\ pc = "idle"
  /\ edits < MaxEdits
  /\ \E c \in (Contents \cup {None}) \ {tree[p][f]} :
       tree' = [tree EXCEPT ![p][f] = c]
  /\ edits' = edits + 1
  /\ UNCHANGED <<hashes, snapshot, dbVars, pc, scanVars, unsynced, scans>>

Next ==
  \/ \E p \in Projects : StartScan(p)
  \/ GateHit \/ GateMiss \/ EnsureDBBackend
  \/ LoadSnapshot \/ Locate \/ Patch
  \/ Build \/ Save
  \/ \E kind \in Kinds : Ingest(kind)
  \/ RecordBuild \/ UpsertCPGCache \/ EndScan
  \/ Crash
  \/ \E p \in Projects, f \in Files : Edit(p, f)

Spec == Init /\ [][Next]_vars

-----------------------------------------------------------------------------
(* Properties.                                                             *)

\* The rows of some kinds of a graph.
Ingested(p, v, K, g) ==
  {[project |-> p, version |-> v, kind |-> k, graph |-> g] : k \in K}

\* What the comment of cpgSnapshotPath asks for (cpg_incremental.go:424-435):
\* whatever a scan queries, Joern or the tables, is a graph of its own project, also
\* behind an error, which does not keep the later stages from querying
\* (pipeline.go:447-450).
\* It is not: pipeline.go:441 passes the ID the comment warns of.
OwnGraph ==
  pc = "scan" =>
    /\ loaded # None => loaded.owner = proj
    /\ backend # None => \A r \in RowsOf(proj, backend) : r.graph.owner = proj

\* A version that cpg_builds names is complete and of one graph, however an
\* ingestion ended: half an ingest is never trusted by ensureDBBackend.
RecordedBuildComplete ==
  \A p \in Projects : builds[p] # None =>
    \E g \in Graphs : RowsOf(p, builds[p]) = Ingested(p, builds[p], Kinds, g)

\* While the tables serve call graphs and Joern serves taint paths, both answer
\* for the same graph, be it one of another project.  Only a cache hit may
\* disagree, if its snapshot was saved to, by whoever shares it, behind the last
\* ingestion the project recorded (ensureDBBackend checks for a version, not for
\* its age, cpg_incremental.go:288-296).
BackendsAgree ==
  pc = "scan" /\ backend # None /\ (outcome = "hit" => proj \notin unsynced) =>
    RowsOf(proj, backend) = Ingested(proj, backend, Kinds, loaded)

\* A scan goes without taint analysis only if one of its calls failed, its scope
\* was too large, its project is empty, or the snapshot was saved to behind the
\* last ingestion the project recorded: a project that nobody shares the snapshot
\* with, or whose sharers did not save since, is not disturbed by other scans.
ErrorHasCause ==
  pc = "scan" /\ outcome = "error" =>
    trouble \ {"torn"} # {} \/ proj \in unsynced

\* What the comment on the cache gate says (cpg_incremental.go:135-137): the graph
\* of a hit is up to date, so it has the changed files by their current contents.
HitIsCurrent ==
  pc = "scan" /\ outcome = "hit" =>
    \A f \in changed : loaded.code[f] = tree[proj][f]

-----------------------------------------------------------------------------
(* The inductive invariant.                                                *)

Early == {"gate", "ensure", "snapshot", "locate", "patch", "build", "save"}
Draining == Kinds \cup {"record"}

\* The kinds that are in when the drain reaches a stage.
Drained == [methods |-> {}, calls |-> {"methods"},
            edges |-> {"methods", "calls"}, record |-> Kinds]

\* What the stages of a scan have in hand.
InHand ==
  /\ pc = "idle" => loaded = None /\ backend = None
  /\ pc # "idle" => scans \in Versions
  /\ pc \in {"ensure", "locate", "patch", "save"} \cup Draining => loaded \in Graphs
  /\ pc \in Early \cup Draining => backend = None
  /\ pc = "ensure" => outcome = "hit"
  /\ pc \in Draining => outcome \in {"hit", "built"}
  /\ pc = "row" => outcome \in {"patched", "built"}
  /\ pc \in {"row", "scan"} /\ backend # None => outcome \in {"hit", "built"}

\* The version of a scan is new until the scan records it, and its rows are
\* those that were drained so far.
FreshVersion ==
  /\ \A r \in rows : r.version <= scans
  /\ \A p \in Projects : builds[p] # None => builds[p] <= scans
  /\ pc \in Early \cup Draining => builds[proj] # scans
  /\ pc \in Early => RowsOf(proj, scans) = {}
  /\ pc \in Draining => RowsOf(proj, scans) = Ingested(proj, scans, Drained[pc], loaded)

\* A row of cpg_cache names the file the project is saved to.
OwnPath == \A p \in Projects : cacheRow[p] \in {SnapshotPath(p), None}

\* The recorded ingestion of a project is that of its snapshot, unless that was
\* saved to since.
Synced ==
  \A p \in Projects \ unsynced :
    /\ snapshot[SnapshotPath(p)] # Torn
    /\ builds[p] # None =>
         RowsOf(p, builds[p]) = Ingested(p, builds[p], Kinds, snapshot[SnapshotPath(p)])

\* A scan ingests what it loaded from the snapshot or saved to it, and serves
\* what was ingested.
Held == pc \in {"ensure"} \cup Draining => loaded = snapshot[SnapshotPath(proj)]

Served ==
  pc \in {"row", "scan"} /\ backend # None /\ (outcome = "hit" => proj \notin unsynced) =>
    RowsOf(proj, backend) = Ingested(proj, backend, Kinds, loaded)

IInv == TypeOK /\ InHand /\ FreshVersion /\ RecordedBuildComplete

SyncInv == OwnPath /\ Synced /\ Held /\ Served /\ ErrorHasCause

=============================================================================
