--------------------------- MODULE CPGCacheProofs ---------------------------
(***************************************************************************)
(* Proofs about CPGCache, for any number of projects, with an ID or without *)
(* one and so on a common snapshot, any files, scans and edits and any      *)
(* faults: types, that a recorded ingestion is complete, that both backends *)
(* agree, and that a scan without a graph has a cause.                      *)
(***************************************************************************)
EXTENDS CPGCache, TLAPS

(* What an incremental patch leaves is a graph of the same project.         *)
LEMMA PatchedType ==
  ASSUME tree \in [Projects -> Trees], NEW g \in Graphs, NEW N
  PROVE  Patched(g, N) \in Graphs /\ Patched(g, N).owner = g.owner
<1> DEFINE c == [f \in Files |-> IF f \in WithMethods(g) /\ FullName(f) \in N
                                 THEN tree[g.owner][f] ELSE g.code[f]]
<1>1. g.owner \in Projects /\ g.code \in Trees /\ tree[g.owner] \in Trees
  BY DEF Graphs
<1>2. c \in Trees
  BY <1>1 DEF Trees
<1>3. Patched(g, N) = [owner |-> g.owner, code |-> c]
  BY <1>1 DEF Patched, Graphs
<1> QED
  BY <1>1, <1>2, <1>3 DEF Graphs

(* Node IDs are no full names, so a patch leaves the graph as it is.        *)
LEMMA PatchChangesNothing ==
  ASSUME NEW g \in Graphs, NEW F \in SUBSET Files
  PROVE  Patched(g, {NodeID(f) : f \in F}) = g
<1>1. \A f \in Files : FullName(f) \notin {NodeID(h) : h \in F}
  <2> SUFFICES ASSUME NEW f \in Files, NEW h \in F, FullName(f) = NodeID(h) PROVE FALSE
    OBVIOUS
  <2>1. FullName(f)[1] = "name" /\ NodeID(h)[1] = "id"
    BY DEF FullName, NodeID
  <2> QED
    BY <2>1
<1>2. [f \in Files |-> g.code[f]] = g.code
  BY DEF Graphs, Trees
<1> QED
  BY <1>1, <1>2 DEF Patched, Graphs

(* No scan was started yet.                                                 *)
LEMMA InitInvariant == Init => IInv /\ SyncInv
<1> SUFFICES ASSUME Init PROVE IInv /\ SyncInv
  OBVIOUS
<1> USE CacheAssumption DEF Init
<1>1. Empty \in Trees
  BY DEF Empty, Trees
<1>2. TypeOK
  BY <1>1 DEF TypeOK, Kinds
<1>3. InHand /\ FreshVersion /\ RecordedBuildComplete
  BY DEF InHand, FreshVersion, RecordedBuildComplete, Early, Draining, Kinds
<1>4. \A p \in Projects : SnapshotPath(p) \in Slots
  BY DEF SnapshotPath, Slots
<1>5. SyncInv
  BY <1>4 DEF SyncInv, OwnPath, Synced, Held, Served, ErrorHasCause, Draining, Kinds
<1> QED
  BY <1>2, <1>3, <1>5 DEF IInv

(* A step keeps the types and what a stage has in hand.                     *)
LEMMA TypeStep == IInv /\ [Next]_vars => TypeOK' /\ InHand'
<1> SUFFICES ASSUME IInv, [Next]_vars PROVE TypeOK' /\ InHand'
  OBVIOUS
<1> USE CacheAssumption DEF IInv, TypeOK, InHand, diskVars, dbVars, scanVars, Goto, Return, Fails,
                            Draining, Early, Kinds, Gone
<1>1. ASSUME NEW p \in Projects, StartScan(p) PROVE TypeOK' /\ InHand'
  <2>1. tree[p] \in Trees /\ hashes[p] \in Trees
    OBVIOUS
  <2>2. hashes' \in [Projects -> Trees]
    BY <1>1, <2>1 DEF StartScan, Trees
  <2>3. Changed(p) \subseteq Files /\ scans + 1 \in Versions
    BY <1>1 DEF StartScan, Changed, Versions
  <2> QED
    <3>1. changed' \subseteq Files /\ scans' \in 0 .. MaxScans /\ scans' \in Versions
      BY <1>1, <2>3 DEF StartScan, Versions
    <3>2. /\ pc = "idle" /\ pc' = "gate" /\ proj' = p
          /\ UNCHANGED <<tree, snapshot, dbVars, loaded, backend, outcome, trouble,
                         unsynced, edits>>
      BY <1>1 DEF StartScan
    <3>3. TypeOK'
      BY <2>2, <3>1, <3>2
    <3>4. InHand'
      <4>1. backend' = None
        BY <3>2
      <4> QED
        BY <3>1, <3>2, <4>1
    <3> QED
      BY <3>3, <3>4
<1>2. CASE GateHit \/ GateMiss
  <2>1. /\ pc = "gate" /\ pc' \in {"ensure", "snapshot"}
        /\ trouble' \subseteq {"db", "joern", "large", "empty", "torn"}
        /\ UNCHANGED <<diskVars, dbVars, proj, changed, backend, unsynced, scans, edits>>
    BY <1>2 DEF GateHit, GateMiss
  <2>2. /\ outcome' \in {outcome, "hit"} /\ (pc' = "ensure" => outcome' = "hit")
        /\ loaded' \in Graphs \cup {None} /\ (pc' = "ensure" => loaded' \in Graphs)
    BY <1>2 DEF GateHit, GateMiss, Loadable, CachedPath
  <2> QED
    BY <2>1, <2>2
<1>3. CASE EnsureDBBackend
  BY <1>3 DEF EnsureDBBackend
<1>4. CASE LoadSnapshot
  <2>1. SnapshotPath(proj) \in Slots
    BY DEF SnapshotPath, Slots
  <2> QED
    BY <1>4, <2>1 DEF LoadSnapshot, Loadable
<1>5. CASE Locate
  BY <1>5 DEF Locate
<1>6. CASE Patch
  <2>1. loaded \in Graphs
    BY <1>6 DEF Patch
  <2>2. Patched(loaded, {NodeID(f) : f \in changed}) \in Graphs
    BY <2>1, PatchedType
  <2> QED
    BY <1>6, <2>1, <2>2 DEF Patch
<1>7. CASE Build
  <2>1. [owner |-> proj, code |-> tree[proj]] \in Graphs
    BY DEF Graphs
  <2> QED
    BY <1>7, <2>1 DEF Build
<1>8. CASE Save
  <2>1. loaded \in Graphs /\ SnapshotPath(proj) \in Slots
    BY <1>8 DEF Save, SnapshotPath, Slots
  <2>2. snapshot' \in [Slots -> Graphs \cup {None, Torn}]
    BY <1>8, <2>1 DEF Save
  <2>3. unsynced' \subseteq Projects
    BY <1>8 DEF Save, Sharing
  <2> QED
    BY <1>8, <2>1, <2>2, <2>3 DEF Save
<1>9. ASSUME NEW kind \in Kinds, Ingest(kind) PROVE TypeOK' /\ InHand'
  <2>1. loaded \in Graphs /\ outcome \in {"hit", "built"} /\ scans \in Versions
    BY <1>9 DEF Ingest
  <2>2. rows' \subseteq Rows
    BY <1>9, <2>1 DEF Ingest, Rows
  <2>3. pc' \in {"calls", "edges", "record", "row", "scan"} /\ (pc' = "row" => outcome = "built")
    BY <1>9 DEF Ingest, AfterKind, AfterIngest
  <2> QED
    BY <1>9, <2>1, <2>2, <2>3 DEF Ingest
<1>10. CASE RecordBuild
  <2>1. /\ scans \in Versions /\ outcome \in {"hit", "built"}
        /\ pc' \in {"row", "scan"} /\ (pc' = "row" => outcome = "built")
    BY <1>10 DEF RecordBuild, AfterIngest
  <2>2. builds' \in [Projects -> Versions \cup {None}]
    BY <1>10, <2>1 DEF RecordBuild
  <2>3. backend' \in Versions \cup {None} /\ unsynced' \subseteq Projects
    BY <1>10, <2>1 DEF RecordBuild
  <2>4. trouble' \subseteq {"db", "joern", "large", "empty", "torn"}
    BY <1>10 DEF RecordBuild
  <2> QED
    BY <1>10, <2>1, <2>2, <2>3, <2>4 DEF RecordBuild
<1>11. CASE UpsertCPGCache
  <2>1. SnapshotPath(proj) \in Slots
    BY DEF SnapshotPath, Slots
  <2>2. cacheRow' \in [Projects -> Slots \cup {None}]
    BY <1>11, <2>1 DEF UpsertCPGCache
  <2>3. trouble' \subseteq {"db", "joern", "large", "empty", "torn"}
    BY <1>11 DEF UpsertCPGCache
  <2>4. /\ pc = "row" /\ pc' = "scan"
        /\ UNCHANGED <<diskVars, builds, rows, proj, changed, loaded, backend, outcome,
                       unsynced, scans, edits>>
    BY <1>11 DEF UpsertCPGCache
  <2> QED
    BY <2>2, <2>3, <2>4
<1>12. CASE EndScan
  <2>1. tree[proj] \in Trees /\ hashes[proj] \in Trees
    OBVIOUS
  <2>2. hashes' \in [Projects -> Trees]
    BY <1>12, <2>1 DEF EndScan, Trees
  <2> QED
    BY <1>12, <2>2 DEF EndScan
<1>13. CASE Crash
  <2>1. snapshot' \in [Slots -> Graphs \cup {None, Torn}] /\ unsynced' \subseteq Projects
    BY <1>13 DEF Crash, Sharing
  <2> QED
    BY <1>13, <2>1 DEF Crash
<1>14. ASSUME NEW p \in Projects, NEW f \in Files, Edit(p, f) PROVE TypeOK' /\ InHand'
  BY <1>14 DEF Edit, Trees
<1>15. CASE UNCHANGED vars
  BY <1>15 DEF vars
<1> QED
  BY <1>1, <1>2, <1>3, <1>4, <1>5, <1>6, <1>7, <1>8, <1>9, <1>10, <1>11, <1>12, <1>13, <1>14, <1>15
  DEF Next

(* Only Ingest adds rows, for the version of the scan; only RecordBuild     *)
(* names a version.                                                         *)
LEMMA TableSteps ==
  ASSUME [Next]_vars
  PROVE  \/ \E p \in Projects : StartScan(p)
         \/ \E kind \in Kinds : Ingest(kind)
         \/ RecordBuild
         \/ UNCHANGED <<rows, builds, scans>>
BY DEF Next, vars, diskVars, dbVars, scanVars, GateHit, GateMiss, EnsureDBBackend, LoadSnapshot,
       Locate, Patch, Build, Save, UpsertCPGCache, EndScan, Crash, Edit

(* The version of a scan stays fresh until it is recorded.                  *)
LEMMA FreshStep == IInv /\ [Next]_vars => FreshVersion'
<1> SUFFICES ASSUME IInv, [Next]_vars PROVE FreshVersion'
  OBVIOUS
<1> USE CacheAssumption DEF IInv, TypeOK, InHand, FreshVersion, Goto, Return, Early, Draining, Kinds
<1>1. ASSUME NEW p \in Projects, StartScan(p) PROVE FreshVersion'
  BY <1>1 DEF StartScan, dbVars, RowsOf, Rows, Versions
<1>2. CASE GateHit \/ GateMiss \/ LoadSnapshot \/ Locate \/ Patch \/ Build
  <2>1. pc' \in Early \cup {"row", "scan"} /\ pc \in Early /\ UNCHANGED <<rows, builds, scans, proj>>
    BY <1>2 DEF GateHit, GateMiss, LoadSnapshot, Locate, Patch, Build, dbVars
  <2> QED
    BY <2>1 DEF RowsOf
<1>3. CASE EnsureDBBackend \/ Save
  <2>1. pc' \in {"methods", "scan"} /\ pc \in Early /\ UNCHANGED <<rows, builds, scans, proj>>
    BY <1>3 DEF EnsureDBBackend, Save, dbVars
  <2>2. RowsOf(proj, scans)' = {}
    BY <2>1 DEF RowsOf
  <2>3. Ingested(proj, scans, Drained["methods"], loaded)' = {}
    BY DEF Ingested, Drained
  <2> QED
    BY <2>1, <2>2, <2>3
<1>4. ASSUME NEW kind \in Kinds, Ingest(kind) PROVE FreshVersion'
  <2> DEFINE r == [project |-> proj, version |-> scans, kind |-> kind, graph |-> loaded]
  <2>1. CASE rows' = rows /\ pc' = AfterIngest
    BY <1>4, <2>1 DEF Ingest, AfterIngest, RowsOf
  <2>2. CASE rows' = rows \cup {r} /\ pc' = AfterKind[kind]
    <3>1. /\ rows' = rows \cup {r} /\ pc' = AfterKind[kind] /\ pc = kind
          /\ UNCHANGED <<builds, scans, proj, loaded>>
      BY <1>4, <2>2 DEF Ingest
    <3>2. RowsOf(proj, scans)' = RowsOf(proj, scans) \cup {r}
      BY <3>1 DEF RowsOf
    <3>3. Ingested(proj, scans, Drained[kind], loaded) \cup {r}
          = Ingested(proj, scans, Drained[AfterKind[kind]], loaded)
      BY DEF Ingested, Drained, AfterKind
    <3>4. AfterKind[kind] \in {"calls", "edges", "record"}
      BY DEF AfterKind
    <3> QED
      BY <3>1, <3>2, <3>3, <3>4 DEF Ingested
  <2> QED
    BY <1>4, <2>1, <2>2 DEF Ingest
<1>5. CASE RecordBuild
  BY <1>5 DEF RecordBuild, AfterIngest, RowsOf
<1>6. CASE UpsertCPGCache \/ EndScan \/ Crash
  BY <1>6 DEF UpsertCPGCache, EndScan, Crash, Gone, dbVars
<1>7. ASSUME NEW p \in Projects, NEW f \in Files, Edit(p, f) PROVE FreshVersion'
  BY <1>7 DEF Edit, dbVars
<1>8. CASE UNCHANGED vars
  BY <1>8 DEF vars, dbVars, scanVars, RowsOf, Ingested
<1> QED
  BY <1>1, <1>2, <1>3, <1>4, <1>5, <1>6, <1>7, <1>8 DEF Next

(* A recorded version keeps its rows: a scan writes a fresh version and     *)
(* records it when all kinds are in.                                        *)
LEMMA CompleteStep == IInv /\ [Next]_vars => RecordedBuildComplete'
<1> SUFFICES ASSUME IInv, [Next]_vars, NEW p \in Projects, builds'[p] # None
             PROVE  \E g \in Graphs : RowsOf(p, builds[p])' = Ingested(p, builds'[p], Kinds, g)
  BY DEF RecordedBuildComplete, Ingested
<1> USE CacheAssumption DEF IInv, TypeOK, InHand, FreshVersion, RecordedBuildComplete
<1>1. ASSUME UNCHANGED <<rows, builds>> 
      PROVE  \E g \in Graphs : RowsOf(p, builds[p])' = Ingested(p, builds'[p], Kinds, g)
  BY <1>1 DEF RowsOf
<1>2. ASSUME NEW q \in Projects, StartScan(q)
      PROVE  \E g \in Graphs : RowsOf(p, builds[p])' = Ingested(p, builds'[p], Kinds, g)
  BY <1>1, <1>2 DEF StartScan, dbVars
<1>3. ASSUME NEW kind \in Kinds, Ingest(kind)
      PROVE  \E g \in Graphs : RowsOf(p, builds[p])' = Ingested(p, builds'[p], Kinds, g)
  <2>1. UNCHANGED builds /\ pc \in Draining
    BY <1>3 DEF Ingest, Draining
  <2>2. p # proj \/ builds[p] # scans
    BY <2>1
  <2>3. RowsOf(p, builds[p])' = RowsOf(p, builds[p])
    BY <1>3, <2>1, <2>2 DEF Ingest, RowsOf
  <2> QED
    BY <2>1, <2>3
<1>4. CASE RecordBuild
  <2>1. CASE p = proj /\ builds'[p] = scans
    <3>1. RowsOf(proj, scans) = Ingested(proj, scans, Kinds, loaded) /\ loaded \in Graphs
      BY <1>4 DEF RecordBuild, Draining, Drained
    <3> QED
      BY <1>4, <2>1, <3>1 DEF RecordBuild, RowsOf
  <2>2. CASE ~(p = proj /\ builds'[p] = scans)
    <3>1. builds'[p] = builds[p] /\ rows' = rows
      BY <1>4, <2>2 DEF RecordBuild
    <3> QED
      BY <3>1 DEF RowsOf
  <2> QED
    BY <2>1, <2>2
<1> QED
  BY <1>1, <1>2, <1>3, <1>4, TableSteps

LEMMA InvariantStep == IInv /\ [Next]_vars => IInv'
BY TypeStep, FreshStep, CompleteStep DEF IInv

(* Every variable keeps its type: in particular no scan takes a torn file   *)
(* for a graph.                                                             *)
THEOREM TypeCorrect == Spec => []TypeOK
<1>1. Init => IInv
  BY InitInvariant
<1>2. IInv => TypeOK
  BY DEF IInv
<1> QED
  BY <1>1, <1>2, InvariantStep, PTL DEF Spec

(* A version that cpg_builds names holds all rows of one graph, whatever    *)
(* fails and whenever a scan dies.                                          *)
THEOREM RecordedIsComplete == Spec => []RecordedBuildComplete
<1>1. Init => IInv
  BY InitInvariant
<1>2. IInv => RecordedBuildComplete
  BY DEF IInv
<1> QED
  BY <1>1, <1>2, InvariantStep, PTL DEF Spec

-----------------------------------------------------------------------------
(* The tables and the snapshots.                                            *)

(* Every project has a place for its snapshot, and another project that    *)
(* does not share it is not touched by what happens there.                  *)
LEMMA Places ==
  ASSUME NEW p \in Projects
  PROVE  /\ SnapshotPath(p) \in Slots
         /\ p \in Sharing(p)
         /\ \A q \in Projects \ Sharing(p) : SnapshotPath(q) # SnapshotPath(p)
BY DEF SnapshotPath, Slots, Sharing

(* The row of cpg_cache is written with the path the graph was saved to.    *)
LEMMA PathStep == OwnPath /\ IInv /\ [Next]_vars => OwnPath'
<1> SUFFICES ASSUME OwnPath, IInv, [Next]_vars PROVE OwnPath'
  OBVIOUS
<1>1. CASE UpsertCPGCache
  BY <1>1 DEF UpsertCPGCache, OwnPath, IInv, TypeOK, SnapshotPath
<1>2. ASSUME UNCHANGED cacheRow PROVE OwnPath'
  BY <1>2 DEF OwnPath, SnapshotPath
<1>3. CASE ~UpsertCPGCache
  BY <1>2, <1>3 DEF Next, vars, diskVars, dbVars, scanVars, StartScan, GateHit, GateMiss, EnsureDBBackend,
       LoadSnapshot, Locate, Patch, Build, Save, Ingest, RecordBuild, EndScan, Crash, Edit
<1> QED
  BY <1>1, <1>3

(* The snapshot of a project that is not unsynced is what was ingested.     *)
LEMMA SyncedStep == IInv /\ Synced /\ Held /\ [Next]_vars => Synced'
<1> SUFFICES ASSUME IInv, Synced, Held, [Next]_vars, NEW p \in Projects, p \notin unsynced'
             PROVE  /\ snapshot'[SnapshotPath(p)] # Torn
                    /\ builds'[p] # None =>
                         RowsOf(p, builds[p])' = Ingested(p, builds'[p], Kinds, snapshot'[SnapshotPath(p)])
  BY DEF Synced, SnapshotPath, Ingested
<1> DEFINE Goal == /\ snapshot'[SnapshotPath(p)] # Torn
                   /\ builds'[p] # None =>
                        RowsOf(p, builds[p])' = Ingested(p, builds'[p], Kinds, snapshot'[SnapshotPath(p)])
<1> USE CacheAssumption DEF IInv, TypeOK, InHand, Synced
<1>1. ASSUME UNCHANGED <<builds, unsynced, snapshot>>, RowsOf(p, builds[p])' = RowsOf(p, builds[p])
      PROVE  Goal
  BY <1>1
<1>2. ASSUME UNCHANGED <<rows, builds, unsynced, snapshot>> PROVE Goal
  BY <1>1, <1>2 DEF RowsOf
<1>3. CASE Save \/ Crash
  <2>1. UNCHANGED <<rows, builds>>
    BY <1>3 DEF Save, Crash, dbVars
  <2>2. p \notin unsynced /\ snapshot'[SnapshotPath(p)] = snapshot[SnapshotPath(p)]
    <3>1. UNCHANGED <<snapshot, unsynced>> \/
            /\ unsynced' = unsynced \cup Sharing(proj)
            /\ \E x : snapshot' = [snapshot EXCEPT ![SnapshotPath(proj)] = x]
      BY <1>3 DEF Save, Crash
    <3>2. /\ SnapshotPath(p) \in Slots
          /\ p \notin Sharing(proj) => SnapshotPath(p) # SnapshotPath(proj)
      BY Places
    <3> QED
      BY <3>1, <3>2
  <2> QED
    BY <2>1, <2>2 DEF RowsOf
<1>4. ASSUME NEW kind \in Kinds, Ingest(kind) PROVE Goal
  <2>1. UNCHANGED <<builds, unsynced, snapshot>> /\ pc \in Draining
    BY <1>4 DEF Ingest, diskVars, Draining
  <2>2. p # proj \/ builds[p] # scans
    BY <2>1 DEF FreshVersion
  <2>3. RowsOf(p, builds[p])' = RowsOf(p, builds[p])
    BY <1>4, <2>1, <2>2 DEF Ingest, RowsOf
  <2> QED
    BY <1>1, <2>1, <2>3
<1>5. CASE RecordBuild
  <2>1. CASE builds' = builds /\ unsynced' = unsynced
    BY <1>2, <1>5, <2>1 DEF RecordBuild, diskVars
  <2>2. CASE builds' = [builds EXCEPT ![proj] = scans] /\ unsynced' = unsynced \ {proj}
    <3>1. /\ loaded \in Graphs /\ snapshot[SnapshotPath(proj)] = loaded
          /\ RowsOf(proj, scans) = Ingested(proj, scans, Kinds, loaded)
      BY <1>5 DEF RecordBuild, Held, Draining, Drained, FreshVersion
    <3>2. UNCHANGED <<rows, snapshot>>
      BY <1>5 DEF RecordBuild, diskVars
    <3>3. CASE p = proj
      BY <2>2, <3>1, <3>2, <3>3 DEF RowsOf
    <3>4. CASE p # proj
      BY <2>2, <3>2, <3>4 DEF RowsOf
    <3> QED
      BY <3>3, <3>4
  <2> QED
    BY <1>5, <2>1, <2>2 DEF RecordBuild
<1>6. CASE \/ GateHit \/ GateMiss \/ EnsureDBBackend \/ LoadSnapshot \/ Locate \/ Patch
           \/ Build \/ UpsertCPGCache \/ EndScan
  BY <1>2, <1>6 DEF GateHit, GateMiss, EnsureDBBackend, LoadSnapshot, Locate, Patch, Build,
                    UpsertCPGCache, EndScan, diskVars, dbVars
<1>7. ASSUME NEW q \in Projects, StartScan(q) PROVE Goal
  BY <1>2, <1>7 DEF StartScan, dbVars
<1>8. ASSUME NEW q \in Projects, NEW f \in Files, Edit(q, f) PROVE Goal
  BY <1>2, <1>8 DEF Edit, dbVars
<1>9. CASE UNCHANGED vars
  BY <1>2, <1>9 DEF vars, diskVars, dbVars
<1> QED
  BY <1>3, <1>4, <1>5, <1>6, <1>7, <1>8, <1>9 DEF Next

(* What a scan ingests is its snapshot.                                     *)
LEMMA HeldStep == IInv /\ OwnPath /\ Held /\ [Next]_vars => Held'
<1> SUFFICES ASSUME IInv, OwnPath, Held, [Next]_vars PROVE Held'
  OBVIOUS
<1> USE CacheAssumption DEF IInv, TypeOK, InHand, Held, Goto, Return, Gone, Draining, Kinds
<1>1. CASE GateHit
  <2>1. CachedPath(proj) = SnapshotPath(proj)
    BY <1>1 DEF GateHit, CachedPath, OwnPath
  <2> QED
    BY <1>1, <2>1 DEF GateHit, diskVars, SnapshotPath
<1>2. CASE Save
  <2>1. SnapshotPath(proj) \in Slots
    BY Places
  <2> QED
    BY <1>2, <2>1 DEF Save, SnapshotPath
<1>3. ASSUME pc' \in {"ensure"} \cup Draining => pc \in {"ensure"} \cup Draining,
             UNCHANGED <<loaded, snapshot, proj>>
      PROVE  Held'
  BY <1>3 DEF SnapshotPath
<1>4. CASE EnsureDBBackend \/ RecordBuild
  BY <1>3, <1>4 DEF EnsureDBBackend, RecordBuild, diskVars
<1>5. ASSUME NEW kind \in Kinds, Ingest(kind) PROVE Held'
  BY <1>3, <1>5 DEF Ingest, diskVars
<1>6. ASSUME pc' \notin {"ensure"} \cup Draining PROVE Held'
  BY <1>6
<1>7. CASE GateMiss \/ LoadSnapshot \/ Locate \/ Patch \/ Build \/ UpsertCPGCache \/ EndScan \/ Crash
  BY <1>6, <1>7 DEF GateMiss, LoadSnapshot, Locate, Patch, Build, UpsertCPGCache, EndScan, Crash
<1>8. ASSUME NEW q \in Projects, StartScan(q) PROVE Held'
  BY <1>6, <1>8 DEF StartScan
<1>9. ASSUME NEW q \in Projects, NEW f \in Files, Edit(q, f) PROVE Held'
  BY <1>6, <1>9 DEF Edit
<1>10. CASE UNCHANGED vars
  BY <1>3, <1>10 DEF vars, diskVars, scanVars
<1> QED
  BY <1>1, <1>2, <1>4, <1>5, <1>7, <1>8, <1>9, <1>10 DEF Next

(* What a scan serves is what was ingested.                                 *)
LEMMA ServedStep == IInv /\ Synced /\ Held /\ Served /\ [Next]_vars => Served'
<1> SUFFICES ASSUME IInv, Synced, Held, Served, [Next]_vars PROVE Served'
  OBVIOUS
<1> USE CacheAssumption DEF IInv, TypeOK, InHand, Goto, Return, Gone, Draining, Kinds
<1>1. ASSUME pc' \notin {"row", "scan"} \/ backend' = None PROVE Served'
  BY <1>1 DEF Served
<1>2. CASE EnsureDBBackend
  <2>1. CASE pc' = "methods"
    BY <1>1, <2>1
  <2>2. CASE pc' = "scan" /\ backend' = builds[proj] /\ builds[proj] # None
    <3>1. /\ loaded = snapshot[SnapshotPath(proj)] /\ outcome' = "hit"
          /\ UNCHANGED <<proj, loaded, rows, unsynced>>
      BY <1>2, <2>2 DEF EnsureDBBackend, Held, dbVars
    <3>2. proj \notin unsynced => RowsOf(proj, builds[proj]) = Ingested(proj, builds[proj], Kinds, loaded)
      BY <2>2, <3>1 DEF Synced
    <3> QED
      BY <2>2, <3>1, <3>2 DEF Served, RowsOf, Ingested
  <2> QED
    BY <1>2, <2>1, <2>2 DEF EnsureDBBackend
<1>3. ASSUME NEW kind \in Kinds, Ingest(kind) PROVE Served'
  BY <1>1, <1>3 DEF Ingest
<1>4. CASE RecordBuild
  <2>1. /\ UNCHANGED <<loaded, proj, rows, outcome>>
        /\ RowsOf(proj, scans) = Ingested(proj, scans, Kinds, loaded)
    BY <1>4 DEF RecordBuild, FreshVersion, Drained
  <2>2. backend' \in {None, scans}
    BY <1>4 DEF RecordBuild
  <2> QED
    BY <2>1, <2>2 DEF Served, RowsOf, Ingested
<1>5. CASE UpsertCPGCache
  <2>1. UNCHANGED <<rows, backend, outcome, proj, unsynced, loaded>> /\ pc = "row"
    BY <1>5 DEF UpsertCPGCache
  <2> QED
    BY <2>1 DEF Served, RowsOf, Ingested
<1>6. CASE GateHit \/ GateMiss \/ LoadSnapshot \/ Locate \/ Patch \/ Build \/ Save
  <2>1. backend' = None
    BY <1>6 DEF GateHit, GateMiss, LoadSnapshot, Locate, Patch, Build, Save, Early
  <2> QED
    BY <1>1, <2>1
<1>7. CASE EndScan \/ Crash
  BY <1>1, <1>7 DEF EndScan, Crash
<1>8. ASSUME NEW q \in Projects, StartScan(q) PROVE Served'
  BY <1>1, <1>8 DEF StartScan
<1>9. ASSUME NEW q \in Projects, NEW f \in Files, Edit(q, f) PROVE Served'
  BY <1>1, <1>9 DEF Edit
<1>10. CASE UNCHANGED vars
  BY <1>10 DEF vars, dbVars, scanVars, Served, RowsOf, Ingested
<1> QED
  BY <1>2, <1>3, <1>4, <1>5, <1>6, <1>7, <1>8, <1>9, <1>10 DEF Next

(* An error is the fault of a call, of the project, or of a torn snapshot.  *)
LEMMA CauseStep == IInv /\ Synced /\ ErrorHasCause /\ [Next]_vars => ErrorHasCause'
<1> SUFFICES ASSUME IInv, Synced, ErrorHasCause, [Next]_vars PROVE ErrorHasCause'
  OBVIOUS
<1> USE CacheAssumption DEF IInv, TypeOK, InHand, Goto, Return, Gone, Draining, Kinds, ErrorHasCause
<1>1. CASE LoadSnapshot
  <2>1. CASE pc' # "scan"
    BY <2>1
  <2>2. CASE trouble' = trouble \cup {"torn"} /\ ~Loadable(SnapshotPath(proj))
             /\ snapshot[SnapshotPath(proj)] # None
    <3>1. proj \in unsynced
      BY <2>2 DEF Loadable, Synced
    <3> QED
      BY <1>1, <3>1 DEF LoadSnapshot
  <2>3. CASE Fails("joern")
    BY <2>3 DEF Fails
  <2> QED
    BY <1>1, <2>1, <2>2, <2>3 DEF LoadSnapshot
<1>2. CASE Build
  BY SMTT(30), <1>2 DEF Build, Fails
<1>3. CASE Save
  BY <1>3 DEF Save, Fails
<1>4. ASSUME NEW kind \in Kinds, Ingest(kind) PROVE ErrorHasCause'
  BY <1>4 DEF Ingest
<1>5. CASE EnsureDBBackend \/ RecordBuild \/ UpsertCPGCache
  BY <1>5 DEF EnsureDBBackend, RecordBuild, UpsertCPGCache
<1>6. CASE GateHit \/ GateMiss \/ Locate \/ Patch \/ EndScan \/ Crash
  BY <1>6 DEF GateHit, GateMiss, Locate, Patch, EndScan, Crash
<1>7. ASSUME NEW q \in Projects, StartScan(q) PROVE ErrorHasCause'
  BY <1>7 DEF StartScan
<1>8. ASSUME NEW q \in Projects, NEW f \in Files, Edit(q, f) PROVE ErrorHasCause'
  BY <1>8 DEF Edit
<1>9. CASE UNCHANGED vars
  BY <1>9 DEF vars, scanVars
<1> QED
  BY <1>1, <1>2, <1>3, <1>4, <1>5, <1>6, <1>7, <1>8, <1>9 DEF Next

LEMMA SyncStep == IInv /\ SyncInv /\ [Next]_vars => SyncInv'
BY PathStep, SyncedStep, HeldStep, ServedStep, CauseStep DEF SyncInv

(* Whoever shares the snapshot and whatever fails, Joern and the tables     *)
(* answer a scan for the same graph, except on a cache hit behind a save    *)
(* to the snapshot that the project has not ingested since                  *)
(* (cpg_incremental.go:288-312, 357-383).                                   *)
THEOREM BackendsDoAgree == Spec => []BackendsAgree
<1>1. Init => IInv /\ SyncInv
  BY InitInvariant
<1>2. IInv /\ SyncInv /\ [Next]_vars => (IInv /\ SyncInv)'
  BY InvariantStep, SyncStep
<1>3. IInv /\ SyncInv => BackendsAgree
  BY DEF SyncInv, Served, BackendsAgree
<1> QED
  BY <1>1, <1>2, <1>3, PTL DEF Spec

(* A scan that has no graph has a failing call, an empty or too large       *)
(* project, or a snapshot that was saved to since the last ingestion its    *)
(* project recorded (cpg_incremental.go:122-262, 314-345).                  *)
THEOREM ErrorsHaveCauses == Spec => []ErrorHasCause
<1>1. Init => IInv /\ SyncInv
  BY InitInvariant
<1>2. IInv /\ SyncInv /\ [Next]_vars => (IInv /\ SyncInv)'
  BY InvariantStep, SyncStep
<1>3. IInv /\ SyncInv => ErrorHasCause
  BY DEF SyncInv
<1> QED
  BY <1>1, <1>2, <1>3, PTL DEF Spec
=============================================================================
