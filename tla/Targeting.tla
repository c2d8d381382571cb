------------------------------ MODULE Targeting ------------------------------
(***************************************************************************)
(* B1, the choice of the surfaces worth an analysis (semantic/targeting):  *)
(* files are classified by what they import, the call graph is fetched,    *)
(* and worklist searches from the methods of source, sink and auth files   *)
(* leave those on a way from input to a privileged call.                   *)
(*                                                                         *)
(* A method is the number its node ID sorts by.  What its file imports and *)
(* what its name looks like are constants.                                 *)
(***************************************************************************)
EXTENDS CallGraph, SequencesExt

CONSTANTS
  Methods,    \* METHOD nodes, in the order the backend returns them
  Graphs,     \* call graphs a scan may meet: sequences of pairs; a callee need not be a METHOD node
  Bound,      \* [ToSet(Methods) -> SUBSET Boundaries]: imports of the method's file
  TestFile,   \* methods of test files
  AuthNamed,  \* methods with an authentication name or annotation
  IDORNamed,  \* methods whose name or file has a resource signal
  HasDB,      \* the graph was also ingested into the database
  MaxLostRows \* bound: rows a broken cursor leaves out

Boundaries == {"source", "sink", "auth", "storage"}
MethodSet == ToSet(Methods)

ASSUME TargetingAssumption ==
  /\ Methods \in Seq(Nat) /\ Graphs \subseteq Seq(Nat \X Nat)
  /\ Bound \in [MethodSet -> SUBSET Boundaries]
  /\ HasDB \in BOOLEAN /\ MaxLostRows \in Nat

VARIABLES
  stage,     \* where the reasoning path stands
  trueCalls, \* the call graph, in the order the backend returns it
  calls,     \* the call graph as fetched
  methods,   \* the METHOD nodes as fetched
  hops,      \* the search under way: distance of each method seen
  queue,     \* its worklist
  found,     \* the searches done: [Searches -> distances]
  surfaces   \* the surfaces selected, in order

targetingVars == <<stage, trueCalls, calls, methods, hops, queue, found, surfaces>>

(***************************************************************************)
(* Bulk queries.  A cursor whose connection breaks ends like one that is   *)
(* exhausted, so the database may answer with fewer rows; a database error *)
(* falls back to the pages of Joern, of which all arrive or none.          *)
(***************************************************************************)
FromDB(rows)    == {SubSeq(rows, 1, n) : n \in (Len(rows) - MaxLostRows)..Len(rows)}
FromJoern(rows) == {rows}
Fetched(rows)   == (IF HasDB THEN FromDB(rows) ELSE {}) \cup FromJoern(rows)

Edges == ToSet(calls)

\* A file has a kind when one of its first lines names a package of that kind.
Imports(m, b) == b \in Bound[m]

Classified(m, b) == m \in ToSet(methods) /\ m \notin TestFile /\ Imports(m, b)

LooksLikeAuth(m) == m \in AuthNamed

\* The auth seeds fall back to whole files when no name or annotation matches.
AuthSeeds ==
  LET ofFile == {m \in ToSet(methods) : Classified(m, "auth")}
      named  == {m \in ofFile : LooksLikeAuth(m)}
  IN  IF named # {} THEN named ELSE ofFile

Searches == <<"forward", "backward", "auth", "readers">>

\* Test files do not keep a method from being a storage seed.
Seeds(search) ==
  CASE search = "forward"  -> {m \in ToSet(methods) : Classified(m, "source")}
    [] search = "backward" -> {m \in ToSet(methods) : Classified(m, "sink")}
    [] search = "auth"     -> AuthSeeds
    [] search = "readers"  -> {m \in ToSet(methods) : Imports(m, "storage")}

Successors(search, m) ==
  Callees(IF search = "forward" THEN Edges ELSE Reversed(Edges), {m})

NoHops == [m \in {} |-> 0]
NoSearch == [s \in {} |-> NoHops]
Seen == DOMAIN hops

StartSearch(search) ==
  /\ stage' = search
  /\ hops' = [m \in Seeds(search) |-> 0]
  /\ queue' = SetToSeq(Seeds(search))

TargetingInit ==
  /\ stage = "imports"
  /\ trueCalls \in Graphs
  /\ calls = <<>> /\ methods = <<>>
  /\ hops = NoHops /\ queue = <<>> /\ found = NoSearch
  /\ surfaces = <<>>

\* A walk of the source tree, done ahead by PrewarmImportBoundaries or now; only
\* the cancellation of the scan stops it.
ImportBoundaries ==
  /\ stage = "imports"
  /\ stage' \in {"graph", "skipped"}
  /\ UNCHANGED <<trueCalls, calls, methods, hops, queue, found, surfaces>>

GetCallGraph ==
  /\ stage = "graph"
  /\ \/ calls' \in Fetched(trueCalls) /\ stage' = "methods"
     \/ stage' = "skipped" /\ UNCHANGED calls
  /\ UNCHANGED <<trueCalls, methods, hops, queue, found, surfaces>>

QueryNodes ==
  /\ stage = "methods"
  /\ \/ methods' \in Fetched(Methods) /\ stage' = "seed"
     \/ stage' = "skipped" /\ UNCHANGED methods
  /\ UNCHANGED <<trueCalls, calls, hops, queue, found, surfaces>>

\* Without source or sink there is nothing to select.
Seed ==
  /\ stage = "seed"
  /\ IF Seeds("forward") = {} \/ Seeds("backward") = {}
     THEN stage' = "skipped" /\ UNCHANGED <<hops, queue>>
     ELSE StartSearch("forward")
  /\ UNCHANGED <<trueCalls, calls, methods, found, surfaces>>

\* Mutant of Enqueued: what was visited is queued again.
EnqueuedAgain(fresh) == Tail(queue) \o SetToSeq(fresh) \o <<Head(queue)>>

Enqueued(fresh) == Tail(queue) \o SetToSeq(fresh)

Fresh(m) == Successors(stage, m) \ Seen

\* bfsForward and bfsDepths: take the first of the worklist, add what it leads to.
Visit ==
  /\ stage \in ToSet(Searches) /\ queue # <<>>
  /\ LET m == Head(queue) IN
       /\ hops' = [x \in Seen \cup Fresh(m) |-> IF x \in Fresh(m) THEN hops[m] + 1 ELSE hops[x]]
       /\ queue' = Enqueued(Fresh(m))
  /\ UNCHANGED <<stage, trueCalls, calls, methods, found, surfaces>>

NextSearch(search) == Searches[1 + CHOOSE i \in DOMAIN Searches : Searches[i] = search]

SearchEnds ==
  /\ stage \in ToSet(Searches) /\ queue = <<>>
  /\ found' = [s \in DOMAIN found \cup {stage} |-> IF s = stage THEN hops ELSE found[s]]
  /\ IF stage = "readers" THEN stage' = "select" /\ UNCHANGED <<hops, queue>>
                          ELSE StartSearch(NextSearch(stage))
  /\ UNCHANGED <<trueCalls, calls, methods, surfaces>>

Reached(search) == DOMAIN found[search]

(***************************************************************************)
(* A method on a way from a source to a sink is a surface: it guards the   *)
(* rest if it can reach an authentication method, and is an IDOR candidate *)
(* if it cannot and is named like an access to a record.                   *)
(***************************************************************************)
HasIDORSignal(m) == m \in IDORNamed

Kind(m) ==
  CASE m \in Reached("auth") -> "auth_boundary"
    [] m \notin Reached("auth") /\ HasIDORSignal(m) -> "idor_candidate"
    [] OTHER -> "external_input"

Surface(m, kind, depth, second) == [id |-> m, kind |-> kind, depth |-> depth, second |-> second]

\* Mutant of OnTheWay: the way to the sink is not asked for.
OnTheWayIn == ToSet(methods) \cap Reached("forward")

OnTheWay == ToSet(methods) \cap Reached("forward") \cap Reached("backward")

\* Who reaches storage and a sink; not asked whether input reaches it.
SecondOrder == (Reached("readers") \cap Reached("backward")) \ OnTheWay

Selected ==
  {Surface(m, Kind(m), found["forward"][m], FALSE) : m \in OnTheWay}
    \cup {Surface(m, "external_input", 0, TRUE) : m \in SecondOrder}

Priority(kind) ==
  CASE kind = "idor_candidate" -> 3 [] kind = "auth_boundary" -> 2 [] OTHER -> 1

Before(s, t) ==
  \/ Priority(s.kind) > Priority(t.kind)
  \/ /\ Priority(s.kind) = Priority(t.kind)
     /\ s.depth < t.depth \/ (s.depth = t.depth /\ s.id < t.id)

\* The surfaces of S in their order.
Sorted(S) ==
  [i \in 1..Cardinality(S) |-> CHOOSE s \in S : Cardinality({t \in S : Before(t, s)}) = i - 1]

Select ==
  /\ stage = "select"
  /\ surfaces' = Sorted(Selected)
  /\ stage' = IF Selected = {} THEN "skipped" ELSE "trivy"
  /\ UNCHANGED <<trueCalls, calls, methods, hops, queue, found>>

TargetingNext ==
  \/ ImportBoundaries \/ GetCallGraph \/ QueryNodes \/ Seed
  \/ Visit \/ SearchEnds \/ Select
=============================================================================
