------------------------------ MODULE Enrichment ------------------------------
(***************************************************************************)
(* B2, what the surfaces of Targeting are told about before they are       *)
(* judged (semantic/enrichment): vulnerable packages, the taint paths that *)
(* end in a sink, and callers and callees.  A path whose method is not a   *)
(* surface is attributed to the nearest surface among its callers; one     *)
(* goroutine per surface then puts the rest together.                      *)
(***************************************************************************)
EXTENDS Targeting

CONSTANTS
  Flows,     \* answers of the taint query: sequences of records [method, param, mids, sink, clean],
             \* a sink being a node and its label, clean that a sanitizer is on the flow
  InternalParam, InternalNode, \* names of parameters and nodes of input, output and JDBC plumbing
  LongFlow,  \* nodes of a flow too long to be real (500)
  MaxTaintPaths, \* cap of the taint query
  NameOf,    \* [method -> name]
  Vulnerable,    \* what Trivy may report: sets of records [cve, nvd, ghsa, names], scores times ten
  MaxBlind,  \* bound: caller queries that fail in one walk
  Workers    \* goroutines at a time

ASSUME EnrichmentAssumption ==
  /\ Workers \in Nat \ {0}
  /\ MaxTaintPaths \in Nat /\ LongFlow \in Nat /\ MaxBlind \in Nat

VARIABLES
  cves,      \* packages with a CVE, as Trivy reported them
  taints,    \* the taint paths, in order
  next,      \* loop counter over them
  claims,    \* walk-ups: [path, to, blind], blind the methods whose callers were not to be had
  running,   \* surfaces a goroutine is at work on
  enriched   \* surfaces done; the order of the goroutines is left out

enrichmentVars == <<cves, taints, next, claims, running, enriched>>

SurfaceIDs == {s.id : s \in ToSet(surfaces)}

(***************************************************************************)
(* isPhantomTaintPath: the plumbing of drivers and streams, not input.     *)
(***************************************************************************)
Internals(mids, n) ==
  Cardinality({i \in DOMAIN mids : i <= n /\ mids[i] \in InternalNode})

IsPhantom(f) ==
  \/ f.param \in InternalParam /\ Internals(f.mids, 5) >= 3
  \/ Internals(f.mids, 8) >= 4
  \/ Len(f.mids) > LongFlow /\ f.mids[1] \in InternalNode

\* A path of the query. Nothing looks for a sanitizer on the flow.
TaintPath(f) ==
  [method |-> f.method, sink |-> f.sink, mids |-> f.mids, clean |-> f.clean, sanitized |-> FALSE]

ProjectWideTaintPaths(flows) ==
  LET real == SelectSeq(flows, LAMBDA f : ~IsPhantom(f))
      n    == IF Len(real) < MaxTaintPaths THEN Len(real) ELSE MaxTaintPaths
  IN  [i \in 1..n |-> TaintPath(real[i])]

EnrichmentInit ==
  /\ cves = {} /\ taints = <<>> /\ next = 1
  /\ claims = {} /\ running = {} /\ enriched = {}

\* A failure of Trivy leaves the surfaces without CVEs.
RunTrivy ==
  /\ stage = "trivy" /\ stage' = "taint"
  /\ cves' \in Vulnerable \cup {{}}
  /\ UNCHANGED <<trueCalls, calls, methods, hops, queue, found, surfaces,
                 taints, next, claims, running, enriched>>

\* The query for all surfaces at once; its failure leaves them without sinks.
QueryTaint ==
  /\ stage = "taint"
  /\ \/ \E flows \in Flows : taints' = ProjectWideTaintPaths(flows) /\ stage' = "attribute"
     \/ stage' = "attribute" /\ UNCHANGED taints
  /\ UNCHANGED <<trueCalls, calls, methods, hops, queue, found, surfaces,
                 cves, next, claims, running, enriched>>

(***************************************************************************)
(* The walk up the callers of a method ends at the first surface, after    *)
(* six rounds, or in a later round than the third without one.             *)
(***************************************************************************)
WalkUpRounds == 6
GiveUpRound == 2

\* The callers that can be had: those of a blind method cannot.
Known(blind) == {c \in ToSet(trueCalls) : c[1] \in MethodSet /\ c[2] \in MethodSet \ blind}

Matched(m, blind) ==
  LET hits(n) == AtDistance(Reversed(Known(blind)), n, {m}) \cap SurfaceIDs
  IN  UNION {hits(n) : n \in {k \in 1..WalkUpRounds :
                               \A j \in 1..(k - 1) : hits(j) = {} /\ j - 1 < GiveUpRound}}

\* Mutant of Attributable: the first of several is taken.
AttributableFirst(matched) == {m \in matched : \A n \in matched : m <= n}

\* Several surfaces as near as each other: nobody gets the path.
Attributable(matched) == IF Cardinality(matched) = 1 THEN matched ELSE {}

Advance == next' = next + 1

WalkUp ==
  /\ stage = "attribute" /\ next <= Len(taints)
  /\ LET m == taints[next].method IN
       IF m \in SurfaceIDs THEN UNCHANGED claims
       ELSE \E blind \in {b \in SUBSET Within(Reversed(Known({})), GiveUpRound, {m}) :
                              Cardinality(b) <= MaxBlind} :
              claims' = claims \cup
                {[path |-> next, to |-> s, blind |-> blind] :
                   s \in Attributable(Matched(m, blind))}
  /\ Advance
  /\ UNCHANGED <<stage, trueCalls, calls, methods, hops, queue, found, surfaces,
                 cves, taints, running, enriched>>

MaxSinkFanIn == 3

Claimants(sink) == {c.to : c \in {d \in claims : taints[d.path].sink = sink}}

\* A sink that too many surfaces claim is given to none of them.
Attribute ==
  /\ stage = "attribute" /\ next > Len(taints)
  /\ stage' = "enrich"
  /\ claims' = {c \in claims : Cardinality(Claimants(taints[c.path].sink)) <= MaxSinkFanIn}
  /\ UNCHANGED <<trueCalls, calls, methods, hops, queue, found, surfaces,
                 cves, taints, next, running, enriched>>

(***************************************************************************)
(* One surface                                                             *)
(***************************************************************************)
Direct(s)   == {i \in DOMAIN taints : taints[i].method = s}
WalkedUp(s) == {c.path : c \in {d \in claims : d.to = s}}

\* The paths of a surface; nothing that is modelled depends on their order.
PathsOf(s) == Direct(s) \cup WalkedUp(s)

\* Mutant of Trail: the sink of an own path is left out.
TrailMids(s, i) == ToSet(taints[i].mids) \cup (IF i \in Direct(s) THEN {} ELSE {NameOf[s]})

\* What a path adds to the call path behind the nodes in its middle: an own one
\* its sink, which is confirmed by that, one walked up to the name of the surface.
Trail(s, i) ==
  ToSet(taints[i].mids) \cup {IF i \in Direct(s) THEN taints[i].sink.label ELSE NameOf[s]}

ShortCallPath == 3

\* The names on the call path.
CallPath(s, callees) ==
  LET known  == UNION {Trail(s, i) : i \in PathsOf(s)}
      length == MapThenSumSet(LAMBDA i : Len(taints[i].mids) + 1, PathsOf(s))
  IN  IF length < ShortCallPath THEN known \cup {NameOf[m] : m \in callees} ELSE known

\* Only the sinks on the call path are kept, unless none is.
FilterSinks(sinks, path) == IF sinks \cap path = {} THEN sinks ELSE sinks \cap path

BestCVSS(v) == IF v.nvd > 0 THEN v.nvd ELSE v.ghsa
AutoFlagCVSS == 70

\* A CVE belongs to a surface when a name of it looks like the package.
CVEMatches(s) == {v \in cves : NameOf[s] \in v.names}

Enriched(s, callees) ==
  LET paths == PathsOf(s)
      sinks == {taints[i].sink.label : i \in paths}
  IN  [id          |-> s,
       sinks       |-> FilterSinks(sinks, CallPath(s, callees)),
       path        |-> CallPath(s, callees) # {},
       sanitized   |-> paths # {} /\ \A i \in paths : taints[i].sanitized,
       autoFlagged |-> \E v \in CVEMatches(s) : BestCVSS(v) >= AutoFlagCVSS]

StartSurface(s) ==
  /\ stage = "enrich" /\ Cardinality(running) < Workers
  /\ s \in SurfaceIDs \ (running \cup {e.id : e \in enriched})
  /\ running' = running \cup {s}
  /\ UNCHANGED <<stage, trueCalls, calls, methods, hops, queue, found, surfaces,
                 cves, taints, next, claims, enriched>>

\* Callees that cannot be had are left out.
FinishSurface(s) ==
  /\ s \in running
  /\ running' = running \ {s}
  /\ \E callees \in {Callees(ToSet(trueCalls), {s}) \cap MethodSet, {}} :
       enriched' = enriched \cup {Enriched(s, callees)}
  /\ UNCHANGED <<stage, trueCalls, calls, methods, hops, queue, found, surfaces,
                 cves, taints, next, claims>>

EnrichmentEnds ==
  /\ stage = "enrich" /\ {e.id : e \in enriched} = SurfaceIDs
  /\ stage' = "enriched"
  /\ UNCHANGED <<trueCalls, calls, methods, hops, queue, found, surfaces,
                 cves, taints, next, claims, running, enriched>>

EnrichmentNext ==
  \/ RunTrivy \/ QueryTaint \/ WalkUp \/ Attribute \/ EnrichmentEnds
  \/ \E s \in SurfaceIDs : StartSurface(s) \/ FinishSurface(s)
=============================================================================
