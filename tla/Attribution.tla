------------------------------ MODULE Attribution ------------------------------
(***************************************************************************)
(* The first two stages of the reasoning path in their order (runReasoning *)
(* in internal/pipeline): Targeting selects the surfaces, Enrichment tells *)
(* what is known of each, Funnel judges what comes out.                    *)
(***************************************************************************)
EXTENDS Enrichment

attributionVars == <<targetingVars, enrichmentVars>>

AttributionInit == TargetingInit /\ EnrichmentInit

\* A stage that fails or selects nothing ends the reasoning path without an error.
AttributionTerminated == stage \in {"skipped", "enriched"} /\ UNCHANGED attributionVars

AttributionNext ==
  \/ TargetingNext /\ UNCHANGED enrichmentVars
  \/ EnrichmentNext
  \/ AttributionTerminated

(***************************************************************************)
(* The loops run on, a goroutine that runs is scheduled and every query    *)
(* has a deadline.                                                         *)
(***************************************************************************)
AttributionSpec ==
  AttributionInit /\ [][AttributionNext]_attributionVars /\ WF_attributionVars(AttributionNext)

-----------------------------------------------------------------------------
(* Properties                                                              *)

Nodes == MethodSet \cup UNION {{c[1], c[2]} : c \in Edges}
Reaches(m, S) == Within(Edges, Cardinality(Nodes), {m}) \cap S # {}

(***************************************************************************)
(* The searches find what the definition of a surface asks for, whatever   *)
(* the shape of the call graph: exactly the methods from a source to a     *)
(* sink, each with its least distance from a source, and none that can     *)
(* reach an authentication check as an IDOR candidate                      *)
(* (targeting.go:212-218, 295-343).                                        *)
(***************************************************************************)
SurfacesOnPaths ==
  stage = "trivy" =>
    LET depth(m) == {n \in 0..Cardinality(Nodes) : m \in Within(Edges, n, Seeds("forward"))}
    IN  /\ {s.id : s \in {t \in ToSet(surfaces) : ~t.second}}
             = {m \in ToSet(methods) : depth(m) # {} /\ Reaches(m, Seeds("backward"))}
        /\ \A s \in ToSet(surfaces) :
             /\ ~s.second => s.depth \in depth(s.id) /\ \A n \in depth(s.id) : s.depth <= n
             /\ s.kind = "idor_candidate" => ~Reaches(s.id, AuthSeeds)

(***************************************************************************)
(* A taint path is attributed to a caller of its method only if no other   *)
(* surface is as near to it, among the callers that could be had, and to   *)
(* one surface at most; and a sink is claimed by at most three             *)
(* (enrichment.go:250-258, 327-346).                                       *)
(***************************************************************************)
AttributionIsUnambiguous ==
  stage = "enriched" =>
    \A c \in claims :
      LET m == taints[c.path].method
          near(s, n) == m \in Within(Known(c.blind), n, {s})
      IN  /\ m \notin SurfaceIDs
          /\ \E n \in 1..WalkUpRounds : {s \in SurfaceIDs : near(s, n)} = {c.to}
          /\ \A d \in claims : d.path = c.path => d.to = c.to
          /\ Cardinality(Claimants(taints[c.path].sink)) <= MaxSinkFanIn

(***************************************************************************)
(* The sink of a path that starts in the surface itself survives the       *)
(* filter over the call path (enrichment.go:488-492, 526-543).             *)
(***************************************************************************)
ConfirmedSinksKept ==
  \A e \in enriched : \A i \in Direct(e.id) : taints[i].sink.label \in e.sinks

(***************************************************************************)
(* A surface all of whose taint paths pass a sanitizer is told so          *)
(* (interface.go:136, enrichment.go:116-121).                              *)
(***************************************************************************)
SanitizedPathsAreMarked ==
  \A e \in enriched :
    LET paths == PathsOf(e.id)
    IN  e.sanitized <=> paths # {} /\ \A i \in paths : taints[i].clean

\* Selection and enrichment come to an end, also on a call graph with cycles.
AttributionEnds == <>(stage \in {"skipped", "enriched"})
=============================================================================
