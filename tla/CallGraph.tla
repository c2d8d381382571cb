------------------------------ MODULE CallGraph ------------------------------
(***************************************************************************)
(* Walks over a call graph, as the stages behind the graph interface of    *)
(* internal/cpg_engine do them level by level.  A graph is a set of pairs  *)
(* of caller and callee.                                                   *)
(***************************************************************************)
EXTENDS Naturals, FiniteSets, Sequences

Reversed(calls) == {<<c[2], c[1]>> : c \in calls}

\* What the methods of S call.
Callees(calls, S) == {c[2] : c \in {d \in calls : d[1] \in S}}

\* The methods at most n calls away from start.
Within(calls, n, start) ==
  LET near[i \in 0..n] ==
        IF i = 0 THEN start
        ELSE LET last == near[i - 1] IN last \cup Callees(calls, last)
  IN  near[n]

\* Those exactly n calls away.
AtDistance(calls, n, start) ==
  IF n = 0 THEN start ELSE Within(calls, n, start) \ Within(calls, n - 1, start)

\* The methods at most n calls away from start, against the calls.
Callers(calls, n, start) == Within(Reversed(calls), n, start)
=============================================================================
