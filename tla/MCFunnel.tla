------------------------------ MODULE MCFunnel ------------------------------
(* Two surfaces, in the pairs of shapes that meet on the path, and the      *)
(* confidences around every threshold of it.                               *)
EXTENDS Funnel

CONSTANTS s1, s2

MCSurfaces == {s1, s2}
MCConfidences == {0, 80, 90, 100}

Base == [kind |-> "external_input", sinks |-> {}, text |-> {}, path |-> FALSE,
         sanitized |-> FALSE, body |-> "full", taint |-> FALSE, weak |-> {}, secure |-> FALSE]

TaintedSql == [Base EXCEPT !.sinks = {89}, !.path = TRUE, !.taint = TRUE]
TwoSinks  == [Base EXCEPT !.sinks = {89}, !.text = {22}, !.path = TRUE, !.taint = TRUE]
Weak      == [TaintedSql EXCEPT !.weak = {338, 916}]
Idor      == [Base EXCEPT !.kind = "idor_candidate", !.text = {22}]
IdorSql   == [Idor EXCEPT !.sinks = {89}, !.path = TRUE, !.taint = TRUE]
Stub      == [Base EXCEPT !.kind = "auth_boundary", !.body = "stub"]

Pair(a, b) == [s \in MCSurfaces |-> IF s = s1 THEN a ELSE b]
MCShapes == {Pair(TaintedSql, TaintedSql), Pair(TaintedSql, Idor), Pair(TwoSinks, Weak),
             Pair(TwoSinks, Stub), Pair(Idor, Idor), Pair(IdorSql, Stub)}
=============================================================================
