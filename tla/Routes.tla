------------------------------- MODULE Routes -------------------------------
(***************************************************************************)
(* How a proof of exploit finds the HTTP entry point of a finding          *)
(* (internal/poe, route*.go): the method that encloses the finding is      *)
(* looked up in the graph, then its callers are walked until one of them   *)
(* declares a route in the convention of its language.                     *)
(*                                                                         *)
(* A source file is a sequence of lines, a line a record [is, route,       *)
(* handler]: is "mapping" for an annotation or decorator, "class" for a    *)
(* class declaration, "register" for a registration call that names the    *)
(* handler, "other" for the rest.                                          *)
(***************************************************************************)
EXTENDS CallGraph
LOCAL INSTANCE SequencesExt

MaxRouteWalkDepth == 5
AnnotationLookback == 4

NoRoute == "no route"

\* The lines from lookback lines above line n down to n itself.
WindowAbove(lines, n, lookback) ==
  SubSeq(lines, (IF n > lookback THEN n - lookback ELSE 0) + 1, IF n < Len(lines) THEN n ELSE Len(lines))

FirstRoute(hits) == IF hits = <<>> THEN NoRoute ELSE Head(hits).route

\* Java and Python: the first annotation of the window above the declaration.
AnnotatedRoute(lines, node) ==
  FirstRoute(SelectSeq(WindowAbove(lines, node.line, AnnotationLookback), LAMBDA l : l.is = "mapping"))

\* Go and Node: the first call of the file that registers the name.
RegisteredRoute(lines, node) ==
  FirstRoute(SelectSeq(lines, LAMBDA l : l.is = "register" /\ l.handler = node.name))

RouteOf(lang, lines, node) ==
  CASE lang \in {"java", "python"} -> AnnotatedRoute(lines, node)
    [] lang \in {"go", "javascript", "typescript"} -> RegisteredRoute(lines, node)
    [] OTHER -> NoRoute

\* The last method of the file declared at or above a line.
EnclosingMethod(methods, file, line) ==
  LET above == {m \in methods : m.file = file /\ m.line <= line}
  IN  {m \in above : \A n \in above : n.line <= m.line}

(***************************************************************************)
(* The entry points from which the walk may take its route: those closest  *)
(* to the method, within the depth of the walk.                            *)
(***************************************************************************)
EntryPoints(calls, start, declaring) ==
  LET at(n)  == Callers(calls, n, start) \cap declaring
      depths == {n \in 0..MaxRouteWalkDepth : at(n) # {}}
  IN  IF depths = {} THEN {} ELSE at(CHOOSE n \in depths : \A k \in depths : n <= k)
=============================================================================
