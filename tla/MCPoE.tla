------------------------------- MODULE MCPoE -------------------------------
(* Up to three findings: with and without a route, too low, of a language  *)
(* the sandbox cannot run.                                                 *)
EXTENDS PoE

Line(is, route, handler) == [is |-> is, route |-> route, handler |-> handler]
Other == Line("other", NoRoute, NoRoute)

MCSource ==
  [java |-> <<Line("class", NoRoute, NoRoute), Line("mapping", "GET /a", NoRoute), Other, Other, Other, Other, Other, Other>>,
   go   |-> <<Other, Other, Line("register", "POST /b", "handle")>>]

get  == [name |-> "get",  file |-> "java", line |-> 3]
find == [name |-> "find", file |-> "java", line |-> 7]
work == [name |-> "work", file |-> "go",   line |-> 1]
hand == [name |-> "handle", file |-> "go", line |-> 2]

MCMethods == {get, find, work, hand}
MCCalls == {<<hand, work>>}

F(sev, conf, lang, file, line) == [sev |-> sev, conf |-> conf, lang |-> lang, file |-> file, line |-> line]
Low     == F("LOW", 50, "java", "java", 4)
Unsure  == F("LOW", 5, "go", "go", 1)
Pinned  == F("LOW", 90, "go", "go", 1)
Routed  == F("HIGH", 80, "go", "go", 1)
Direct  == F("BLOCK", 95, "java", "java", 4)
Hidden  == F("HIGH", 76, "java", "java", 8)
Foreign == F("BLOCK", 100, "ruby", "java", 4)

MCScored == {<<>>, <<Low>>, <<Low, Routed>>, <<Unsure, Routed>>, <<Direct, Hidden>>, <<Pinned, Routed, Direct>>,
             <<Routed, Foreign, Low>>, <<Foreign, Low, Hidden>>}
=============================================================================
