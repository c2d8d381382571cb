---------------------------- MODULE MCAttribution ----------------------------
(* Eight methods: 1 and 2 take input, 4 calls the sink, 8 the storage, the *)
(* others lie between or are helpers; 9 is known to the call graph only.   *)
EXTENDS Attribution

MCMethods == <<1, 2, 3, 4, 5, 6, 7, 8>>
MCBound == [m \in 1..8 |->
              CASE m = 1 -> {"source"} [] m = 2 -> {"source", "auth"} [] m = 4 -> {"sink"}
                [] m = 6 -> {"auth"} [] m = 8 -> {"storage"} [] OTHER -> {}]

Chain  == <<<<1, 2>>, <<2, 3>>, <<3, 4>>, <<1, 5>>, <<2, 6>>, <<3, 7>>, <<4, 8>>>>
Loop   == <<<<1, 3>>, <<3, 1>>, <<3, 4>>, <<3, 5>>, <<4, 5>>, <<5, 6>>, <<6, 9>>>>
Deep   == <<<<1, 4>>, <<4, 5>>, <<5, 6>>, <<6, 7>>, <<3, 8>>, <<8, 4>>>>
MCGraphs == {Chain, Loop, Deep}

Sink(node, label) == [node |-> node, label |-> label]
Query == Sink("q", "executeQuery")
Exec  == Sink("x", "exec")
Flow(method, sink, mids, clean) ==
  [method |-> method, param |-> "id", mids |-> mids, sink |-> sink, clean |-> clean]
Stream(method, sink) ==
  [method |-> method, param |-> "rs", mids |-> <<"buf", "buf", "buf">>, sink |-> sink, clean |-> FALSE]

MCFlows ==
  {<<Flow(1, Query, <<"svc">>, TRUE), Flow(5, Exec, <<>>, FALSE), Stream(4, Query)>>,
   <<Flow(5, Exec, <<>>, FALSE), Flow(6, Exec, <<"exec">>, FALSE), Flow(7, Exec, <<>>, FALSE), Flow(8, Exec, <<>>, FALSE)>>,
   <<Flow(6, Query, <<"buf", "b", "c">>, TRUE), Flow(7, Exec, <<>>, TRUE), Flow(4, Exec, <<"a", "executeQuery", "c">>, TRUE),
     Flow(4, Query, <<>>, TRUE), Flow(1, Query, <<>>, TRUE)>>}

MCName == [m \in 1..8 |-> <<"get", "login", "load", "run", "fmt", "exec", "util", "job">>[m]]

Cve(nvd, ghsa, names) == [cve |-> "c", nvd |-> nvd, ghsa |-> ghsa, names |-> names]
MCVulnerable == {{Cve(0, 90, {"run"}), Cve(50, 90, {"get"})}}
=============================================================================
