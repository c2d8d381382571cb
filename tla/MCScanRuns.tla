----------------------------- MODULE MCScanRuns -----------------------------
(***************************************************************************)
(* Two instances of ScanLifecycle in one run of TLC, told apart from the   *)
(* initial state on: two runs that may overlap, whose statements fail only *)
(* by a signal, and two runs one after the other, any statement of which   *)
(* may fail and any file of which may be unreadable.  With every fault in  *)
(* overlapping runs there are too many states.                             *)
(***************************************************************************)
EXTENDS MCScanLifecycle

VARIABLE manner

Overlapping == INSTANCE ScanLifecycle WITH Faults <- Faults \ {"db", "unreadable"}
InTurn == INSTANCE ScanLifecycle WITH
  Faults <- Faults \ {"signal", "reasoning"}, MaxParallel <- 1

RunsInit == Init /\ manner \in {"overlapping", "in turn"}

RunsNext ==
  /\ \/ manner = "overlapping" /\ Overlapping!Next
     \/ manner = "in turn" /\ InTurn!Next
  /\ UNCHANGED manner

RunsSpec == RunsInit /\ [][RunsNext]_<<vars, manner>>
=============================================================================
