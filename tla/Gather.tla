------------------------------- MODULE Gather -------------------------------
(***************************************************************************)
(* What the detection stage of a scan promises to the stages behind it:    *)
(* every finding that some detector came up with is delivered exactly once *)
(* if the stage succeeds, and the stage fails only because a path did.     *)
(* Nothing is said about the order of findings, nor about how many         *)
(* goroutines there are (see DetectionPaths, which implements this).       *)
(***************************************************************************)
CONSTANTS Findings

VARIABLES
  owed,      \* findings that detectors came up with
  delivered, \* findings handed on to deduplication
  broken,    \* some path has failed
  outcome    \* "running", "ok" or "error"

vars == <<owed, delivered, broken, outcome>>

Init ==
  /\ owed = {}
  /\ delivered = {}
  /\ broken = FALSE
  /\ outcome = "running"

\* A detector comes up with findings nobody has reported yet.
Find ==
  /\ outcome = "running"
  /\ \E F \in SUBSET (Findings \ owed) : owed' = owed \cup F
  /\ UNCHANGED <<delivered, broken, outcome>>

Deliver ==
  /\ outcome = "running"
  /\ \E f \in owed \ delivered : delivered' = delivered \cup {f}
  /\ UNCHANGED <<owed, broken, outcome>>

Break ==
  /\ outcome = "running"
  /\ broken' = TRUE
  /\ UNCHANGED <<owed, delivered, outcome>>

Succeed ==
  /\ outcome = "running"
  /\ ~broken
  /\ delivered = owed
  /\ outcome' = "ok"
  /\ UNCHANGED <<owed, delivered, broken>>

GiveUp ==
  /\ outcome = "running"
  /\ broken
  /\ outcome' = "error"
  /\ UNCHANGED <<owed, delivered, broken>>

Next == Find \/ Deliver \/ Break \/ Succeed \/ GiveUp

Spec == Init /\ [][Next]_vars
=============================================================================
