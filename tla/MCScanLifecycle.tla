-------------------------- MODULE MCScanLifecycle --------------------------
(* Model values and bounds for ScanLifecycle.                              *)
EXTENDS ScanLifecycle, TLC

CONSTANTS f1, f2, bad, weak, r1, r2

\* "bad" carries a BLOCK finding, "weak" a LOW one; an absent file none.
MCSeverity == (bad :> "BLOCK") @@ (weak :> "LOW")

Symmetry == Permutations({f1, f2}) \cup Permutations({r1, r2})
=============================================================================
