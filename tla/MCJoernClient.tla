--------------------------- MODULE MCJoernClient ---------------------------
(* Two instances: two CLI processes with one caller each, as the pipeline  *)
(* uses the client, and one client shared by two callers.                  *)
EXTENDS JoernClient, TLC

CONSTANTS clA, clB, k1, k2

OneCallerEach == (k1 :> clA) @@ (k2 :> clB)
SharedClient  == (k1 :> clA) @@ (k2 :> clA)
=============================================================================
