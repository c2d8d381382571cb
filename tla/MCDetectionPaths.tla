-------------------------- MODULE MCDetectionPaths --------------------------
(* Two workers per fanned-out path; every source reports something.        *)
EXTENDS DetectionPaths, TLC

CONSTANTS taint, opengrep, s1, s2

MCPathOf == (taint :> "deterministic") @@ (opengrep :> "deterministic")
            @@ (s1 :> "orchestrator") @@ (s2 :> "orchestrator")
MCFound == (taint :> {1}) @@ (opengrep :> {2, 3}) @@ (s1 :> {4}) @@ (s2 :> {5})
MCCrypto == {6}
MCAnalysis == {7}
=============================================================================
