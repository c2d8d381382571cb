----------------------------- MODULE MCCPGCache -----------------------------
(* Instances of CPGCache for TLC: two projects with two files.               *)
EXTENDS CPGCache, TLC

\* No name and no content is special.
Symmetry ==
  Permutations(Projects) \cup Permutations(Files) \cup Permutations(Contents)

=============================================================================
