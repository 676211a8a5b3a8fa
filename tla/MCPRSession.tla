---------------------------- MODULE MCPRSession ----------------------------
(* Bounds of the pull request session.                                     *)
EXTENDS PRSession, TLC

Symmetry == Permutations(Flips) \cup Permutations(Windows)
=============================================================================
