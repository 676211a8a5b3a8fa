----------------------------- MODULE MCCatFile -----------------------------
(* CatFile on small instances.                                             *)
EXTENDS CatFile

CONSTANTS r1, r2, r3, s1, s2

=============================================================================
