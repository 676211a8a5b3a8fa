----------------------------- MODULE MCStaging -----------------------------
(* TLC instance of Staging.                                                *)
EXTENDS Staging, TLC

TextSymmetry == Permutations(Text)
=============================================================================
