---------------------------- MODULE MCPRThreads ----------------------------
(* PRThreads on small instances.                                           *)
EXTENDS PRThreads

CONSTANTS s1, s2, c1, c2, f1, f2, p1

=============================================================================
