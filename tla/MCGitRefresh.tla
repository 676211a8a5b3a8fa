---------------------------- MODULE MCGitRefresh ----------------------------
(* GitRefresh on small instances.                                          *)
EXTENDS GitRefresh

=============================================================================
