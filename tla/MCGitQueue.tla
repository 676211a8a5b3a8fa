---------------------------- MODULE MCGitQueue ----------------------------
(* GitQueue on small instances.                                            *)
EXTENDS GitQueue

=============================================================================
