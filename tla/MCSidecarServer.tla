-------------------------- MODULE MCSidecarServer --------------------------
(* SidecarServer on small instances.                                       *)
EXTENDS SidecarServer

=============================================================================
