---------------------------- MODULE MCBlobCache ----------------------------
(* Two requests over two paths and two commits.  One file is renamed and   *)
(* grows past what a response may hold, one is absent at the base.         *)
EXTENDS BlobCache, TLC

MCPath == {"a", "b"}
MCSha == {"B", "H"}
MCBody == (<<"B", "a">> :> 1) @@ (<<"H", "a">> :> 4) @@ (<<"B", "b">> :> None) @@ (<<"H", "b">> :> 2)
MCRefs == {[base |-> "B", head |-> "H"], [base |-> "H", head |-> "H"]}
MCAsk ==
  {[path |-> "a", basePath |-> "a", base |-> None, head |-> None],
   [path |-> "a", basePath |-> "b", base |-> "B", head |-> "H"],
   [path |-> "b", basePath |-> "b", base |-> "H", head |-> "H"]}
=============================================================================
