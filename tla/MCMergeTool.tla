---------------------------- MODULE MCMergeTool ----------------------------
(* MergeTool on small instances.                                           *)
EXTENDS MergeTool

MCLayouts == {<<"text", "binary">>, <<"deleted", "odd">>, <<"deleted binary", "odd">>}
=============================================================================
