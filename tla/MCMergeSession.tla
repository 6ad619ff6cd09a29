--------------------------- MODULE MCMergeSession ---------------------------
(* MergeSession on a staging graph of two nodes, of one entity or of two.     *)
EXTENDS MergeSession
=============================================================================
