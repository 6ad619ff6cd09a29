--------------------------- MODULE MCStorageTask ---------------------------
(* A small transform for TLC: four nodes of two kinds and three            *)
(* relationships per graph, two items per batch.                           *)
EXTENDS StorageTask, TLC

MCKind == [k \in 1..4 |-> IF k = 2 THEN "Org" ELSE "Person"]
MCEnds == (1 :> {1, 2}) @@ (2 :> {2, 4}) @@ (3 :> {3})
=============================================================================
