---------------------------- MODULE MCPairLabels ----------------------------
(* Two pairs of one entity type.  The configuration scales the service's       *)
(* floor, margin and nudge so that a label crosses the whole range and both    *)
(* clamps come into play after two of them.                                    *)
EXTENDS PairLabels, TLC

CONSTANTS p1, p2, entity

OneType == (p1 :> entity) @@ (p2 :> entity)
=============================================================================
