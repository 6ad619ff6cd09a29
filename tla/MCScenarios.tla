----------------------------- MODULE MCScenarios -----------------------------
(* Two nodes and an edge, which may dangle in the snapshot already, and the    *)
(* batches that create, update, delete and bring back a node with its edge.    *)
EXTENDS Scenarios, TLC

CONSTANTS n1, n2, e1

\* Requests are all alike.
Symmetry == Permutations(Requests)

Edge(v) == e1 :> [source |-> n1, target |-> n2, value |-> v]

Loop(v) == e1 :> [source |-> n1, target |-> n1, value |-> v]

MCBases ==
    {[nodes |-> (n1 :> 0) @@ (n2 :> Gone), edges |-> (e1 :> Gone)],
     [nodes |-> (n1 :> 0) @@ (n2 :> 0), edges |-> Edge(0)],
     \* the in-memory store after a deletion of n2
     [nodes |-> (n1 :> 0) @@ (n2 :> Gone), edges |-> Edge(0)]}

MCChanges ==
    {\* a node, with its edge or without
     [NoChange EXCEPT !.createdNodes = (n2 :> 1)],
     [NoChange EXCEPT !.createdNodes = (n2 :> 1), !.createdEdges = Edge(1)],
     [NoChange EXCEPT !.deletedNodes = {n2}],
     [NoChange EXCEPT !.deletedNodes = {n2}, !.deletedEdges = {e1}],
     \* an edge
     [NoChange EXCEPT !.createdEdges = Loop(0)],
     [NoChange EXCEPT !.deletedEdges = {e1}],
     \* properties, back to what the snapshot has as well
     [NoChange EXCEPT !.updatedNodes = (n1 :> 1), !.updatedEdges = (e1 :> 1)],
     [NoChange EXCEPT !.updatedNodes = (n1 :> 0) @@ (n2 :> 0)]}
=============================================================================
