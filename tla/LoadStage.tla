------------------------------ MODULE LoadStage ------------------------------
(***************************************************************************)
(* What the LOAD stage of a transform promises to the flow that calls it   *)
(* (the loop over graphs_to_store in document_transformation_flow):        *)
(*                                                                         *)
(*   - graphs are stored one after the other, each in at most MaxAttempts  *)
(*     attempts, and what is stored is never taken away;                   *)
(*   - a relationship is stored only when both its ends are;               *)
(*   - the first graph is complete when the stage goes on to the next one, *)
(*     unless a repeated attempt has taken up its work at another place    *)
(*     than the beginning; where none ever does, every graph is complete;  *)
(*   - the stage gives up a graph only after its last attempt;             *)
(*   - it ends.                                                            *)
(*                                                                         *)
(* Batches, checkpoints, backends and the failures themselves belong to    *)
(* StorageTask, which implements this module.                              *)
(***************************************************************************)
EXTENDS Naturals

CONSTANTS
    Graphs,        \* 1..n, in the order in which they are stored
    Nodes,
    Rels,
    Ends,          \* relationship -> the set of its end nodes
    MaxAttempts    \* the first run of the task and its retries

VARIABLES
    asked,      \* number of graphs the flow has
    required,   \* nodes that a complete graph has
    anew,       \* every attempt begins at the beginning
    graph,      \* the graph being stored
    attempt,    \* the attempt at it
    nodes,      \* graph -> its nodes in the backend
    rels,       \* graph -> its relationships in the backend
    astray,     \* an attempt has begun elsewhere than at the beginning of a list
    outcome     \* "running", "completed" or "failed"

vars == <<asked, required, anew, graph, attempt, nodes, rels, astray, outcome>>

Init ==
    /\ asked \in Graphs
    /\ required \in SUBSET Nodes
    /\ anew \in BOOLEAN
    /\ graph = 1 /\ attempt = 1
    /\ nodes = [g \in Graphs |-> {}]
    /\ rels = [g \in Graphs |-> {}]
    /\ astray = FALSE
    /\ outcome = "running"

\* Some nodes and relationships of the current graph are written, or none.
Written ==
    /\ \E N \in SUBSET Nodes : nodes' = [nodes EXCEPT ![graph] = @ \cup N]
    /\ \E R \in SUBSET Rels :
        /\ \A r \in R : Ends[r] \subseteq nodes'[graph]
        /\ rels' = [rels EXCEPT ![graph] = @ \cup R]

Complete(g) ==
    /\ required \subseteq nodes[g]
    /\ \A r \in Rels : Ends[r] \subseteq nodes[g] => r \in rels[g]

Write ==
    /\ outcome = "running"
    /\ Written
    /\ UNCHANGED <<asked, required, anew, graph, attempt, astray, outcome>>

\* An attempt takes up the work at an index it has read; the first one of all has none.
Stray ==
    /\ outcome = "running" /\ ~anew /\ (graph > 1 \/ attempt > 1)
    /\ astray' = TRUE
    /\ UNCHANGED <<asked, required, anew, graph, attempt, nodes, rels, outcome>>

Retry ==
    /\ outcome = "running" /\ attempt < MaxAttempts
    /\ Written
    /\ attempt' = attempt + 1
    /\ UNCHANGED <<asked, required, anew, graph, astray, outcome>>

GiveUp ==
    /\ outcome = "running" /\ attempt = MaxAttempts
    /\ Written
    /\ outcome' = "failed"
    /\ UNCHANGED <<asked, required, anew, graph, attempt, astray>>

\* A stage that has nothing to show at its end fails after all.
Return ==
    /\ outcome = "running"
    /\ (anew \/ (graph = 1 /\ ~astray)) => Complete(graph)
    /\ IF graph < asked
       THEN graph' = graph + 1 /\ attempt' = 1 /\ UNCHANGED outcome
       ELSE outcome' \in {"completed", "failed"} /\ UNCHANGED <<graph, attempt>>
    /\ UNCHANGED <<asked, required, anew, nodes, rels, astray>>

Next == Write \/ Stray \/ Retry \/ GiveUp \/ Return

Safety == Init /\ [][Next]_vars

\* Prefect's engine goes on until the task returns or its retries are used up.
Spec == Safety /\ WF_vars(Next)
=============================================================================
