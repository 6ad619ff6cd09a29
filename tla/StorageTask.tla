---------------------------- MODULE StorageTask ----------------------------
(***************************************************************************)
(* The LOAD half of a transform: document_transformation_flow hands the    *)
(* extracted graphs, one after the other, to the Prefect task              *)
(* store_knowledge_graph, which writes nodes and then relationships in     *)
(* batches to a graph backend and keeps one checkpoint per TRANSFORM in    *)
(* that backend.  Prefect runs the task again, with the same arguments,    *)
(* when it raises.  The Neo4j adapter writes that checkpoint under another *)
(* key than the one it looks for: there it is never found again.           *)
(*                                                                         *)
(* Python lists count from 0 and a checkpoint holds a Python index; here   *)
(* node k is nodes[k-1], so "index i" means that nodes 1..i are behind it. *)
(* Every graph of the transform has the same shape.  The deployment and    *)
(* the input (backend, invalid, numGraphs) are picked in Init and never    *)
(* change.                                                                 *)
(***************************************************************************)
EXTENDS Integers, FiniteSets, FiniteSetsExt

CONSTANTS
    Backends,      \* values of settings.STORAGE_TYPE to consider
    MaxGraphs,     \* bound: graphs_to_store of the flow, one per document
    NumNodes,      \* nodes of each graph
    Kind,          \* node -> type (and property names): what one UNWIND covers
    Unsafe,        \* nodes whose type may be no safe identifier
    Rels,          \* the graph's relationships, as indices 1..n
    Ends,          \* relationship -> the set of its end nodes
    BatchSize,     \* settings.STORAGE_BATCH_SIZE
    Retries,       \* settings.STORAGE_RETRIES
    MaxFaults      \* bound: backend calls that fail in one behaviour

Nodes  == 1..NumNodes
Graphs == 1..MaxGraphs
NumRels == Cardinality(Rels)

ASSUME BackendAssumption == Backends \subseteq {"neo4j", "postgres", "memory"}
ASSUME SizeAssumption ==
    /\ MaxGraphs \in Nat \ {0}
    /\ NumNodes \in Nat
    /\ BatchSize \in Nat \ {0}
    /\ Retries \in Nat
    /\ MaxFaults \in Nat
ASSUME GraphAssumption ==
    /\ DOMAIN Kind = Nodes
    /\ Unsafe \subseteq Nodes
    /\ NumRels \in Nat
    /\ Rels = 1..NumRels
    /\ Ends \in [Rels -> SUBSET Nodes]

Stages == {"nodes", "relationships"}

NoCheckpoint == [index |-> 0, stage |-> "none"]

VARIABLES
    backend,     \* settings.STORAGE_TYPE
    invalid,     \* nodes _validate_identifier refuses
    numGraphs,   \* length of graphs_to_store
    pc,          \* where the task attempt (or the flow around it) stands
    graph,       \* the graph of graphs_to_store being stored
    attempt,     \* 1 for the first run of the task, +1 for each Prefect retry
    startFrom,   \* start_from of the attempt
    batchIdx,    \* batch_idx of the loop the attempt is in
    pending,     \* items_processed of the batch stored last
    tally,       \* result.nodes_stored + result.relationships_stored
    total,       \* nodes_stored + relationships_stored of the flow
    checkpoint,  \* what get_storage_status finds for this transform
    copies,      \* graph -> node -> vertices with that node's id in the backend
    edges,       \* graph -> relationships that have an edge in the backend
    faults,      \* backend calls that failed so far
    resumed      \* history: stages in which an attempt began past index 0

env   == <<backend, invalid, numGraphs>>
flow  == <<graph, total>>
task  == <<startFrom, batchIdx, pending, tally>>
store == <<checkpoint, copies, edges>>
vars  == <<env, pc, flow, attempt, task, store, faults, resumed>>

PCs == {"status", "nodes", "nodesCheckpoint", "rels", "relsCheckpoint",
        "completed", "failed"}

TypeOK ==
    /\ backend \in Backends /\ invalid \subseteq Unsafe
    /\ numGraphs \in Graphs
    /\ pc \in PCs
    /\ graph \in Graphs
    /\ attempt \in 1..(Retries + 1)
    /\ startFrom \in Nat /\ batchIdx \in Nat /\ pending \in Nat
    /\ tally \in Nat /\ total \in Nat
    /\ checkpoint \in [index : Nat, stage : Stages \cup {"none"}]
    /\ copies \in [Graphs -> [Nodes -> Nat]]
    /\ edges \in [Graphs -> SUBSET Rels]
    /\ faults \in 0..MaxFaults
    /\ resumed \in SUBSET Stages

Init ==
    /\ backend \in Backends /\ invalid \in SUBSET Unsafe /\ numGraphs \in Graphs
    /\ pc = "status" /\ graph = 1 /\ attempt = 1
    /\ startFrom = 0 /\ batchIdx = 0 /\ pending = 0 /\ tally = 0 /\ total = 0
    /\ checkpoint = NoCheckpoint
    /\ copies = [g \in Graphs |-> [k \in Nodes |-> 0]]
    /\ edges = [g \in Graphs |-> {}]
    /\ faults = 0
    /\ resumed = {}

-----------------------------------------------------------------------------
(* Batches *)

\* chunk_list(items[start_from:], checkpoint_size) walked by
\* enumerate(..., start=start_from): the loop's counter starts at start_from,
\* so the batch it numbers batchIdx begins (batchIdx - startFrom) batches in.
BatchStart == startFrom + (batchIdx - startFrom) * BatchSize

\* MUTATIONS of Batch: the last item left out; the first item taken twice.
BatchWithoutLast(items) ==
    {k \in items : BatchStart < k /\ k < BatchStart + BatchSize}
BatchOverlapping(items) ==
    {k \in items : BatchStart <= k /\ k <= BatchStart + BatchSize}

Batch(items) == {k \in items : BatchStart < k /\ k <= BatchStart + BatchSize}

LoopDone(size) == BatchStart >= size

\* MUTATION of AdvancedIndex: the head of the next batch, not of this one.
AdvancedPastWriteHead(n) == (batchIdx + 1) * BatchSize + n

\* The index the task stores after a batch of which n items were processed.
AdvancedIndex(n) == batchIdx * BatchSize + n

\* UNWIND groups are written in the order their first node has in the batch;
\* a group is written whole or not at all and the first failure ends the loop.
GroupPos(batch, k) == Min({i \in batch : Kind[i] = Kind[k]})
GroupsBefore(batch, k) == {i \in batch : GroupPos(batch, i) < GroupPos(batch, k)}

\* What store_nodes can write of a batch: everything valid, or the groups before the one that fails.
Writable(batch) ==
    CASE backend = "memory"   -> batch
      [] backend = "postgres" -> batch \ invalid
      [] backend = "neo4j"    -> IF batch \cap invalid = {} THEN batch ELSE {}

\* The group of k fails: it is not there, or it is and only the answer was lost
\* (or, on Neo4j, the adapter's own checkpoint behind the last group failed).
PartialWrites(batch) ==
    LET W == Writable(batch) IN
    UNION {{GroupsBefore(W, k), {i \in W : GroupPos(W, i) <= GroupPos(W, k)}} : k \in W}

\* CREATE adds a vertex, the in-memory dict replaces the entry of that id.
Created(W) ==
    [copies EXCEPT ![graph] =
        [k \in Nodes |-> IF k \notin W THEN @[k]
                         ELSE IF backend = "memory" THEN 1 ELSE @[k] + 1]]

\* Relationships MATCH both ends: without them no edge appears.
Connectable(R) == {r \in R : \A k \in Ends[r] : copies[graph][k] > 0}

\* items_processed: the in-memory store leaves out what it could not connect,
\* Postgres what it skipped for the type of an end.
Processed(R) ==
    Cardinality(CASE backend = "memory"   -> Connectable(R)
                  [] backend = "postgres" -> {r \in R : Ends[r] \cap invalid = {}}
                  [] backend = "neo4j"    -> R)

-----------------------------------------------------------------------------
(* Failures *)

Fault == backend # "memory" /\ faults < MaxFaults /\ faults' = faults + 1

\* MUTATION of AttemptFails: retries are not counted.
AttemptFailsUncounted ==
    /\ pc' = "status" /\ UNCHANGED attempt
    /\ startFrom' = 0 /\ batchIdx' = 0 /\ pending' = 0 /\ tally' = 0

\* The task raised: Prefect runs it again, or the flow fails with it.
AttemptFails ==
    /\ IF attempt <= Retries
       THEN pc' = "status" /\ attempt' = attempt + 1
       ELSE pc' = "failed" /\ UNCHANGED attempt
    /\ startFrom' = 0 /\ batchIdx' = 0 /\ pending' = 0 /\ tally' = 0

\* Neo4j MERGEs the checkpoint under transform_id and MATCHes it under __tid:
\* what is written there is never read.
Findable == backend # "neo4j"

\* update_checkpoint reports a failed write in its result, which the task ignores.
UpdateCheckpoint(index, stage) ==
    \/ /\ checkpoint' = IF Findable THEN [index |-> index, stage |-> stage] ELSE checkpoint
       /\ UNCHANGED faults
    \/ Fault /\ UNCHANGED checkpoint

-----------------------------------------------------------------------------
(* The task *)

GetStatus ==
    /\ pc = "status"
    /\ pc' = IF checkpoint.stage = "relationships" THEN "rels" ELSE "nodes"
    /\ startFrom' = checkpoint.index
    /\ batchIdx' = checkpoint.index
    /\ resumed' = IF checkpoint.index = 0 THEN resumed
                  ELSE resumed \cup {checkpoint.stage}
    /\ UNCHANGED <<env, flow, attempt, pending, tally, store, faults>>

\* The backend cannot be reached.
GetStatusFails ==
    /\ pc = "status"
    /\ Fault
    /\ AttemptFails
    /\ UNCHANGED <<env, flow, store, resumed>>

StoreNodes ==
    LET batch == Batch(Nodes) W == Writable(batch) IN
    /\ pc = "nodes" /\ ~LoopDone(NumNodes)
    /\ backend = "neo4j" => batch \cap invalid = {}
    /\ copies' = Created(W)
    /\ pending' = Cardinality(W)
    /\ tally' = tally + Cardinality(W)
    /\ pc' = "nodesCheckpoint"
    /\ UNCHANGED <<env, flow, attempt, startFrom, batchIdx, checkpoint, edges, faults, resumed>>

\* store_nodes returned success=False: the task raises StorageError.
StoreNodesFails ==
    LET batch == Batch(Nodes) IN
    /\ pc = "nodes" /\ ~LoopDone(NumNodes)
    /\ \/ /\ backend = "neo4j" /\ batch \cap invalid # {}
          /\ UNCHANGED <<copies, faults>>
       \/ /\ Fault
          /\ \E W \in PartialWrites(batch) : copies' = Created(W)
    /\ AttemptFails
    /\ UNCHANGED <<env, flow, checkpoint, edges, resumed>>

CheckpointNodes ==
    /\ pc = "nodesCheckpoint"
    /\ UpdateCheckpoint(AdvancedIndex(pending), "nodes")
    /\ batchIdx' = batchIdx + 1
    /\ pending' = 0
    /\ pc' = "nodes"
    /\ UNCHANGED <<env, flow, attempt, startFrom, tally, copies, edges, resumed>>

\* The stored index is reset for the relationships; the local start_from is not.
BeginRelationships ==
    /\ pc = "nodes" /\ LoopDone(NumNodes)
    /\ UpdateCheckpoint(0, "relationships")
    /\ batchIdx' = startFrom
    /\ pc' = "rels"
    /\ UNCHANGED <<env, flow, attempt, startFrom, pending, tally, copies, edges, resumed>>

StoreRelationships ==
    LET batch == Batch(Rels) IN
    /\ pc = "rels" /\ ~LoopDone(NumRels)
    /\ edges' = [edges EXCEPT ![graph] = @ \cup Connectable(batch)]
    /\ pending' = Processed(batch)
    /\ tally' = tally + Processed(batch)
    /\ pc' = "relsCheckpoint"
    /\ UNCHANGED <<env, flow, attempt, startFrom, batchIdx, checkpoint, copies, faults, resumed>>

\* Relationships are written in order up to the one that fails, which itself
\* may have been written with only the answer lost.
StoreRelationshipsFails ==
    LET batch == Batch(Rels) IN
    /\ pc = "rels" /\ ~LoopDone(NumRels)
    /\ Fault
    /\ \E k \in batch : \E W \in {{r \in batch : r < k}, {r \in batch : r <= k}} :
          edges' = [edges EXCEPT ![graph] = @ \cup Connectable(W)]
    /\ AttemptFails
    /\ UNCHANGED <<env, flow, checkpoint, copies, resumed>>

CheckpointRelationships ==
    /\ pc = "relsCheckpoint"
    /\ UpdateCheckpoint(AdvancedIndex(pending), "relationships")
    /\ batchIdx' = batchIdx + 1
    /\ pending' = 0
    /\ pc' = "rels"
    /\ UNCHANGED <<env, flow, attempt, startFrom, tally, copies, edges, resumed>>

\* The read-back of the stored data fails, after everything has been written.
VerifyFails ==
    /\ pc = "rels" /\ LoopDone(NumRels)
    /\ Fault
    /\ AttemptFails
    /\ UNCHANGED <<env, flow, store, resumed>>

\* The task returns its result; the flow adds it up and goes on to the next
\* graph, or completes the LOAD stage, or finds that nothing was stored.
ReturnResult ==
    /\ pc = "rels" /\ LoopDone(NumRels)
    /\ total' = total + tally
    /\ IF graph < numGraphs
       THEN graph' = graph + 1 /\ attempt' = 1 /\ pc' = "status"
       ELSE /\ pc' = IF total' = 0 THEN "failed" ELSE "completed"
            /\ UNCHANGED <<graph, attempt>>
    /\ startFrom' = 0 /\ batchIdx' = 0 /\ pending' = 0 /\ tally' = 0
    /\ UNCHANGED <<env, store, faults, resumed>>

\* The flow has returned or raised: nothing is left to do.
Terminated == pc \in {"completed", "failed"} /\ UNCHANGED vars

Next ==
    \/ GetStatus \/ GetStatusFails
    \/ StoreNodes \/ StoreNodesFails \/ CheckpointNodes
    \/ BeginRelationships
    \/ StoreRelationships \/ StoreRelationshipsFails \/ CheckpointRelationships
    \/ VerifyFails \/ ReturnResult
    \/ Terminated

\* Prefect's engine keeps running the task until it returns or runs out of retries.
Spec == Init /\ [][Next]_vars /\ WF_vars(Next)

-----------------------------------------------------------------------------
(* Properties *)

NodeStored(g, k) == copies[g][k] > 0 \/ (k \in invalid /\ backend # "memory")

NodesStored(g) == \A k \in Nodes : NodeStored(g, k)

\* Every relationship whose ends exist has its edge.
EdgesStored(g) == \A r \in Rels : (\A k \in Ends[r] : copies[g][k] > 0) => r \in edges[g]

\* The task has returned its result for graph g.
Returned(g) == g < graph \/ (g = graph /\ pc = "completed")

\* Whatever the checkpoint makes a retry skip is stored.  Holds for the first
\* graph as long as no attempt has begun in the middle of the nodes.
CheckpointBehindWriteHead ==
    (graph = 1 /\ "nodes" \notin resumed) =>
        /\ checkpoint.stage = "nodes" =>
              \A k \in Nodes : k <= checkpoint.index => NodeStored(graph, k)
        /\ checkpoint.stage = "relationships" => NodesStored(graph)

\* Every attempt at graph g so far has begun at the beginning: always on Neo4j,
\* elsewhere for the first graph, until one resumes in the middle of a list.
Fresh(g) == ~Findable \/ (g = 1 /\ resumed = {})

\* A task that returned has stored its graph, unless an attempt resumed in the
\* middle of a list or the checkpoint found was another graph's: partial batches,
\* retries of the batch, lost checkpoint writes and the read-back leave nothing out.
FreshResultIsComplete ==
    \A g \in Graphs : (Returned(g) /\ Fresh(g)) => NodesStored(g) /\ EdgesStored(g)

\* One retry always slices the nodes right, wherever it resumes: none is missing
\* when the attempt comes to the relationships.  From the second resumption on
\* the index it reads is no node index any more.
FirstRetryKeepsNodes ==
    (graph = 1 /\ attempt <= 2 /\ pc \in {"rels", "relsCheckpoint"}) => NodesStored(1)

\* store_nodes runs with merge=False: an attempt creates each node at most
\* once, so a node never has more vertices than there were attempts.
CopiesBoundedByAttempts ==
    \A g \in Graphs, k \in Nodes :
        copies[g][k] <= IF g = graph THEN attempt ELSE Retries + 1

\* The LOAD stage, seen from the flow: a node is stored when it has a vertex.
Load == INSTANCE LoadStage WITH
    MaxAttempts <- Retries + 1,
    asked    <- numGraphs,
    required <- IF backend = "memory" THEN Nodes ELSE Nodes \ invalid,
    nodes    <- [g \in Graphs |-> {k \in Nodes : copies[g][k] > 0}],
    rels     <- edges,
    anew     <- ~Findable,
    astray   <- resumed # {},
    outcome  <- IF pc \in {"completed", "failed"} THEN pc ELSE "running"

\* Batches, checkpoints, partial writes and retries implement the LOAD stage:
\* nothing is taken back or stored without its ends, the first graph is whole
\* unless an attempt resumed and every graph is where none can, a graph is given
\* up after its last attempt only, and the stage ends.
LoadStageImplemented == Load!Spec
=============================================================================
