------------------------- MODULE StorageTaskProofs -------------------------
(***************************************************************************)
(* Proofs about StorageTask, for any number of graphs, nodes and           *)
(* relationships, any batch size, any number of retries and of faults.     *)
(***************************************************************************)
EXTENDS StorageTask, TLAPS, FiniteSetTheorems

-----------------------------------------------------------------------------
(* Batches *)

\* A set of nodes or of relationships has a size.
LEMMA SizesAreNat ==
    /\ \A S \in SUBSET Nodes : Cardinality(S) \in Nat
    /\ \A S \in SUBSET Rels : Cardinality(S) \in Nat
<1>1. IsFiniteSet(Nodes)
  BY SizeAssumption, FS_Interval DEF Nodes
<1>2. IsFiniteSet(Rels)
  BY GraphAssumption, FS_Interval
<1> QED
  BY <1>1, <1>2, FS_Subset, FS_CardinalityType

\* What store_nodes writes of a batch of nodes are nodes of that batch.
LEMMA WritableIsInBatch ==
    ASSUME backend \in Backends, NEW B \in SUBSET Nodes
    PROVE  Writable(B) \subseteq B
BY BackendAssumption DEF Writable

\* What a failing store_nodes can have written is part of that.
LEMMA PartialIsInBatch ==
    ASSUME backend \in Backends, NEW B \in SUBSET Nodes, NEW W \in PartialWrites(B)
    PROVE  W \subseteq B
BY WritableIsInBatch DEF PartialWrites, GroupsBefore

\* Products of naturals, which the provers do not find by themselves.
LEMMA ProductIsNat == \A a, b \in Nat : a * b \in Nat
OBVIOUS

LEMMA BatchTypes ==
    /\ Batch(Nodes) \in SUBSET Nodes
    /\ Batch(Rels) \in SUBSET Rels
BY DEF Batch

-----------------------------------------------------------------------------
(* Types *)

\* An index other than 0 comes with a stage: what GetStatus counts as resumed.
StageOfIndex == checkpoint.stage = "none" => checkpoint.index = 0

\* Where a checkpoint is never found, no attempt resumes.
NeverFound == ~Findable => checkpoint = NoCheckpoint /\ resumed = {}

TypeInv == TypeOK /\ StageOfIndex /\ NeverFound

LEMMA TypeInit == Init => TypeInv
BY SizeAssumption DEF Init, TypeInv, TypeOK, StageOfIndex, NeverFound, NoCheckpoint, Stages, Graphs, PCs

\* The step of a failed attempt leaves the task's own variables well typed.
LEMMA AttemptFailsType ==
    ASSUME TypeInv, AttemptFails
    PROVE  /\ pc' \in PCs /\ attempt' \in 1..(Retries + 1)
           /\ startFrom' \in Nat /\ batchIdx' \in Nat /\ pending' \in Nat /\ tally' \in Nat
BY SizeAssumption DEF TypeInv, TypeOK, AttemptFails, PCs

LEMMA CreatedType ==
    ASSUME TypeInv, NEW W \in SUBSET Nodes
    PROVE  Created(W) \in [Graphs -> [Nodes -> Nat]]
<1> DEFINE New == [k \in Nodes |-> IF k \notin W THEN copies[graph][k]
                     ELSE IF backend = "memory" THEN 1 ELSE copies[graph][k] + 1]
<1>1. New \in [Nodes -> Nat]
  BY DEF TypeInv, TypeOK
<1>2. Created(W) = [copies EXCEPT ![graph] = New]
  BY DEF Created
<1> QED
  BY <1>1, <1>2 DEF TypeInv, TypeOK

CheckpointType ==
    /\ checkpoint \in [index : Nat, stage : Stages \cup {"none"}]
    /\ StageOfIndex
    /\ ~Findable => checkpoint = NoCheckpoint

LEMMA UpdateCheckpointType ==
    ASSUME TypeInv, NEW i \in Nat, NEW s \in Stages, UpdateCheckpoint(i, s), UNCHANGED env
    PROVE  CheckpointType' /\ faults' \in 0..MaxFaults
<1>1. Findable' = Findable
  BY DEF Findable, env
<1>2. faults' \in 0..MaxFaults
  BY SizeAssumption DEF TypeInv, TypeOK, UpdateCheckpoint, Fault
<1>3. CASE checkpoint' = checkpoint
  BY <1>1, <1>2, <1>3 DEF TypeInv, TypeOK, CheckpointType, StageOfIndex, NeverFound
<1>4. CASE Findable /\ checkpoint' = [index |-> i, stage |-> s]
  BY <1>1, <1>2, <1>4 DEF TypeInv, TypeOK, CheckpointType, StageOfIndex, Stages
<1> QED
  BY <1>2, <1>3, <1>4 DEF UpdateCheckpoint

LEMMA TypeNext == TypeInv /\ [Next]_vars => TypeInv'
<1> SUFFICES ASSUME TypeInv, [Next]_vars
             PROVE  TypeInv'
  OBVIOUS
<1> USE DEF TypeInv
<1>1. CASE GetStatus
  <2>1. checkpoint.index # 0 => checkpoint.stage \in Stages
    BY DEF TypeOK, StageOfIndex, Stages
  <2>2. resumed' \in SUBSET Stages /\ checkpoint.index \in Nat
    BY <1>1, <2>1 DEF GetStatus, TypeOK
  <2>3. NeverFound'
    BY <1>1 DEF GetStatus, NeverFound, NoCheckpoint, Findable, env, store
  <2> QED
    BY <1>1, <2>2, <2>3 DEF GetStatus, TypeOK, StageOfIndex, PCs, env, flow, store
<1>2. CASE GetStatusFails
  <2>1. faults' \in 0..MaxFaults
    BY <1>2, SizeAssumption DEF GetStatusFails, Fault, TypeOK
  <2> QED
    BY <1>2, <2>1, AttemptFailsType
    DEF GetStatusFails, TypeOK, StageOfIndex, NeverFound, Findable, env, flow, store
<1>3. CASE StoreNodes
  <2> DEFINE W == Writable(Batch(Nodes))
  <2>1. W \in SUBSET Nodes
    BY BatchTypes, WritableIsInBatch DEF TypeOK
  <2>2. Cardinality(W) \in Nat
    BY <2>1, SizesAreNat
  <2>3. copies' \in [Graphs -> [Nodes -> Nat]]
    BY <1>3, <2>1, CreatedType DEF StoreNodes
  <2>4. CheckpointType'
    BY <1>3 DEF StoreNodes, TypeOK, CheckpointType, StageOfIndex, NeverFound, Findable, env
  <2>5. pending' \in Nat /\ tally' \in Nat
    BY <1>3, <2>2 DEF StoreNodes, TypeOK
  <2> QED
    BY <1>3, <2>3, <2>4, <2>5
    DEF StoreNodes, TypeOK, CheckpointType, NeverFound, Findable, PCs, env, flow
<1>4. CASE StoreNodesFails
  <2> DEFINE B == Batch(Nodes)
  <2>1. \A W \in PartialWrites(B) : W \in SUBSET Nodes
    BY BatchTypes, PartialIsInBatch DEF TypeOK
  <2>2. copies' \in [Graphs -> [Nodes -> Nat]] /\ faults' \in 0..MaxFaults
    <3>1. CASE UNCHANGED <<copies, faults>>
      BY <3>1 DEF TypeOK
    <3>2. CASE Fault /\ \E W \in PartialWrites(B) : copies' = Created(W)
      BY <3>2, <2>1, CreatedType, SizeAssumption DEF Fault, TypeOK
    <3> QED
      BY <1>4, <3>1, <3>2 DEF StoreNodesFails
  <2> QED
    BY <1>4, <2>2, AttemptFailsType
    DEF StoreNodesFails, TypeOK, StageOfIndex, NeverFound, Findable, env, flow
<1>5. CASE CheckpointNodes
  <2>1. AdvancedIndex(pending) \in Nat
    <3>1. batchIdx * BatchSize \in Nat
      BY ProductIsNat, SizeAssumption DEF TypeOK
    <3> QED
      BY <3>1 DEF AdvancedIndex, TypeOK
  <2>2. CheckpointType' /\ faults' \in 0..MaxFaults
    BY <1>5, <2>1, UpdateCheckpointType DEF CheckpointNodes, Stages
  <2> QED
    BY <1>5, <2>2 DEF CheckpointNodes, TypeOK, CheckpointType, NeverFound, Findable, PCs, env, flow
<1>6. CASE BeginRelationships
  <2>1. CheckpointType' /\ faults' \in 0..MaxFaults
    BY <1>6, UpdateCheckpointType DEF BeginRelationships, Stages
  <2> QED
    BY <1>6, <2>1 DEF BeginRelationships, TypeOK, CheckpointType, NeverFound, Findable, PCs, env, flow
<1>7. CASE StoreRelationships
  <2> DEFINE B == Batch(Rels)
  <2>1. Connectable(B) \in SUBSET Rels /\ Processed(B) \in Nat
    <3>1. B \in SUBSET Rels /\ Connectable(B) \in SUBSET Rels
      BY BatchTypes DEF Connectable
    <3>2. {r \in B : Ends[r] \cap invalid = {}} \in SUBSET Rels
      BY <3>1
    <3>3. backend \in {"memory", "postgres", "neo4j"}
      BY BackendAssumption DEF TypeOK
    <3> HIDE DEF B
    <3> QED
      BY <3>1, <3>2, <3>3, SizesAreNat DEF Processed
  <2>2. CheckpointType'
    BY <1>7 DEF StoreRelationships, TypeOK, CheckpointType, StageOfIndex, NeverFound, Findable, env
  <2>3. edges' \in [Graphs -> SUBSET Rels]
    BY <1>7, <2>1 DEF StoreRelationships, TypeOK
  <2> QED
    BY <1>7, <2>1, <2>2, <2>3 DEF StoreRelationships, TypeOK, CheckpointType, NeverFound, Findable, PCs, env, flow
<1>8. CASE StoreRelationshipsFails
  <2> DEFINE B == Batch(Rels)
  <2>1. \A W \in SUBSET B : Connectable(W) \in SUBSET Rels
    BY BatchTypes DEF Connectable
  <2>2. faults' \in 0..MaxFaults
    BY <1>8, SizeAssumption DEF StoreRelationshipsFails, Fault, TypeOK
  <2>3. PICK W \in SUBSET B : edges' = [edges EXCEPT ![graph] = @ \cup Connectable(W)]
    BY <1>8 DEF StoreRelationshipsFails
  <2>4. edges' \in [Graphs -> SUBSET Rels]
    BY <2>1, <2>3 DEF TypeOK
  <2> QED
    BY <1>8, <2>2, <2>4, AttemptFailsType
    DEF StoreRelationshipsFails, TypeOK, StageOfIndex, NeverFound, Findable, env, flow
<1>9. CASE CheckpointRelationships
  <2>1. AdvancedIndex(pending) \in Nat
    <3>1. batchIdx * BatchSize \in Nat
      BY ProductIsNat, SizeAssumption DEF TypeOK
    <3> QED
      BY <3>1 DEF AdvancedIndex, TypeOK
  <2>2. CheckpointType' /\ faults' \in 0..MaxFaults
    BY <1>9, <2>1, UpdateCheckpointType DEF CheckpointRelationships, Stages
  <2> QED
    BY <1>9, <2>2 DEF CheckpointRelationships, TypeOK, CheckpointType, NeverFound, Findable,
                          PCs, env, flow
<1>10. CASE VerifyFails
  <2>1. faults' \in 0..MaxFaults
    BY <1>10, SizeAssumption DEF VerifyFails, Fault, TypeOK
  <2> QED
    BY <1>10, <2>1, AttemptFailsType DEF VerifyFails, TypeOK, StageOfIndex, NeverFound, Findable, env, flow, store
<1>11. CASE ReturnResult
  BY <1>11, SizeAssumption DEF ReturnResult, TypeOK, StageOfIndex, NeverFound, Findable, Graphs, PCs,
                                   env, store
<1>12. CASE UNCHANGED vars
  BY <1>12 DEF vars, env, flow, task, store, TypeOK, StageOfIndex, NeverFound, Findable
<1> QED
  BY <1>1, <1>2, <1>3, <1>4, <1>5, <1>6, <1>7, <1>8, <1>9, <1>10, <1>11, <1>12
  DEF Next, Terminated

\* The variables always hold values of their types, on every backend and
\* through every failure of store_knowledge_graph.
THEOREM TypeCorrect == Spec => []TypeOK
<1>1. Spec => []TypeInv
  BY TypeInit, TypeNext, PTL DEF Spec
<1> QED
  BY <1>1, PTL DEF TypeInv

-----------------------------------------------------------------------------
(* Copies *)

\* The batches of one loop follow one another without a gap or an overlap.
LEMMA BatchStartAdvances ==
    ASSUME TypeOK, TypeOK'
    PROVE  /\ BatchStart \in Int
           /\ batchIdx = startFrom => BatchStart = startFrom
           /\ (batchIdx' = batchIdx + 1 /\ startFrom' = startFrom) =>
                 BatchStart' = BatchStart + BatchSize
<1>1. \A a, b \in Int : a * b \in Int /\ (a + 1) * b = a * b + b /\ 0 * b = 0
  OBVIOUS
<1>2. /\ batchIdx - startFrom \in Int /\ BatchSize \in Int
      /\ startFrom \in Int /\ batchIdx \in Int
  BY SizeAssumption DEF TypeOK
<1>3. (batchIdx - startFrom) * BatchSize \in Int
  BY <1>1, <1>2
<1>4. BatchStart \in Int
  BY <1>2, <1>3 DEF BatchStart
<1>5. ASSUME batchIdx = startFrom
      PROVE  BatchStart = startFrom
  <2>1. batchIdx - startFrom = 0
    BY <1>2, <1>5
  <2>2. (batchIdx - startFrom) * BatchSize = 0
    BY <2>1, <1>1, <1>2
  <2> QED
    BY <2>2, <1>2 DEF BatchStart
<1>6. ASSUME batchIdx' = batchIdx + 1, startFrom' = startFrom
      PROVE  BatchStart' = BatchStart + BatchSize
  <2>1. batchIdx' - startFrom' = (batchIdx - startFrom) + 1
    BY <1>2, <1>6
  <2>2. (batchIdx' - startFrom') * BatchSize = (batchIdx - startFrom) * BatchSize + BatchSize
    BY <2>1, <1>1, <1>2
  <2> QED
    BY <2>2, <1>2, <1>3, <1>6 DEF BatchStart
<1> QED
  BY <1>4, <1>5, <1>6

\* A node that the present attempt has not come to yet.
Unwritten(k) ==
    \/ pc = "status"
    \/ pc = "nodes" /\ BatchStart < k
    \/ pc = "nodesCheckpoint" /\ BatchStart + BatchSize < k

\* The strengthening of CopiesBoundedByAttempts: no copy at all in a later
\* graph, and one copy of slack for each node still to be written.
CopiesInv ==
    \A g \in Graphs, k \in Nodes :
        /\ g > graph => copies[g][k] = 0
        /\ g < graph => copies[g][k] <= Retries + 1
        /\ g = graph => /\ copies[g][k] <= attempt
                        /\ Unwritten(k) => copies[g][k] <= attempt - 1

LEMMA CopiesInit == Init => CopiesInv
BY SizeAssumption DEF Init, CopiesInv, Graphs

\* Writing nodes of the batch at the write head uses up their slack and no more.
LEMMA CreatedBound ==
    ASSUME TypeOK, CopiesInv, pc = "nodes",
           NEW W \in SUBSET Batch(Nodes),
           copies' = Created(W)
    PROVE  \A g \in Graphs, k \in Nodes :
              /\ g # graph => copies'[g][k] = copies[g][k]
              /\ copies'[graph][k] <= attempt
              /\ k \notin W => copies'[graph][k] = copies[graph][k]
<1>1. ASSUME NEW k \in Nodes, k \in W
      PROVE  BatchStart < k
  BY <1>1 DEF Batch
<1>2. ASSUME NEW k \in Nodes, k \in W
      PROVE  copies[graph][k] <= attempt - 1
  BY <1>1, <1>2 DEF CopiesInv, Unwritten, TypeOK
<1>3. \A k \in Nodes : copies'[graph][k] =
         IF k \notin W THEN copies[graph][k]
         ELSE IF backend = "memory" THEN 1 ELSE copies[graph][k] + 1
  BY DEF Created, TypeOK
<1>4. \A g \in Graphs : g # graph => copies'[g] = copies[g]
  BY DEF Created, TypeOK
<1>5. attempt \in Nat /\ attempt >= 1 /\ \A k \in Nodes : copies[graph][k] \in Nat
  BY SizeAssumption DEF TypeOK
<1>6. \A k \in Nodes : copies[graph][k] <= attempt
  BY DEF CopiesInv, TypeOK
<1> QED
  BY <1>2, <1>3, <1>4, <1>5, <1>6

\* A step that writes the present graph only leaves the others as they were.
LEMMA OtherGraphs ==
    ASSUME TypeOK, CopiesInv,
           \A g \in Graphs, k \in Nodes : g # graph => copies'[g][k] = copies[g][k]
    PROVE  \A g \in Graphs, k \in Nodes :
              /\ g > graph => copies'[g][k] = 0
              /\ g < graph => copies'[g][k] <= Retries + 1
<1>1. ASSUME NEW g \in Graphs, NEW k \in Nodes
      PROVE  /\ g > graph => copies'[g][k] = 0
             /\ g < graph => copies'[g][k] <= Retries + 1
  <2>1. g \in Nat /\ graph \in Nat
    BY DEF TypeOK, Graphs
  <2>2. g > graph \/ g < graph => g # graph
    BY <2>1
  <2> QED
    BY <2>2 DEF CopiesInv
<1> QED
  BY <1>1

\* A failed attempt leaves one copy of slack to the next one.
LEMMA AttemptFailsBound ==
    ASSUME TypeOK, TypeOK', CopiesInv, AttemptFails, graph' = graph,
           \A g \in Graphs, k \in Nodes :
              /\ g # graph => copies'[g][k] = copies[g][k]
              /\ copies'[graph][k] <= attempt
    PROVE  CopiesInv'
<1>1. graph \in Graphs /\ attempt \in Nat /\ Graphs \subseteq Nat
  BY SizeAssumption DEF TypeOK, Graphs
<1>2. CASE pc' = "status" /\ attempt' = attempt + 1
  <2>1. \A k \in Nodes : copies'[graph][k] \in Int /\ copies'[graph][k] <= attempt' - 1
    BY <1>1, <1>2 DEF TypeOK
  <2>2. \A k \in Nodes : copies'[graph][k] <= attempt'
    BY <1>1, <1>2, <2>1
  <2>3. \A g \in Graphs, k \in Nodes :
           /\ g > graph => copies'[g][k] = 0
           /\ g < graph => copies'[g][k] <= Retries + 1
    BY OtherGraphs
  <2> QED
    BY <1>2, <2>1, <2>2, <2>3 DEF CopiesInv
<1>3. CASE pc' = "failed" /\ attempt' = attempt
  <2>1. \A k \in Nodes : ~Unwritten(k)'
    BY <1>3 DEF Unwritten
  <2>2. \A g \in Graphs, k \in Nodes :
           /\ g > graph => copies'[g][k] = 0
           /\ g < graph => copies'[g][k] <= Retries + 1
           /\ g = graph => copies'[g][k] <= attempt
    BY OtherGraphs
  <2> QED
    BY <1>3, <2>1, <2>2 DEF CopiesInv
<1> QED
  BY <1>2, <1>3 DEF AttemptFails

LEMMA CopiesNext == TypeInv /\ TypeInv' /\ CopiesInv /\ [Next]_vars => CopiesInv'
<1> SUFFICES ASSUME TypeInv, TypeInv', CopiesInv, [Next]_vars
             PROVE  CopiesInv'
  OBVIOUS
<1>b. Graphs \subseteq Nat /\ Nodes \subseteq Int
  BY DEF Graphs, Nodes
<1>c. attempt \in Nat /\ attempt <= Retries + 1
  BY SizeAssumption DEF TypeInv, TypeOK
<1>0. /\ TypeOK /\ TypeOK' /\ graph \in Graphs /\ Graphs \subseteq Nat /\ Nodes \subseteq Int
      /\ attempt \in Nat /\ attempt <= Retries + 1 /\ Retries \in Nat /\ BatchSize \in Nat
  BY <1>b, <1>c, SizeAssumption DEF TypeInv, TypeOK
<1>a. BatchStart \in Int
  BY <1>0, BatchStartAdvances
<1>1. CASE GetStatus
  BY <1>1, <1>0 DEF GetStatus, CopiesInv, Unwritten, env, flow, store
<1>2. CASE GetStatusFails
  BY <1>2, <1>0, AttemptFailsBound DEF GetStatusFails, CopiesInv, flow, store
<1>3. CASE StoreNodes
  <2> DEFINE W == Writable(Batch(Nodes))
  <2>1. W \in SUBSET Batch(Nodes)
    BY <1>0, BatchTypes, WritableIsInBatch DEF TypeOK
  <2>2. \A g \in Graphs, k \in Nodes :
          /\ g # graph => copies'[g][k] = copies[g][k]
          /\ copies'[graph][k] <= attempt
          /\ k \notin W => copies'[graph][k] = copies[graph][k]
    BY <1>3, <1>0, <2>1, CreatedBound DEF StoreNodes
  <2>3. /\ pc = "nodes" /\ pc' = "nodesCheckpoint" /\ graph' = graph /\ attempt' = attempt
        /\ BatchStart' = BatchStart
    BY <1>3 DEF StoreNodes, flow, BatchStart
  <2>4. ASSUME NEW k \in Nodes, Unwritten(k)'
        PROVE  copies'[graph][k] <= attempt - 1
    <3>1. BatchStart + BatchSize < k
      BY <2>3, <2>4 DEF Unwritten
    <3>2. k \notin W
      BY <3>1, <2>1, <1>0, <1>a DEF Batch
    <3>3. BatchStart < k
      BY <3>1, <1>0, <1>a
    <3> QED
      BY <3>2, <3>3, <2>2, <2>3, <1>0 DEF CopiesInv, Unwritten
  <2>5. \A g \in Graphs, k \in Nodes :
           /\ g > graph => copies'[g][k] = 0
           /\ g < graph => copies'[g][k] <= Retries + 1
           /\ g = graph => copies'[g][k] <= attempt
    BY <2>2, <1>0, OtherGraphs
  <2> QED
    BY <2>3, <2>4, <2>5 DEF CopiesInv
<1>4. CASE StoreNodesFails
  <2>1. PICK W \in SUBSET Batch(Nodes) : copies' = Created(W) \/ copies' = copies
    BY <1>4, <1>0, BatchTypes, PartialIsInBatch DEF StoreNodesFails, TypeOK
  <2>2. \A g \in Graphs, k \in Nodes :
          /\ g # graph => copies'[g][k] = copies[g][k]
          /\ copies'[graph][k] <= attempt
    BY <1>4, <1>0, <2>1, CreatedBound DEF StoreNodesFails, CopiesInv
  <2> QED
    BY <1>4, <1>0, <2>2, AttemptFailsBound DEF StoreNodesFails, flow
<1>5. CASE CheckpointNodes
  <2>1. BatchStart' = BatchStart + BatchSize
    BY <1>5, <1>0, BatchStartAdvances DEF CheckpointNodes
  <2> QED
    BY <1>5, <1>0, <2>1 DEF CheckpointNodes, CopiesInv, Unwritten, flow
<1>6. CASE BeginRelationships
  BY <1>6 DEF BeginRelationships, CopiesInv, Unwritten, flow
<1>7. CASE StoreRelationships
  BY <1>7 DEF StoreRelationships, CopiesInv, Unwritten, flow
<1>8. CASE StoreRelationshipsFails
  BY <1>8, <1>0, AttemptFailsBound DEF StoreRelationshipsFails, CopiesInv, flow
<1>9. CASE CheckpointRelationships
  BY <1>9 DEF CheckpointRelationships, CopiesInv, Unwritten, flow
<1>10. CASE VerifyFails
  BY <1>10, <1>0, AttemptFailsBound DEF VerifyFails, CopiesInv, flow, store
<1>11. CASE ReturnResult
  <2>1. CASE graph < numGraphs
    <3>1. graph' = graph + 1 /\ attempt' = 1 /\ copies' = copies
      BY <1>11, <2>1 DEF ReturnResult, store
    <3>2. ASSUME NEW g \in Graphs, NEW k \in Nodes
          PROVE  /\ g > graph + 1 => copies[g][k] = 0
                 /\ g < graph + 1 => copies[g][k] <= Retries + 1
                 /\ g = graph + 1 => copies[g][k] = 0
      <4>1. g \in Nat /\ graph \in Nat /\ copies[g][k] \in Nat
        BY <1>0 DEF TypeOK
      <4>2. g = graph => copies[g][k] <= attempt
        BY DEF CopiesInv
      <4> QED
        BY <4>1, <4>2, <1>0 DEF CopiesInv
    <3> QED
      BY <3>1, <3>2 DEF CopiesInv
  <2>2. CASE ~(graph < numGraphs)
    BY <1>11, <2>2 DEF ReturnResult, CopiesInv, Unwritten, flow, store
  <2> QED
    BY <2>1, <2>2
<1>12. CASE UNCHANGED vars
  BY <1>12 DEF vars, env, flow, task, store, CopiesInv, Unwritten, BatchStart
<1> QED
  BY <1>1, <1>2, <1>3, <1>4, <1>5, <1>6, <1>7, <1>8, <1>9, <1>10, <1>11, <1>12
  DEF Next, Terminated

\* However often store_knowledge_graph is retried and wherever it resumes, no
\* attempt creates a node twice: store_nodes' CREATEs never make more vertices of
\* a node than there were attempts at its graph.
THEOREM CopiesBounded == Spec => []CopiesBoundedByAttempts
<1>1. TypeInv /\ CopiesInv => CopiesBoundedByAttempts
  <2> SUFFICES ASSUME TypeInv, CopiesInv, NEW g \in Graphs, NEW k \in Nodes
               PROVE  copies[g][k] <= IF g = graph THEN attempt ELSE Retries + 1
    BY DEF CopiesBoundedByAttempts
  <2>1. graph \in Nat /\ g \in Nat /\ Retries \in Nat
    BY SizeAssumption DEF TypeInv, TypeOK, Graphs
  <2> QED
    BY <2>1 DEF CopiesInv
<1>2. Spec => [](TypeInv /\ CopiesInv)
  BY TypeInit, TypeNext, CopiesInit, CopiesNext, PTL DEF Spec
<1> QED
  BY <1>1, <1>2, PTL

-----------------------------------------------------------------------------
(* The write head *)

\* The nodes with an index below i, Python's nodes[:i], are stored.
StoredUpTo(i) == \A k \in Nodes : k <= i => NodeStored(graph, k)

\* No attempt at the present graph has begun in the middle of its nodes.
NodesFresh == (graph = 1 \/ ~Findable) /\ "nodes" \notin resumed

\* The strengthening of CheckpointBehindWriteHead: how far the attempt itself
\* has stored the nodes, and that its batches are counted from index 0.
HeadInv ==
    NodesFresh =>
        /\ pc \in {"nodes", "nodesCheckpoint"} => startFrom = 0
        /\ pc = "nodes" => StoredUpTo(BatchStart)
        /\ pc = "nodesCheckpoint" => StoredUpTo(BatchStart + BatchSize) /\ pending <= BatchSize
        /\ pc \in {"rels", "relsCheckpoint"} => NodesStored(graph)
        /\ checkpoint.stage = "nodes" => StoredUpTo(checkpoint.index)
        /\ checkpoint.stage = "relationships" => NodesStored(graph)

\* What store_nodes writes stays written, and all of W is.
LEMMA CreatedStores ==
    ASSUME TypeOK, NEW W \in SUBSET Nodes, copies' = Created(W),
           graph' = graph, UNCHANGED env, NEW k \in Nodes
    PROVE  /\ NodeStored(graph, k) => NodeStored(graph, k)'
           /\ k \in W => NodeStored(graph, k)'
<1>1. copies'[graph][k] = IF k \notin W THEN copies[graph][k]
                          ELSE IF backend = "memory" THEN 1 ELSE copies[graph][k] + 1
  BY DEF Created, TypeOK
<1>2. copies[graph][k] \in Nat
  BY DEF TypeOK
<1> QED
  BY <1>1, <1>2 DEF NodeStored, env

\* A batch has no more nodes than STORAGE_BATCH_SIZE.
LEMMA BatchIsBounded ==
    ASSUME BatchStart \in Int, NEW W \in SUBSET Batch(Nodes)
    PROVE  Cardinality(W) <= BatchSize
<1> DEFINE I == (BatchStart + 1)..(BatchStart + BatchSize)
<1>1. IsFiniteSet(I) /\ Cardinality(I) = BatchSize
  BY FS_Interval, SizeAssumption
<1>2. W \subseteq I
  BY SizeAssumption DEF Batch, Nodes
<1> HIDE DEF I
<1>3. Cardinality(W) <= Cardinality(I)
  BY <1>1, <1>2, FS_Subset
<1> QED
  BY <1>1, <1>3

\* When the attempt began at index 0, the batches start at multiples of the
\* batch size.
LEMMA BatchStartFromZero ==
    ASSUME TypeOK, startFrom = 0
    PROVE  BatchStart = batchIdx * BatchSize /\ BatchStart \in Nat
<1>1. \A a, b \in Nat : a * b \in Nat
  BY ProductIsNat
<1>2. batchIdx \in Nat /\ BatchSize \in Nat \ {0}
  BY SizeAssumption DEF TypeOK
<1>3. batchIdx - startFrom = batchIdx
  BY <1>2
<1>4. BatchStart = batchIdx * BatchSize
  <2>1. batchIdx * BatchSize \in Nat
    BY <1>1, <1>2
  <2>2. BatchStart = 0 + batchIdx * BatchSize
    BY <1>3 DEF BatchStart
  <2> QED
    BY <2>1, <2>2
<1> QED
  BY <1>1, <1>2, <1>4

LEMMA HeadInit == Init => HeadInv
BY DEF Init, HeadInv, NoCheckpoint

LEMMA HeadNext == TypeInv /\ TypeInv' /\ HeadInv /\ [Next]_vars => HeadInv'
<1> DEFINE Watched == NodesFresh
           Checkpointed == /\ checkpoint.stage = "nodes" => StoredUpTo(checkpoint.index)
                           /\ checkpoint.stage = "relationships" => NodesStored(graph)
<1> SUFFICES ASSUME TypeInv, TypeInv', HeadInv, [Next]_vars, Watched'
             PROVE  HeadInv'
  BY DEF HeadInv
<1>0. TypeOK /\ TypeOK' /\ BatchSize \in Nat \ {0} /\ Nodes \subseteq Nat
  BY SizeAssumption DEF TypeInv, Nodes
<1>a. graph \in Nat /\ graph > 0
  BY <1>0 DEF TypeOK, Graphs
<1>b. UNCHANGED <<env, graph, resumed>> => Watched
  BY DEF NodesFresh, Findable, env
\* A step that only moves the control, or fails before it wrote anything.
<1>c. ASSUME Watched, UNCHANGED <<env, graph, checkpoint, copies>>
      PROVE  /\ Checkpointed'
             /\ NodesStored(graph) => NodesStored(graph)'
             /\ \A i : StoredUpTo(i) => StoredUpTo(i)'
  BY <1>c DEF HeadInv, NodesStored, StoredUpTo, NodeStored, env
<1>1. CASE GetStatus
  <2>1. UNCHANGED <<env, graph, checkpoint, copies>> /\ resumed \subseteq resumed'
    BY <1>1 DEF GetStatus, flow, store
  <2>2. Watched /\ Checkpointed'
    BY <2>1, <1>c DEF NodesFresh, Findable, env
  <2>3. CASE checkpoint.stage = "relationships"
    <3>1. NodesStored(graph)' /\ pc' = "rels"
      BY <1>1, <2>1, <2>2, <2>3 DEF GetStatus
    <3> QED
      BY <2>2, <3>1 DEF HeadInv
  <2>4. CASE checkpoint.stage # "relationships"
    <3>1. /\ checkpoint.index = 0 /\ pc' = "nodes"
          /\ startFrom' = 0 /\ batchIdx' = 0
      BY <1>1, <2>2, <2>4 DEF GetStatus, TypeInv, TypeOK, Stages, StageOfIndex, NodesFresh
    <3>2. BatchStart' = 0
      <4>1. BatchStart' = 0 + (0 - 0) * BatchSize
        BY <3>1 DEF BatchStart
      <4>2. 0 - 0 = 0 /\ 0 * BatchSize = 0
        BY <1>0
      <4> QED
        BY <4>1, <4>2
    <3>3. StoredUpTo(BatchStart)'
      BY <3>2, <1>0 DEF StoredUpTo, Nodes
    <3> QED
      BY <2>2, <3>1, <3>3 DEF HeadInv
  <2> QED
    BY <2>3, <2>4
<1>2. CASE GetStatusFails
  <2>1. /\ UNCHANGED <<env, graph, checkpoint, copies, resumed>>
        /\ pc' \in {"status", "failed"}
    BY <1>2 DEF GetStatusFails, AttemptFails, flow, store
  <2> QED
    BY <2>1, <1>b, <1>c DEF HeadInv
<1>3. CASE StoreNodes
  <2> DEFINE W == Writable(Batch(Nodes))
  <2>1. W \in SUBSET Nodes /\ W \in SUBSET Batch(Nodes)
    BY <1>0, BatchTypes, WritableIsInBatch DEF TypeOK
  <2>2. /\ UNCHANGED env /\ UNCHANGED <<graph, startFrom, batchIdx, resumed>>
        /\ pc = "nodes" /\ pc' = "nodesCheckpoint" /\ copies' = Created(W)
        /\ pending' = Cardinality(W) /\ checkpoint' = checkpoint
        /\ backend = "neo4j" => Batch(Nodes) \cap invalid = {}
    BY <1>3 DEF StoreNodes, flow
  <2>3. Watched /\ startFrom = 0 /\ StoredUpTo(BatchStart) /\ BatchStart' = BatchStart
    BY <2>2, <1>b DEF HeadInv, BatchStart
  <2>4. \A k \in Nodes : /\ NodeStored(graph, k) => NodeStored(graph, k)'
                         /\ k \in W => NodeStored(graph, k)'
    BY <2>1, <2>2, <1>0, CreatedStores
  <2>5. \A k \in Batch(Nodes) : NodeStored(graph, k)'
    <3>1. \A k \in Batch(Nodes) \ W : backend # "memory" /\ k \in invalid
      BY <2>2, BackendAssumption, <1>0 DEF Writable, TypeOK
    <3> QED
      BY <3>1, <2>2, <2>4, BatchTypes DEF NodeStored, env
  <2>6. BatchStart \in Nat
    BY <2>3, <1>0, BatchStartFromZero
  <2>7. \A k \in Nodes : k <= BatchStart => NodeStored(graph, k)'
    BY <2>3, <2>4 DEF StoredUpTo
  <2>8. StoredUpTo(BatchStart + BatchSize)'
    <3>1. ASSUME NEW k \in Nodes, k <= BatchStart + BatchSize
          PROVE  NodeStored(graph, k)'
      <4>1. k <= BatchStart \/ k \in Batch(Nodes)
        BY <3>1, <2>6, <1>0 DEF Batch
      <4> QED
        BY <4>1, <2>5, <2>7
    <3> QED
      BY <3>1, <2>3 DEF StoredUpTo
  <2>9. pending' <= BatchSize
    BY <2>1, <2>2, <2>6, BatchIsBounded
  <2>10. Checkpointed'
    BY <2>2, <2>3, <2>4 DEF HeadInv, NodesStored, StoredUpTo
  <2> QED
    BY <2>2, <2>3, <2>8, <2>9, <2>10 DEF HeadInv
<1>4. CASE StoreNodesFails
  <2>1. /\ UNCHANGED env /\ UNCHANGED <<graph, resumed>>
        /\ pc = "nodes" /\ pc' \in {"status", "failed"}
    BY <1>4 DEF StoreNodesFails, AttemptFails, flow
  <2>2. Watched /\ startFrom = 0 /\ StoredUpTo(BatchStart)
    BY <2>1, <1>b DEF HeadInv
  <2>4. \A V \in PartialWrites(Batch(Nodes)) : V \in SUBSET Nodes
    BY <1>0, BatchTypes, PartialIsInBatch DEF TypeOK
  <2>5. \A k \in Nodes : NodeStored(graph, k) => NodeStored(graph, k)'
    <3>1. CASE copies' = copies
      BY <3>1, <2>1 DEF NodeStored, env
    <3>2. CASE \E V \in SUBSET Nodes : copies' = Created(V)
      BY <3>2, <2>1, <1>0, CreatedStores
    <3> QED
      BY <1>4, <2>4, <3>1, <3>2 DEF StoreNodesFails
  <2>6. Checkpointed'
    BY <1>4, <2>1, <2>2, <2>5 DEF StoreNodesFails, HeadInv, NodesStored, StoredUpTo
  <2> QED
    BY <2>1, <2>6 DEF HeadInv
<1>5. CASE CheckpointNodes
  <2>1. /\ UNCHANGED env /\ UNCHANGED <<graph, resumed, startFrom, copies>>
        /\ pc = "nodesCheckpoint" /\ pc' = "nodes" /\ batchIdx' = batchIdx + 1
        /\ checkpoint' = [index |-> AdvancedIndex(pending), stage |-> "nodes"]
           \/ checkpoint' = checkpoint
    BY <1>5 DEF CheckpointNodes, UpdateCheckpoint, flow
  <2>2. /\ Watched /\ startFrom = 0 /\ pending <= BatchSize
        /\ StoredUpTo(BatchStart + BatchSize)
    BY <2>1, <1>b DEF HeadInv
  <2>3. /\ BatchStart \in Nat /\ BatchStart = batchIdx * BatchSize
        /\ BatchStart' = BatchStart + BatchSize
    BY <2>1, <2>2, <1>0, BatchStartFromZero, BatchStartAdvances
  <2>4. \A k \in Nodes : k <= BatchStart + BatchSize => NodeStored(graph, k)'
    BY <2>1, <2>2 DEF StoredUpTo, NodeStored, env
  <2>5. StoredUpTo(BatchStart)'
    BY <2>3, <2>4 DEF StoredUpTo
  <2>6. Checkpointed'
    <3>1. CASE checkpoint' = checkpoint
      BY <3>1, <2>1, <2>2, <1>c
    <3>2. CASE checkpoint' = [index |-> AdvancedIndex(pending), stage |-> "nodes"]
      <4>1. AdvancedIndex(pending) <= BatchStart + BatchSize
        BY <2>2, <2>3, <1>0 DEF AdvancedIndex, TypeOK
      <4>2. AdvancedIndex(pending) \in Int
        BY <2>3, <1>0 DEF AdvancedIndex, TypeOK
      <4>3. \A k \in Nodes : k <= AdvancedIndex(pending) => k <= BatchStart + BatchSize
        BY <4>1, <4>2, <2>3, <1>0
      <4> QED
        BY <3>2, <4>3, <2>4 DEF StoredUpTo
    <3> QED
      BY <2>1, <3>1, <3>2
  <2> QED
    BY <2>1, <2>2, <2>5, <2>6 DEF HeadInv
<1>6. CASE BeginRelationships
  <2>1. /\ UNCHANGED env /\ UNCHANGED <<graph, resumed, copies>>
        /\ pc = "nodes" /\ pc' = "rels" /\ BatchStart >= NumNodes
        /\ checkpoint' = [index |-> 0, stage |-> "relationships"] \/ checkpoint' = checkpoint
    BY <1>6 DEF BeginRelationships, LoopDone, UpdateCheckpoint, flow
  <2>2. Watched /\ StoredUpTo(BatchStart)
    BY <2>1, <1>b DEF HeadInv
  <2>3. \A k \in Nodes : k <= BatchStart
    BY <2>1, <1>0, BatchStartAdvances, SizeAssumption DEF Nodes
  <2>4. NodesStored(graph)'
    BY <2>1, <2>2, <2>3 DEF NodesStored, StoredUpTo, NodeStored, env
  <2>5. Checkpointed'
    <3>1. CASE checkpoint' = checkpoint
      BY <3>1, <2>1, <2>2, <1>c
    <3>2. CASE checkpoint' = [index |-> 0, stage |-> "relationships"]
      BY <3>2, <2>4
    <3> QED
      BY <2>1, <3>1, <3>2
  <2> QED
    BY <2>1, <2>4, <2>5 DEF HeadInv
\* With all the nodes stored, no checkpoint of the relationships can be wrong.
<1>d. ASSUME UNCHANGED <<env, graph, resumed, copies>>,
             pc \in {"rels", "relsCheckpoint"},
             pc' \notin {"nodes", "nodesCheckpoint"},
             checkpoint' = checkpoint \/ checkpoint'.stage = "relationships"
      PROVE  HeadInv'
  <2>1. Watched /\ NodesStored(graph)
    BY <1>d, <1>b DEF HeadInv
  <2>2. NodesStored(graph)'
    BY <1>d, <2>1 DEF NodesStored, NodeStored, env
  <2>3. Checkpointed'
    <3>1. CASE checkpoint' = checkpoint
      BY <3>1, <2>1, <1>d, <1>c
    <3>2. CASE checkpoint'.stage = "relationships"
      BY <3>2, <2>2
    <3> QED
      BY <1>d, <3>1, <3>2
  <2> QED
    BY <1>d, <2>2, <2>3 DEF HeadInv
<1>7. CASE StoreRelationships
  BY <1>7, <1>d DEF StoreRelationships, flow
<1>8. CASE StoreRelationshipsFails
  BY <1>8, <1>d DEF StoreRelationshipsFails, AttemptFails, flow
<1>9. CASE CheckpointRelationships
  BY <1>9, <1>d DEF CheckpointRelationships, UpdateCheckpoint, flow
<1>10. CASE VerifyFails
  BY <1>10, <1>d DEF VerifyFails, AttemptFails, flow, store
<1>11. CASE ReturnResult
  <2>1. /\ UNCHANGED <<env, resumed, copies, checkpoint>>
        /\ pc = "rels" /\ pc' \in {"status", "failed", "completed"}
        /\ graph' = graph + 1 \/ graph' = graph
    BY <1>11 DEF ReturnResult, store
  <2>2. CASE graph' = graph
    BY <2>1, <2>2, <1>d
  <2>3. CASE graph' = graph + 1
    <3>1. ~Findable'
      BY <2>3, <1>a DEF NodesFresh
    <3>2. checkpoint'.stage = "none"
      BY <3>1 DEF TypeInv, NeverFound, NoCheckpoint
    <3> QED
      BY <2>1, <3>2 DEF HeadInv
  <2> QED
    BY <2>1, <2>2, <2>3
<1>12. CASE UNCHANGED vars
  BY <1>12, <1>b DEF vars, env, flow, task, store, HeadInv, NodesStored, StoredUpTo,
                     NodeStored, BatchStart, NodesFresh, Findable
<1> QED
  BY <1>1, <1>2, <1>3, <1>4, <1>5, <1>6, <1>7, <1>8, <1>9, <1>10, <1>11, <1>12
  DEF Next, Terminated

\* A retry of store_knowledge_graph that begins where get_storage_status tells
\* it to skips nothing that is not stored, while its checkpoint is of the first
\* graph and no attempt has begun in the middle of the nodes: whatever the batch
\* size, the backend and the calls that fail.
THEOREM CheckpointIsBehind == Spec => []CheckpointBehindWriteHead
<1>1. HeadInv => CheckpointBehindWriteHead
  BY DEF HeadInv, NodesFresh, CheckpointBehindWriteHead, StoredUpTo
<1>2. Spec => [](TypeInv /\ HeadInv)
  BY TypeInit, TypeNext, HeadInit, HeadNext, PTL DEF Spec
<1> QED
  BY <1>1, <1>2, PTL

-----------------------------------------------------------------------------
(* StorageTask implements LoadStage: the states of the task map to states of *)
(* the LOAD stage, and each of its steps to a step of the stage or a stutter. *)

(* The write head of the relationships *)

\* The relationships of the first i that have both their ends are stored.
EdgesUpTo(i) ==
    \A r \in Rels : (r <= i /\ \A k \in Ends[r] : copies[graph][k] > 0) => r \in edges[graph]

\* What the relationship half of an attempt at a graph has stored when none has
\* begun past index 0, and that the very first has no checkpoint.
EdgeHeadInv ==
    /\ Fresh(graph) =>
         /\ pc \in {"rels", "relsCheckpoint"} => startFrom = 0
         /\ pc = "rels" => EdgesUpTo(BatchStart)
         /\ pc = "relsCheckpoint" => EdgesUpTo(BatchStart + BatchSize)
    /\ (graph = 1 /\ attempt = 1 /\ pc = "status") => checkpoint.index = 0

LEMMA EdgeHeadInit == Init => EdgeHeadInv
BY DEF Init, EdgeHeadInv, NoCheckpoint

LEMMA AttemptFailsEdgeHead ==
    ASSUME TypeInv, AttemptFails
    PROVE  EdgeHeadInv'
BY SizeAssumption DEF TypeInv, TypeOK, AttemptFails, EdgeHeadInv

LEMMA EdgeHeadNext == TypeInv /\ TypeInv' /\ HeadInv /\ EdgeHeadInv /\ [Next]_vars => EdgeHeadInv'
<1> SUFFICES ASSUME TypeInv, TypeInv', HeadInv, EdgeHeadInv, [Next]_vars
             PROVE  EdgeHeadInv'
  OBVIOUS
<1>0. TypeOK /\ TypeOK' /\ BatchSize \in Nat \ {0}
  BY SizeAssumption DEF TypeInv
<1>1. CASE GetStatus
  <2>1. /\ pc' \in {"nodes", "rels"} /\ UNCHANGED graph
        /\ startFrom' = checkpoint.index /\ batchIdx' = checkpoint.index
        /\ Fresh(graph)' => checkpoint.index = 0
    BY <1>1 DEF GetStatus, flow, env, Fresh, Findable, TypeInv, NeverFound, NoCheckpoint
  <2>2. Fresh(graph)' => startFrom' = 0 /\ EdgesUpTo(BatchStart)'
    <3>1. ASSUME startFrom' = 0, batchIdx' = 0
          PROVE  EdgesUpTo(BatchStart)'
      <4>1. BatchStart' = 0 + (0 - 0) * BatchSize
        BY <3>1 DEF BatchStart
      <4>2. BatchStart' = 0
        BY <4>1, <1>0
      <4>3. \A r \in Rels : ~(r <= 0)
        BY GraphAssumption
      <4> QED
        BY <4>2, <4>3 DEF EdgesUpTo
    <3> QED
      BY <2>1, <3>1
  <2> QED
    BY <2>1, <2>2 DEF EdgeHeadInv
<1>2. CASE GetStatusFails \/ StoreNodesFails \/ StoreRelationshipsFails \/ VerifyFails
  BY <1>2, AttemptFailsEdgeHead
     DEF GetStatusFails, StoreNodesFails, StoreRelationshipsFails, VerifyFails
<1>3. CASE StoreNodes \/ CheckpointNodes
  BY <1>3 DEF StoreNodes, CheckpointNodes, EdgeHeadInv
<1>4. CASE BeginRelationships
  <2>1. /\ pc = "nodes" /\ pc' = "rels" /\ UNCHANGED <<env, graph, resumed, startFrom>>
        /\ batchIdx' = startFrom
    BY <1>4 DEF BeginRelationships, flow
  <2>2. ASSUME Fresh(graph)'
        PROVE  startFrom' = 0 /\ EdgesUpTo(BatchStart)'
    <3>1. startFrom = 0
      <4>1. NodesFresh
        BY <2>1, <2>2 DEF TypeInv, NeverFound, NodesFresh, Fresh, Findable, env
      <4> QED
        BY <2>1, <4>1 DEF HeadInv
    <3>2. BatchStart' = 0 + (0 - 0) * BatchSize
      BY <2>1, <3>1 DEF BatchStart
    <3>3. BatchStart' = 0
      BY <3>2, <1>0
    <3>4. \A r \in Rels : ~(r <= 0)
      BY GraphAssumption
    <3> QED
      BY <2>1, <3>1, <3>3, <3>4 DEF EdgesUpTo
  <2> QED
    BY <2>1, <2>2 DEF EdgeHeadInv
<1>5. CASE StoreRelationships
  <2>1. /\ pc = "rels" /\ pc' = "relsCheckpoint"
        /\ UNCHANGED <<env, graph, resumed, startFrom, batchIdx, copies>>
        /\ edges' = [edges EXCEPT ![graph] = @ \cup Connectable(Batch(Rels))]
    BY <1>5 DEF StoreRelationships, flow
  <2>2. ASSUME Fresh(graph)'
        PROVE  startFrom' = 0 /\ EdgesUpTo(BatchStart + BatchSize)'
    <3>1. startFrom = 0 /\ EdgesUpTo(BatchStart) /\ BatchStart' = BatchStart
      BY <2>1, <2>2 DEF EdgeHeadInv, BatchStart, Fresh, Findable, env
    <3>2. BatchStart \in Nat
      BY <3>1, <1>0, BatchStartFromZero
    <3>3. edges'[graph] = edges[graph] \cup Connectable(Batch(Rels))
      BY <2>1, <1>0 DEF TypeOK
    <3>4. ASSUME NEW r \in Rels, r <= BatchStart + BatchSize,
                 \A k \in Ends[r] : copies[graph][k] > 0
          PROVE  r \in edges'[graph]
      <4>1. r \in Nat
        BY GraphAssumption
      <4>2. r <= BatchStart \/ r \in Batch(Rels)
        BY <3>2, <3>4, <4>1, <1>0 DEF Batch
      <4>3. r \in Batch(Rels) => r \in Connectable(Batch(Rels))
        BY <3>4 DEF Connectable
      <4> QED
        BY <3>1, <3>3, <3>4, <4>2, <4>3 DEF EdgesUpTo
    <3> QED
      BY <2>1, <3>1, <3>4 DEF EdgesUpTo
  <2> QED
    BY <2>1, <2>2 DEF EdgeHeadInv
<1>6. CASE CheckpointRelationships
  <2>1. /\ pc = "relsCheckpoint" /\ pc' = "rels" /\ batchIdx' = batchIdx + 1
        /\ UNCHANGED <<env, graph, resumed, startFrom, copies, edges>>
    BY <1>6 DEF CheckpointRelationships, flow
  <2>2. BatchStart' = BatchStart + BatchSize
    BY <2>1, <1>0, BatchStartAdvances
  <2> QED
    BY <2>1, <2>2 DEF EdgeHeadInv, EdgesUpTo, Fresh, Findable, env
<1>7. CASE ReturnResult
  <2>1. graph \in Nat /\ graph > 0
    BY <1>0 DEF TypeOK, Graphs
  <2> QED
    BY <1>7, <2>1 DEF ReturnResult, EdgeHeadInv
<1>8. CASE UNCHANGED vars
  BY <1>8 DEF vars, env, flow, task, store, EdgeHeadInv, EdgesUpTo, BatchStart, Fresh, Findable
<1> QED
  BY <1>1, <1>2, <1>3, <1>4, <1>5, <1>6, <1>7, <1>8 DEF Next, Terminated

-----------------------------------------------------------------------------
(* Complete graphs *)

\* When an attempt that began at index 0 ends, its graph is complete.
LEMMA FreshGraphIsComplete ==
    ASSUME TypeInv, HeadInv, EdgeHeadInv,
           pc = "rels", LoopDone(NumRels), Fresh(graph)
    PROVE  NodesStored(graph) /\ EdgesStored(graph)
<1>1. NodesFresh
  BY DEF NodesFresh, Fresh, TypeInv, NeverFound
<1>2. NodesStored(graph)
  BY <1>1 DEF HeadInv
<1>3. startFrom = 0 /\ EdgesUpTo(BatchStart)
  BY DEF EdgeHeadInv
<1>4. BatchStart \in Nat /\ BatchStart >= NumRels
  BY <1>3, BatchStartFromZero DEF TypeInv, LoopDone
<1>5. \A r \in Rels : r <= BatchStart
  BY <1>4, GraphAssumption
<1> QED
  BY <1>2, <1>3, <1>5 DEF EdgesUpTo, EdgesStored

\* Nothing is taken away from a graph once the flow has left it.
LEMMA ReturnedStays ==
    ASSUME TypeInv, TypeInv', [Next]_vars, NEW h \in Graphs, Returned(h)
    PROVE  /\ UNCHANGED <<env, copies[h], edges[h]>> /\ Returned(h)'
           /\ resumed \subseteq resumed'
<1>0. TypeOK /\ TypeOK'
  BY DEF TypeInv
<1>a. graph \in Nat /\ h \in Nat
  BY <1>0 DEF TypeOK, Graphs
<1>1. CASE h = graph /\ pc = "completed"
  BY <1>0, <1>1 DEF Returned, Next, Terminated, vars, env, flow, store, GetStatus,
     GetStatusFails, StoreNodes, StoreNodesFails, CheckpointNodes, BeginRelationships,
     StoreRelationships, StoreRelationshipsFails, CheckpointRelationships, VerifyFails,
     ReturnResult
<1>2. CASE h < graph
  <2>0. h # graph
    BY <1>a, <1>2
  <2>1. \A W : Created(W)[h] = copies[h]
    BY <1>0, <2>0 DEF Created, TypeOK
  <2>2. \A R : [edges EXCEPT ![graph] = @ \cup Connectable(R)][h] = edges[h]
    BY <1>0, <2>0 DEF TypeOK
  <2>3. CASE GetStatus
    BY <1>2, <2>3 DEF GetStatus, env, flow, store, Returned
  <2>4. CASE GetStatusFails \/ VerifyFails
    BY <1>2, <2>4 DEF GetStatusFails, VerifyFails, env, flow, store, Returned
  <2>5. CASE StoreNodes
    BY <1>2, <2>1, <2>5 DEF StoreNodes, env, flow, Returned
  <2>6. CASE StoreNodesFails
    <3>1. copies'[h] = copies[h]
      BY <2>1, <2>6 DEF StoreNodesFails
    <3> QED
      BY <1>2, <2>6, <3>1 DEF StoreNodesFails, env, flow, Returned
  <2>7. CASE CheckpointNodes \/ BeginRelationships \/ CheckpointRelationships
    BY <1>2, <2>7 DEF CheckpointNodes, BeginRelationships, CheckpointRelationships,
                      env, flow, Returned
  <2>8. CASE StoreRelationships
    BY <1>2, <2>2, <2>8 DEF StoreRelationships, env, flow, Returned
  <2>9. CASE StoreRelationshipsFails
    <3>1. PICK W : edges' = [edges EXCEPT ![graph] = @ \cup Connectable(W)]
      BY <2>9 DEF StoreRelationshipsFails
    <3>2. edges'[h] = edges[h]
      BY <2>2, <3>1
    <3> QED
      BY <1>2, <2>9, <3>2 DEF StoreRelationshipsFails, env, flow, Returned
  <2>10. CASE ReturnResult
    BY <1>a, <1>2, <2>10 DEF ReturnResult, env, store, Returned
  <2>11. CASE UNCHANGED vars
    BY <1>2, <2>11 DEF vars, env, flow, store, Returned
  <2> QED
    BY <2>3, <2>4, <2>5, <2>6, <2>7, <2>8, <2>9, <2>10, <2>11 DEF Next, Terminated
<1> QED
  BY <1>1, <1>2 DEF Returned

\* A graph is left by the return of its task only.
LEMMA OnlyReturnLeaves ==
    ASSUME TypeInv, TypeInv', [Next]_vars, NEW h \in Graphs, ~Returned(h), Returned(h)'
    PROVE  ReturnResult /\ h = graph
<1>1. graph \in Nat /\ h \in Nat
  BY DEF TypeInv, TypeOK, Graphs
<1>2. CASE ReturnResult
  BY <1>1, <1>2 DEF ReturnResult, Returned
<1>3. CASE ~ReturnResult
  BY <1>3 DEF Returned, Next, Terminated, vars, flow, AttemptFails, GetStatus,
     GetStatusFails, StoreNodes, StoreNodesFails, CheckpointNodes, BeginRelationships,
     StoreRelationships, StoreRelationshipsFails, CheckpointRelationships, VerifyFails
<1> QED
  BY <1>2, <1>3

LEMMA FreshNext ==
    /\ TypeInv /\ TypeInv' /\ HeadInv /\ EdgeHeadInv /\ FreshResultIsComplete /\ [Next]_vars
    => FreshResultIsComplete'
<1> SUFFICES ASSUME TypeInv, TypeInv', HeadInv, EdgeHeadInv, FreshResultIsComplete,
                    [Next]_vars, NEW h \in Graphs, Returned(h)', Fresh(h)'
             PROVE  NodesStored(h)' /\ EdgesStored(h)'
  BY DEF FreshResultIsComplete
<1>1. CASE Returned(h)
  <2>1. UNCHANGED <<env, copies[h], edges[h]>> /\ resumed \subseteq resumed'
    BY <1>1, ReturnedStays
  <2>2. Fresh(h)
    BY <2>1 DEF Fresh, Findable, env
  <2>3. NodesStored(h) /\ EdgesStored(h)
    BY <1>1, <2>2 DEF FreshResultIsComplete
  <2> QED
    BY <2>1, <2>3 DEF NodesStored, EdgesStored, NodeStored, env
<1>2. CASE ~Returned(h)
  <2>1. ReturnResult /\ h = graph
    BY <1>2, OnlyReturnLeaves
  <2>2. /\ pc = "rels" /\ LoopDone(NumRels)
        /\ UNCHANGED <<env, copies, edges, resumed>>
    BY <2>1 DEF ReturnResult, store
  <2>3. Fresh(graph)
    BY <2>1, <2>2 DEF Fresh, Findable, env
  <2>4. NodesStored(h) /\ EdgesStored(h)
    BY <2>1, <2>2, <2>3, FreshGraphIsComplete
  <2> QED
    BY <2>2, <2>4 DEF NodesStored, EdgesStored, NodeStored, env
<1> QED
  BY <1>1, <1>2

FreshInv == TypeInv /\ HeadInv /\ EdgeHeadInv /\ FreshResultIsComplete

LEMMA FreshInit == Init => FreshInv
<1> SUFFICES ASSUME Init PROVE FreshResultIsComplete
  BY TypeInit, HeadInit, EdgeHeadInit DEF FreshInv
<1>1. \A g \in Graphs : g \in Nat /\ g >= 1
  BY DEF Graphs
<1> QED
  BY <1>1 DEF Init, FreshResultIsComplete, Returned

LEMMA FreshIsInductive == Spec => []FreshInv
<1>1. FreshInv /\ [Next]_vars => FreshInv'
  BY TypeNext, HeadNext, EdgeHeadNext, FreshNext DEF FreshInv
<1> QED
  BY FreshInit, <1>1, PTL DEF Spec

\* Every graph of a transform on Neo4j, and elsewhere the first one when no attempt
\* resumed past index 0, is stored whole when its task has returned: partial
\* batches, repeated batches, lost answers and checkpoint writes and failing
\* read-backs leave nothing out, whatever the batch size and the graph.
THEOREM FreshIsComplete == Spec => []FreshResultIsComplete
BY FreshIsInductive, PTL DEF FreshInv

-----------------------------------------------------------------------------
(* The refinement *)

LEMMA LoadInit == Init => Load!Init
<1> SUFFICES ASSUME Init PROVE Load!Init
  OBVIOUS
<1>1. \A g \in Graphs : {k \in Nodes : copies[g][k] > 0} = {}
  BY DEF Init
<1>2. 1 \in Graphs
  BY SizeAssumption DEF Graphs
<1> QED
  BY <1>1, <1>2 DEF Init, Load!Init

\* The nodes of a batch add vertices to the current graph only.
LEMMA WriteNodes ==
    ASSUME TypeOK, UNCHANGED <<graph, edges>>, NEW W \in SUBSET Nodes, copies' = Created(W)
    PROVE  Load!Written
<1> DEFINE Stored(c) == [g \in Graphs |-> {k \in Nodes : c[g][k] > 0}]
<1>1. \A k \in Nodes : copies'[graph][k] > 0 <=> (copies[graph][k] > 0 \/ k \in W)
  BY DEF Created, TypeOK
<1>2. \A g \in Graphs \ {graph} : copies'[g] = copies[g]
  BY DEF Created, TypeOK
<1>3. Stored(copies') = [Stored(copies) EXCEPT ![graph] = @ \cup W]
  BY <1>1, <1>2 DEF TypeOK
<1>4. edges' = [edges EXCEPT ![graph] = @ \cup {}]
  BY DEF TypeOK
<1> QED
  BY <1>3, <1>4 DEF Load!Written

\* A relationship is written where its ends are found.
LEMMA WriteEdges ==
    ASSUME TypeOK, UNCHANGED <<graph, copies>>, NEW R \in SUBSET Rels,
           edges' = [edges EXCEPT ![graph] = @ \cup Connectable(R)]
    PROVE  Load!Written
<1> DEFINE Stored(c) == [g \in Graphs |-> {k \in Nodes : c[g][k] > 0}]
<1>1. Stored(copies') = [Stored(copies) EXCEPT ![graph] = @ \cup {}]
  BY DEF TypeOK
<1>2. Connectable(R) \in SUBSET Rels
  BY DEF Connectable
<1>3. \A r \in Connectable(R) : Ends[r] \subseteq Stored(copies')[graph]
  BY GraphAssumption DEF Connectable, TypeOK
<1>4. \E N \in SUBSET Nodes : Stored(copies') = [Stored(copies) EXCEPT ![graph] = @ \cup N]
  BY <1>1
<1>5. \E C \in SUBSET Rels : /\ \A r \in C : Ends[r] \subseteq Stored(copies')[graph]
                            /\ edges' = [edges EXCEPT ![graph] = @ \cup C]
  BY <1>2, <1>3
<1> QED
  BY <1>4, <1>5 DEF Load!Written

LEMMA WriteNothing == ASSUME TypeOK, UNCHANGED <<graph, copies, edges>> PROVE Load!Written
<1>1. edges' = [edges EXCEPT ![graph] = @ \cup Connectable({})]
  BY DEF Connectable, TypeOK
<1>2. PICK R \in SUBSET Rels : edges' = [edges EXCEPT ![graph] = @ \cup Connectable(R)]
  BY <1>1
<1> QED
  BY <1>2, WriteEdges

\* An attempt that fails is repeated, or was the last one.
LEMMA FailedAttempt ==
    ASSUME TypeOK, Load!Written, AttemptFails, UNCHANGED <<env, graph, resumed>>,
           pc \notin {"completed", "failed"}
    PROVE  Load!Next
<1>1. attempt \in 1..(Retries + 1) /\ Retries \in Nat
  BY SizeAssumption DEF TypeOK
<1>2. CASE attempt <= Retries
  <2>1. pc' = "status" /\ attempt' = attempt + 1 /\ attempt < Retries + 1
    BY <1>1, <1>2 DEF AttemptFails
  <2>2. Load!Retry
    BY <2>1 DEF Load!Retry, env, Findable
  <2> QED
    BY <2>2 DEF Load!Next
<1>3. CASE ~(attempt <= Retries)
  <2>1. pc' = "failed" /\ attempt' = attempt /\ attempt = Retries + 1
    BY <1>1, <1>3 DEF AttemptFails
  <2>2. Load!GiveUp
    BY <2>1 DEF Load!GiveUp, env, Findable
  <2> QED
    BY <2>2 DEF Load!Next
<1> QED
  BY <1>2, <1>3

LEMMA LoadNext ==
    TypeInv /\ TypeInv' /\ HeadInv /\ EdgeHeadInv /\ [Next]_vars => [Load!Next]_Load!vars
<1> SUFFICES ASSUME TypeInv, TypeInv', HeadInv, EdgeHeadInv, [Next]_vars
             PROVE  Load!Next \/ UNCHANGED Load!vars
  OBVIOUS
<1>0. TypeOK /\ TypeOK' /\ graph \in Nat /\ graph >= 1 /\ attempt \in Nat /\ attempt >= 1
  <2>1. TypeOK /\ TypeOK'
    BY DEF TypeInv
  <2>2. graph \in Nat /\ graph >= 1 /\ attempt \in Nat /\ attempt >= 1
    BY <2>1, SizeAssumption DEF TypeOK, Graphs
  <2> QED
    BY <2>1, <2>2
\* What no attempt shows to the flow.
<1>a. ASSUME UNCHANGED <<env, graph, attempt, copies, edges, resumed>>,
             pc \notin {"completed", "failed"}, pc' \notin {"completed", "failed"}
      PROVE  UNCHANGED Load!vars
  BY <1>a DEF Load!vars, env, Findable
<1>1. CASE GetStatus
  <2>1. /\ UNCHANGED <<env, graph, attempt, copies, edges>>
        /\ pc = "status" /\ pc' \in {"nodes", "rels"}
        /\ resumed' = IF checkpoint.index = 0 THEN resumed
                      ELSE resumed \cup {checkpoint.stage}
    BY <1>1 DEF GetStatus, flow, store
  <2>2. CASE resumed' = resumed
    BY <2>1, <2>2, <1>a
  <2>3. CASE resumed' # resumed
    <3>1. checkpoint.index # 0 /\ resumed' # {}
      BY <2>1, <2>3
    <3>2. graph > 1 \/ attempt > 1
      BY <2>1, <3>1, <1>0 DEF EdgeHeadInv
    <3>3. Findable /\ UNCHANGED Findable
      BY <2>1, <3>1 DEF TypeInv, NeverFound, NoCheckpoint, Findable, env
    <3>4. Load!Stray
      BY <2>1, <3>1, <3>2, <3>3 DEF Load!Stray, env
    <3> QED
      BY <3>4 DEF Load!Next
  <2> QED
    BY <2>2, <2>3
<1>2. CASE GetStatusFails \/ VerifyFails
  <2>1. /\ UNCHANGED <<env, graph, copies, edges, resumed>>
        /\ AttemptFails /\ pc \notin {"completed", "failed"}
    BY <1>2 DEF GetStatusFails, VerifyFails, flow, store
  <2> QED
    BY <2>1, <1>0, WriteNothing, FailedAttempt
<1>3. CASE StoreNodes
  <2>1. /\ UNCHANGED <<env, graph, attempt, edges, resumed>>
        /\ copies' = Created(Writable(Batch(Nodes)))
        /\ pc = "nodes" /\ pc' = "nodesCheckpoint"
    BY <1>3 DEF StoreNodes, flow
  <2>2. Writable(Batch(Nodes)) \in SUBSET Nodes
    BY <1>0, BatchTypes, WritableIsInBatch DEF TypeOK
  <2>3. Load!Written
    BY <2>1, <2>2, <1>0, WriteNodes
  <2>4. Load!Write
    BY <2>1, <2>3 DEF Load!Write, env, Findable
  <2> QED
    BY <2>4 DEF Load!Next
<1>4. CASE StoreNodesFails
  <2>1. /\ UNCHANGED <<env, graph, edges, resumed>>
        /\ AttemptFails /\ pc \notin {"completed", "failed"}
    BY <1>4 DEF StoreNodesFails, flow
  <2>2. \A V \in PartialWrites(Batch(Nodes)) : V \in SUBSET Nodes
    BY <1>0, BatchTypes, PartialIsInBatch DEF TypeOK
  <2>3. copies' = copies \/ \E V \in SUBSET Nodes : copies' = Created(V)
    BY <1>4, <2>2 DEF StoreNodesFails
  <2>4. Load!Written
    BY <2>1, <2>3, <1>0, WriteNodes, WriteNothing
  <2> QED
    BY <2>1, <2>4, <1>0, FailedAttempt
<1>5. CASE CheckpointNodes \/ BeginRelationships \/ CheckpointRelationships
  BY <1>5, <1>a DEF CheckpointNodes, BeginRelationships, CheckpointRelationships, flow
<1>6. CASE StoreRelationships
  <2>1. /\ UNCHANGED <<env, graph, attempt, copies, resumed>>
        /\ edges' = [edges EXCEPT ![graph] = @ \cup Connectable(Batch(Rels))]
        /\ pc = "rels" /\ pc' = "relsCheckpoint"
    BY <1>6 DEF StoreRelationships, flow
  <2>2. Load!Written
    BY <2>1, <1>0, BatchTypes, WriteEdges
  <2>3. Load!Write
    BY <2>1, <2>2 DEF Load!Write, env, Findable
  <2> QED
    BY <2>3 DEF Load!Next
<1>7. CASE StoreRelationshipsFails
  <2>1. /\ UNCHANGED <<env, graph, copies, resumed>>
        /\ AttemptFails /\ pc \notin {"completed", "failed"}
    BY <1>7 DEF StoreRelationshipsFails, flow
  <2>2. PICK R \in SUBSET Rels : edges' = [edges EXCEPT ![graph] = @ \cup Connectable(R)]
    BY <1>7, BatchTypes DEF StoreRelationshipsFails
  <2>3. Load!Written
    BY <2>1, <2>2, <1>0, WriteEdges
  <2> QED
    BY <2>1, <2>3, <1>0, FailedAttempt
<1>8. CASE ReturnResult
  <2>1. /\ UNCHANGED <<env, copies, edges, resumed>>
        /\ pc = "rels" /\ LoopDone(NumRels)
        /\ IF graph < numGraphs
           THEN graph' = graph + 1 /\ attempt' = 1 /\ pc' = "status"
           ELSE pc' \in {"completed", "failed"} /\ UNCHANGED <<graph, attempt>>
    BY <1>8 DEF ReturnResult, store
  <2>2. ASSUME Fresh(graph)
        PROVE  Load!Complete(graph)
    <3>1. NodesStored(graph) /\ EdgesStored(graph)
      BY <2>1, <2>2, FreshGraphIsComplete
    <3>2. graph \in Graphs
      BY <1>0 DEF TypeOK
    <3> QED
      BY <3>1, <3>2, GraphAssumption
         DEF Load!Complete, NodesStored, EdgesStored, NodeStored
  <2>3. ((~Findable) \/ (graph = 1 /\ ~(resumed # {}))) => Load!Complete(graph)
    BY <2>2 DEF Fresh
  <2>4. Load!Return
    BY <2>1, <2>3 DEF Load!Return, Findable, env
  <2> QED
    BY <2>4 DEF Load!Next
<1>9. CASE UNCHANGED vars
  BY <1>9 DEF vars, env, flow, task, store, Load!vars, Findable
<1> QED
  BY <1>1, <1>2, <1>3, <1>4, <1>5, <1>6, <1>7, <1>8, <1>9 DEF Next, Terminated

\* The storage task implements the LOAD stage's safety: nothing stored is taken
\* away, no relationship comes before its ends, the first graph is whole unless
\* an attempt resumed and every graph is on Neo4j, where none can, and a graph is
\* given up after its last attempt only.
THEOREM LoadStageSafety == Spec => Load!Safety
<1>1. FreshInv /\ FreshInv' /\ [Next]_vars => [Load!Next]_Load!vars
  BY LoadNext DEF FreshInv
<1> QED
  BY LoadInit, FreshIsInductive, <1>1, PTL DEF Spec, Load!Safety
-----------------------------------------------------------------------------
(* The first retry *)

\* Until the second attempt has read where to begin, no attempt has begun in
\* the middle of the nodes, so the index it reads is one of nodes; from there its
\* batches go on without a gap, although their numbers do not start at 0.
RetryInv ==
    /\ (graph = 1 /\ (attempt = 1 \/ (attempt = 2 /\ pc = "status"))) => "nodes" \notin resumed
    /\ (graph = 1 /\ attempt = 2) =>
         /\ pc = "nodes" => StoredUpTo(BatchStart)
         /\ pc = "nodesCheckpoint" => StoredUpTo(BatchStart + BatchSize)
         /\ pc \in {"rels", "relsCheckpoint"} => NodesStored(graph)

LEMMA RetryInit == Init => RetryInv
BY DEF Init, RetryInv

\* A stored batch closes the gap between its start and the next one.
LEMMA BatchClosesGap ==
    ASSUME TypeOK, TypeOK', StoreNodes, StoredUpTo(BatchStart)
    PROVE  StoredUpTo(BatchStart + BatchSize)'
<1> DEFINE W == Writable(Batch(Nodes))
<1>1. W \in SUBSET Nodes
  BY BatchTypes, WritableIsInBatch DEF TypeOK
<1>2. /\ UNCHANGED env /\ UNCHANGED <<graph, startFrom, batchIdx>> /\ copies' = Created(W)
      /\ backend = "neo4j" => Batch(Nodes) \cap invalid = {}
  BY DEF StoreNodes, flow
<1>3. \A k \in Nodes : /\ NodeStored(graph, k) => NodeStored(graph, k)'
                       /\ k \in W => NodeStored(graph, k)'
  BY <1>1, <1>2, CreatedStores
<1>4. \A k \in Batch(Nodes) \ W : backend # "memory" /\ k \in invalid
  BY <1>2, BackendAssumption DEF Writable, TypeOK
<1>5. \A k \in Batch(Nodes) : NodeStored(graph, k)'
  BY <1>2, <1>3, <1>4, BatchTypes DEF NodeStored, env
<1>6. BatchStart' = BatchStart /\ BatchStart \in Int
  BY <1>2, BatchStartAdvances DEF BatchStart
<1>7. ASSUME NEW k \in Nodes, k <= BatchStart + BatchSize
      PROVE  NodeStored(graph, k)'
  <2>1. k <= BatchStart \/ k \in Batch(Nodes)
    BY <1>6, <1>7, SizeAssumption DEF Batch, Nodes
  <2> QED
    BY <2>1, <1>3, <1>5 DEF StoredUpTo
<1> QED
  BY <1>6, <1>7 DEF StoredUpTo

LEMMA RetryNext ==
    TypeInv /\ TypeInv' /\ HeadInv /\ EdgeHeadInv /\ RetryInv /\ [Next]_vars => RetryInv'
<1> SUFFICES ASSUME TypeInv, TypeInv', HeadInv, EdgeHeadInv, RetryInv, [Next]_vars
             PROVE  RetryInv'
  OBVIOUS
<1>a. TypeOK /\ TypeOK' /\ BatchSize \in Nat \ {0} /\ Nodes \subseteq Nat
  BY SizeAssumption DEF TypeInv, Nodes
<1>b. attempt \in Nat /\ attempt >= 1 /\ graph \in Nat /\ graph >= 1
  BY <1>a, SizeAssumption DEF TypeOK, Graphs
<1>0. /\ TypeOK /\ TypeOK' /\ BatchSize \in Nat \ {0} /\ Nodes \subseteq Nat
      /\ attempt \in Nat /\ attempt >= 1 /\ graph \in Nat /\ graph >= 1
  BY <1>a, <1>b
<1>1. CASE GetStatus
  <2>1. /\ UNCHANGED <<env, graph, attempt, checkpoint, copies>> /\ pc = "status"
        /\ startFrom' = checkpoint.index /\ batchIdx' = checkpoint.index
        /\ pc' = IF checkpoint.stage = "relationships" THEN "rels" ELSE "nodes"
        /\ checkpoint.stage \in Stages \cup {"none"}
        /\ checkpoint.index = 0 => resumed' = resumed
        /\ checkpoint.index \in Nat
    BY <1>1, <1>0 DEF GetStatus, flow, store, TypeOK
  <2>2. (graph = 1 /\ attempt = 1) => resumed' = resumed
    BY <2>1 DEF EdgeHeadInv
  <2>3. ASSUME graph = 1, attempt = 2
        PROVE  (pc' = "nodes" => StoredUpTo(BatchStart)') /\ (pc' = "rels" => NodesStored(graph)')
    <3>1. "nodes" \notin resumed
      BY <2>1, <2>3 DEF RetryInv
    <3>2. BatchStart' = checkpoint.index
      <4>1. BatchStart' = checkpoint.index + (checkpoint.index - checkpoint.index) * BatchSize
        BY <2>1 DEF BatchStart
      <4>2. checkpoint.index - checkpoint.index = 0 /\ 0 * BatchSize = 0
        BY <2>1, <1>0
      <4> QED
        BY <4>1, <4>2, <2>1
    <3>3. checkpoint.stage # "relationships" => StoredUpTo(checkpoint.index)
      <4>1. CASE checkpoint.stage = "nodes"
        BY <4>1, <3>1, <2>3 DEF HeadInv, NodesFresh
      <4>2. CASE checkpoint.stage = "none"
        <5>1. checkpoint.index = 0
          BY <4>2 DEF TypeInv, StageOfIndex
        <5> QED
          BY <5>1, <1>0 DEF StoredUpTo, Nodes
      <4> QED
        BY <4>1, <4>2, <2>1 DEF Stages
    <3>4. checkpoint.stage = "relationships" => NodesStored(graph)
      BY <3>1, <2>3 DEF HeadInv, NodesFresh
    <3> QED
      BY <2>1, <3>2, <3>3, <3>4 DEF StoredUpTo, NodesStored, NodeStored, env
  <2> QED
    BY <2>1, <2>2, <2>3 DEF RetryInv
<1>2. CASE GetStatusFails \/ StoreNodesFails \/ StoreRelationshipsFails \/ VerifyFails
  <2>1. AttemptFails /\ UNCHANGED <<graph, resumed>>
    BY <1>2 DEF GetStatusFails, StoreNodesFails, StoreRelationshipsFails, VerifyFails, flow
  <2>2. pc' \in {"status", "failed"} /\ attempt' \in {attempt, attempt + 1}
        /\ (pc' = "status" => attempt' = attempt + 1)
        /\ (attempt' = 1 => attempt = 1)
    BY <2>1, <1>0 DEF AttemptFails
  <2>3. (attempt' = 2 /\ pc' = "status") => attempt = 1
    BY <2>2, <1>0
  <2> QED
    BY <2>1, <2>2, <2>3 DEF RetryInv
<1>3. CASE StoreNodes
  <2>1. /\ UNCHANGED <<graph, attempt, resumed>>
        /\ pc = "nodes" /\ pc' = "nodesCheckpoint"
    BY <1>3 DEF StoreNodes, flow
  <2> QED
    BY <1>3, <2>1, <1>0, BatchClosesGap DEF RetryInv
<1>4. CASE CheckpointNodes
  <2>1. /\ UNCHANGED env /\ UNCHANGED <<graph, attempt, resumed, copies, startFrom>>
        /\ pc = "nodesCheckpoint" /\ pc' = "nodes" /\ batchIdx' = batchIdx + 1
    BY <1>4 DEF CheckpointNodes, flow
  <2>2. BatchStart' = BatchStart + BatchSize
    BY <2>1, <1>0, BatchStartAdvances
  <2> QED
    BY <2>1, <2>2 DEF RetryInv, StoredUpTo, NodeStored, env
<1>5. CASE BeginRelationships
  <2>1. /\ UNCHANGED env /\ UNCHANGED <<graph, attempt, resumed, copies>>
        /\ pc = "nodes" /\ pc' = "rels" /\ BatchStart >= NumNodes
    BY <1>5 DEF BeginRelationships, LoopDone, flow
  <2>2. \A k \in Nodes : k <= BatchStart
    BY <2>1, <1>0, BatchStartAdvances, SizeAssumption DEF Nodes
  <2> QED
    BY <2>1, <2>2 DEF RetryInv, StoredUpTo, NodesStored, NodeStored, env
<1>6. CASE StoreRelationships \/ CheckpointRelationships
  BY <1>6 DEF StoreRelationships, CheckpointRelationships, RetryInv, NodesStored, NodeStored,
              env, flow
<1>7. CASE ReturnResult
  <2>1. CASE graph < numGraphs
    BY <1>7, <2>1, <1>0 DEF ReturnResult, RetryInv
  <2>2. CASE ~(graph < numGraphs)
    BY <1>7, <2>2 DEF ReturnResult, RetryInv
  <2> QED
    BY <2>1, <2>2
<1>8. CASE UNCHANGED vars
  BY <1>8 DEF vars, env, flow, task, store, RetryInv, StoredUpTo, NodesStored, NodeStored,
              BatchStart
<1> QED
  BY <1>1, <1>2, <1>3, <1>4, <1>5, <1>6, <1>7, <1>8 DEF Next, Terminated

\* The first retry of the first graph leaves no node out, wherever the first
\* attempt stopped: with any batch size that does not divide the list, any lost
\* checkpoint write and any partial batch, all nodes are stored when the attempt
\* comes to the relationships.
THEOREM FirstRetryIsSafe == Spec => []FirstRetryKeepsNodes
<1>1. TypeInv /\ HeadInv /\ RetryInv => FirstRetryKeepsNodes
  <2> SUFFICES ASSUME TypeInv, HeadInv, RetryInv, graph = 1, attempt <= 2,
                      pc \in {"rels", "relsCheckpoint"}
               PROVE  NodesStored(1)
    BY DEF FirstRetryKeepsNodes
  <2>1. attempt = 1 \/ attempt = 2
    BY SizeAssumption DEF TypeInv, TypeOK
  <2> QED
    BY <2>1 DEF HeadInv, NodesFresh, RetryInv
<1>2. FreshInv /\ FreshInv' /\ RetryInv /\ [Next]_vars => RetryInv'
  BY RetryNext DEF FreshInv
<1> QED
  BY <1>1, <1>2, RetryInit, FreshIsInductive, PTL DEF Spec, FreshInv
=============================================================================
