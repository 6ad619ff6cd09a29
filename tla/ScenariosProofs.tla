--------------------------- MODULE ScenariosProofs ---------------------------
(***************************************************************************)
(* Proofs about Scenarios, for any nodes, edges, properties, batches of    *)
(* edits and number of requests.                                           *)
(***************************************************************************)
EXTENDS Scenarios, TLAPS

-----------------------------------------------------------------------------
(* Differences *)

LEMMA PartialFunction ==
    ASSUME NEW D, NEW R, NEW S \in SUBSET D, NEW f \in [S -> R]
    PROVE  f \in PartialFunctions(D, R)
<1>1. [S -> R] \in {[T -> R] : T \in SUBSET D}
  OBVIOUS
<1> QED
  BY <1>1 DEF PartialFunctions

LEMMA PartialFunctionType ==
    ASSUME NEW D, NEW R, NEW f \in PartialFunctions(D, R)
    PROVE  DOMAIN f \in SUBSET D /\ \A x \in DOMAIN f : f[x] \in R
<1>1. PICK S \in SUBSET D : f \in [S -> R]
  BY DEF PartialFunctions
<1> QED
  BY <1>1

LEMMA PartsOfDiffType ==
    ASSUME NEW D, NEW R, NEW b \in [D -> R \cup {Gone}], NEW t \in [D -> R \cup {Gone}]
    PROVE  /\ AddedTo(b, t) \in PartialFunctions(D, R)
           /\ UpdatedIn(b, t) \in PartialFunctions(D, R)
           /\ RemovedFrom(b, t) \in SUBSET D
<1> DEFINE A == {x \in D : b[x] = Gone /\ t[x] # Gone}
           U == {x \in D : Gone \notin {b[x], t[x]} /\ b[x] # t[x]}
<1>1. AddedTo(b, t) \in [A -> R] /\ A \in SUBSET D
  BY DEF AddedTo
<1>2. UpdatedIn(b, t) \in [U -> R] /\ U \in SUBSET D
  BY DEF UpdatedIn
<1>3. RemovedFrom(b, t) \in SUBSET D
  BY DEF RemovedFrom
<1> HIDE DEF A, U
<1> QED
  BY <1>1, <1>2, <1>3, PartialFunction

\* What was removed, added and updated between two graphs, overlaid on the
\* first, gives the second.
LEMMA OverlaidDiff ==
    ASSUME NEW D, NEW R, NEW b \in [D -> R \cup {Gone}], NEW t \in [D -> R \cup {Gone}]
    PROVE  Overlaid(b, RemovedFrom(b, t), AddedTo(b, t), UpdatedIn(b, t)) = t
<1> DEFINE o == Overlaid(b, RemovedFrom(b, t), AddedTo(b, t), UpdatedIn(b, t))
<1>1. o \in [D -> {o[x] : x \in D}] /\ DOMAIN b = D /\ DOMAIN t = D
  BY DEF Overlaid
<1>2. ASSUME NEW x \in D
      PROVE  o[x] = t[x]
  <2>1. /\ x \in DOMAIN UpdatedIn(b, t) <=> (b[x] # Gone /\ t[x] # Gone /\ b[x] # t[x])
        /\ x \in DOMAIN UpdatedIn(b, t) => UpdatedIn(b, t)[x] = t[x]
    BY <1>1, <1>2 DEF UpdatedIn
  <2>2. /\ x \in DOMAIN AddedTo(b, t) <=> (b[x] = Gone /\ t[x] # Gone)
        /\ x \in DOMAIN AddedTo(b, t) => AddedTo(b, t)[x] = t[x]
    BY <1>1, <1>2 DEF AddedTo
  <2>3. x \in RemovedFrom(b, t) <=> (b[x] # Gone /\ t[x] = Gone)
    BY <1>1, <1>2 DEF RemovedFrom
  <2> QED
    BY <1>1, <2>1, <2>2, <2>3 DEF Overlaid
<1> QED
  BY <1>1, <1>2

LEMMA OverlaidType ==
    ASSUME NEW D, NEW R, NEW b \in [D -> R \cup {Gone}], NEW removed \in SUBSET D,
           NEW added \in PartialFunctions(D, R), NEW updated \in PartialFunctions(D, R)
    PROVE  Overlaid(b, removed, added, updated) \in [D -> R \cup {Gone}]
<1>1. /\ \A x \in DOMAIN added : added[x] \in R
      /\ \A x \in DOMAIN updated : updated[x] \in R
  BY PartialFunctionType
<1> QED
  BY <1>1 DEF Overlaid

LEMMA DiffType ==
    ASSUME NEW b \in Graph, NEW t \in Graph
    PROVE  ComputeDiff(b, t) \in Diff
<1>1. b.nodes \in [NodeIds -> Values \cup {Gone}] /\ t.nodes \in [NodeIds -> Values \cup {Gone}]
  BY DEF Graph
<1>2. b.edges \in [EdgeIds -> Edges \cup {Gone}] /\ t.edges \in [EdgeIds -> Edges \cup {Gone}]
  BY DEF Graph
<1>3. /\ AddedTo(b.nodes, t.nodes) \in PartialFunctions(NodeIds, Values)
      /\ UpdatedIn(b.nodes, t.nodes) \in PartialFunctions(NodeIds, Values)
      /\ RemovedFrom(b.nodes, t.nodes) \in SUBSET NodeIds
  BY <1>1, PartsOfDiffType
<1>4. /\ AddedTo(b.edges, t.edges) \in PartialFunctions(EdgeIds, Edges)
      /\ UpdatedIn(b.edges, t.edges) \in PartialFunctions(EdgeIds, Edges)
      /\ RemovedFrom(b.edges, t.edges) \in SUBSET EdgeIds
  BY <1>2, PartsOfDiffType
<1> QED
  BY <1>3, <1>4 DEF ComputeDiff, Diff

\* _compute_diff and resolved_graph are inverse to one another: the difference
\* between the snapshot and any graph, resolved, gives that graph.
THEOREM DiffRoundTrip ==
    ASSUME NEW b \in Graph, NEW t \in Graph, NEW s,
           s.base = b, s.diff = ComputeDiff(b, t)
    PROVE  ResolvedGraph(s) = t
<1>1. b.nodes \in [NodeIds -> Values \cup {Gone}] /\ t.nodes \in [NodeIds -> Values \cup {Gone}]
  BY DEF Graph
<1>2. b.edges \in [EdgeIds -> Edges \cup {Gone}] /\ t.edges \in [EdgeIds -> Edges \cup {Gone}]
  BY DEF Graph
<1>3. Overlaid(b.nodes, RemovedFrom(b.nodes, t.nodes), AddedTo(b.nodes, t.nodes),
               UpdatedIn(b.nodes, t.nodes)) = t.nodes
  BY <1>1, OverlaidDiff
<1>4. Overlaid(b.edges, RemovedFrom(b.edges, t.edges), AddedTo(b.edges, t.edges),
               UpdatedIn(b.edges, t.edges)) = t.edges
  BY <1>2, OverlaidDiff
<1>5. t = [nodes |-> t.nodes, edges |-> t.edges]
  BY DEF Graph
<1> QED
  BY <1>3, <1>4, <1>5 DEF ResolvedGraph, ComputeDiff

LEMMA EmptyIsPartial == ASSUME NEW D, NEW R PROVE <<>> \in PartialFunctions(D, R)
<1>1. <<>> \in [{} -> R]
  OBVIOUS
<1> QED
  BY <1>1, PartialFunction

LEMMA EmptyDiffType == EmptyDiff \in Diff
BY EmptyIsPartial DEF EmptyDiff, Diff

\* A scenario that was never edited shows its snapshot.
LEMMA EmptyDiffResolves ==
    ASSUME NEW g \in Graph, NEW s, s.base = g, s.diff = EmptyDiff
    PROVE  ResolvedGraph(s) = g
<1>1. DOMAIN (<<>>) = {}
  OBVIOUS
<1>2. \A D, R : \A b \in [D -> R] : Overlaid(b, {}, <<>>, <<>>) = b
  BY <1>1 DEF Overlaid
<1>3. /\ g.nodes \in [NodeIds -> Values \cup {Gone}]
      /\ g.edges \in [EdgeIds -> Edges \cup {Gone}]
      /\ g = [nodes |-> g.nodes, edges |-> g.edges]
  BY DEF Graph
<1>4. Overlaid(g.nodes, {}, <<>>, <<>>) = g.nodes /\ Overlaid(g.edges, {}, <<>>, <<>>) = g.edges
  BY <1>2, <1>3
<1> QED
  BY <1>3, <1>4 DEF ResolvedGraph, EmptyDiff

LEMMA ResolvedType == ASSUME NEW s \in Scenario PROVE ResolvedGraph(s) \in Graph
<1>1. /\ s.base.nodes \in [NodeIds -> Values \cup {Gone}]
      /\ s.base.edges \in [EdgeIds -> Edges \cup {Gone}]
  BY DEF Scenario, Graph
<1>2. /\ s.diff.removedNodes \in SUBSET NodeIds
      /\ s.diff.addedNodes \in PartialFunctions(NodeIds, Values)
      /\ s.diff.updatedNodes \in PartialFunctions(NodeIds, Values)
  BY DEF Scenario, Diff
<1>3. /\ s.diff.removedEdges \in SUBSET EdgeIds
      /\ s.diff.addedEdges \in PartialFunctions(EdgeIds, Edges)
      /\ s.diff.updatedEdges \in PartialFunctions(EdgeIds, Edges)
  BY DEF Scenario, Diff
<1>4. Overlaid(s.base.nodes, s.diff.removedNodes, s.diff.addedNodes, s.diff.updatedNodes)
        \in [NodeIds -> Values \cup {Gone}]
  BY <1>1, <1>2, OverlaidType
<1>5. Overlaid(s.base.edges, s.diff.removedEdges, s.diff.addedEdges, s.diff.updatedEdges)
        \in [EdgeIds -> Edges \cup {Gone}]
  BY <1>1, <1>3, OverlaidType
<1> QED
  BY <1>4, <1>5 DEF ResolvedGraph, Graph

\* A batch that applies turns a graph into a graph.
LEMMA TargetType ==
    ASSUME NEW g \in Graph, NEW c \in Change, Applies(g, c)
    PROVE  Target(g, c) \in Graph
<1>1. /\ g.nodes \in [NodeIds -> Values \cup {Gone}]
      /\ g.edges \in [EdgeIds -> Edges \cup {Gone}]
  BY DEF Graph
<1>2. /\ \A n \in DOMAIN c.createdNodes : c.createdNodes[n] \in Values
      /\ \A n \in DOMAIN c.updatedNodes : c.updatedNodes[n] \in Values
  BY PartialFunctionType DEF Change
<1>3. /\ \A e \in DOMAIN c.createdEdges : c.createdEdges[e] \in Edges
      /\ \A e \in DOMAIN c.updatedEdges : c.updatedEdges[e] \in Values
  BY PartialFunctionType DEF Change
<1>4. NodesAfter(g, c) \in [NodeIds -> Values \cup {Gone}]
  BY <1>1, <1>2 DEF NodesAfter
<1>5. EdgesAfter(g, c) \in [EdgeIds -> Edges \cup {Gone}]
  <2> DEFINE before(e) == IF e \in DOMAIN c.createdEdges THEN c.createdEdges[e] ELSE g.edges[e]
  <2>1. \A e \in EdgeIds : before(e) \in Edges \cup {Gone}
    BY <1>1, <1>3
  <2>2. \A e \in EdgeIds : e \in DOMAIN c.updatedEdges => before(e) \in Edges
    BY <1>1, <1>3 DEF Applies
  <2>3. \A e \in EdgeIds : e \in DOMAIN c.updatedEdges =>
            [before(e) EXCEPT !.value = c.updatedEdges[e]] \in Edges
    BY <1>3, <2>2 DEF Edges
  <2> QED
    BY <2>1, <2>3 DEF EdgesAfter
<1> QED
  BY <1>4, <1>5 DEF Target, Graph

-----------------------------------------------------------------------------
(* Types *)

\* A request that edits has read a scenario and carries a batch.
EditingHasRead ==
    \A r \in Requests : pc[r] = "editing" => scenario[r] \in Scenario /\ change[r] \in Changes

\* TypeOK but for the history variable expected, whose type needs that edits
\* that did not clash apply to it.
ShapeOK ==
    /\ row \in Scenario \cup {NoRow}
    /\ created \in 0..MaxScenarios
    /\ pc \in [Requests -> PCs]
    /\ scenario \in [Requests -> Scenario \cup {NoRow}]
    /\ change \in [Requests -> Changes \cup {NoChange}]
    /\ overtaken \in [Requests -> BOOLEAN] /\ clashed \in BOOLEAN

TypeInv == ShapeOK /\ EditingHasRead

LEMMA TypeInit == Init => TypeInv
<1> SUFFICES ASSUME Init PROVE TypeInv
  OBVIOUS
<1>1. created \in 0..MaxScenarios
  BY BoundAssumption DEF Init
<1>2. pc \in [Requests -> PCs] /\ EditingHasRead
  BY DEF Init, PCs, EditingHasRead
<1> QED
  BY <1>1, <1>2 DEF Init, TypeInv, ShapeOK

\* The difference an accepted edit writes, and the graph it stands for.
LEMMA NewDiffType ==
    ASSUME TypeInv, NEW r \in Requests, pc[r] = "editing",
           Accepted(ResolvedGraph(scenario[r]), change[r])
    PROVE  /\ Target(ResolvedGraph(scenario[r]), change[r]) \in Graph
           /\ NewDiff(r) \in Diff
<1>1. scenario[r] \in Scenario /\ change[r] \in Change
  BY GraphAssumption DEF TypeInv, EditingHasRead
<1>2. Target(ResolvedGraph(scenario[r]), change[r]) \in Graph
  BY <1>1, ResolvedType, TargetType DEF Accepted
<1> QED
  BY <1>1, <1>2, DiffType DEF NewDiff, Scenario

LEMMA AnswerType ==
    ASSUME TypeInv, NEW r \in Requests, Answer(r)
    PROVE  /\ pc' \in [Requests -> PCs]
           /\ scenario' \in [Requests -> Scenario \cup {NoRow}]
           /\ change' \in [Requests -> Changes \cup {NoChange}]
           /\ EditingHasRead'
BY DEF TypeInv, ShapeOK, EditingHasRead, Answer, PCs

LEMMA TypeNext == TypeInv /\ [Next]_vars => TypeInv'
<1> SUFFICES ASSUME TypeInv, [Next]_vars
             PROVE  TypeInv'
  OBVIOUS
<1>1. ASSUME NEW r \in Requests, FindName(r)
      PROVE  TypeInv'
  BY <1>1 DEF FindName, TypeInv, ShapeOK, EditingHasRead, PCs, history
<1>2. ASSUME NEW r \in Requests, NEW g \in Bases, Create(r, g)
      PROVE  TypeInv'
  <2>1. created' \in 0..MaxScenarios /\ created + 1 \in Ids /\ g \in Graph
    BY <1>2, BoundAssumption, GraphAssumption DEF Create, TypeInv, ShapeOK, Ids
  <2>2. row' \in Scenario /\ expected' \in Graph
    BY <1>2, <2>1, EmptyDiffType DEF Create, Scenario
  <2> QED
    BY <1>2, <2>1, <2>2, AnswerType DEF Create, TypeInv, ShapeOK
<1>3. ASSUME NEW r \in Requests,
             CreateConflicts(r) \/ EditRejected(r) \/ Reread(r) \/ RequestFails(r)
      PROVE  TypeInv'
  BY <1>3, AnswerType
     DEF CreateConflicts, EditRejected, Reread, RequestFails, history, TypeInv, ShapeOK
<1>4. ASSUME NEW r \in Requests, NEW c \in Changes, ReadForEdit(r, c)
      PROVE  TypeInv'
  BY <1>4 DEF ReadForEdit, TypeInv, ShapeOK, EditingHasRead, PCs
<1>5. ASSUME NEW r \in Requests, WriteDiff(r)
      PROVE  TypeInv'
  <2>1. /\ pc' \in [Requests -> PCs]
        /\ scenario' \in [Requests -> Scenario \cup {NoRow}]
        /\ change' \in [Requests -> Changes \cup {NoChange}]
        /\ EditingHasRead' /\ created' \in 0..MaxScenarios
    BY <1>5 DEF WriteDiff, TypeInv, ShapeOK, EditingHasRead, PCs
  <2>2. NewDiff(r) \in Diff
    BY <1>5, NewDiffType DEF WriteDiff
  <2>3. CASE ~Addressed(r)
    BY <1>5, <2>1, <2>3 DEF WriteDiff, history, TypeInv, ShapeOK
  <2>4. CASE Addressed(r)
    <3>1. row \in Scenario /\ row' = [row EXCEPT !.diff = NewDiff(r)]
      BY <1>5, <2>4 DEF WriteDiff, Addressed, TypeInv, ShapeOK
    <3>2. row' \in Scenario
      BY <2>2, <3>1 DEF Scenario
    <3>3. clashed' \in BOOLEAN /\ overtaken' \in [Requests -> BOOLEAN]
      BY <1>5, <2>4 DEF WriteDiff, TypeInv, ShapeOK
    <3> QED
      BY <2>1, <3>2, <3>3 DEF TypeInv, ShapeOK
  <2> QED
    BY <2>3, <2>4
<1>6. CASE Delete
  BY <1>6 DEF Delete, request, TypeInv, ShapeOK, EditingHasRead
<1>7. CASE UNCHANGED vars
  BY <1>7 DEF vars, request, history, TypeInv, ShapeOK, EditingHasRead
<1> QED
  BY <1>1, <1>2, <1>3, <1>4, <1>5, <1>6, <1>7 DEF Next

-----------------------------------------------------------------------------
(* The view *)

\* Ids are given once: what a request read of the scenario that is still there
\* has its snapshot, and is the row itself when no edit was written since.
ReadsAgree ==
    /\ row # NoRow => row.id = created
    /\ \A r \in Requests : pc[r] = "editing" => scenario[r].id <= created
    /\ \A r \in Requests : (pc[r] = "editing" /\ Addressed(r)) =>
          /\ scenario[r].base = row.base
          /\ ~overtaken[r] => scenario[r] = row

ViewIsExpected ==
    /\ ViewTellsTheEdits
    /\ expected \in Graph \cup {NoRow}

ViewInv == TypeInv /\ ReadsAgree /\ ViewIsExpected

LEMMA ViewInit == Init => ViewInv
<1> SUFFICES ASSUME Init PROVE ReadsAgree /\ ViewIsExpected
  BY TypeInit DEF ViewInv
<1> QED
  BY DEF Init, ReadsAgree, ViewIsExpected, ViewTellsTheEdits

LEMMA ViewNext == ViewInv /\ [Next]_vars => ViewInv'
<1> SUFFICES ASSUME ViewInv, [Next]_vars
             PROVE  ReadsAgree' /\ ViewIsExpected'
  BY TypeNext DEF ViewInv
<1> USE DEF ViewInv
<1>0. TypeInv /\ TypeInv' /\ created \in Int
  BY TypeNext DEF TypeInv, ShapeOK
<1>a. ASSUME UNCHANGED <<row, expected, clashed>>
      PROVE  ViewIsExpected'
  BY <1>a DEF ViewIsExpected, ViewTellsTheEdits
\* A request that ends without a write.
<1>b. ASSUME NEW r \in Requests, Answer(r), UNCHANGED <<row, created, history>>
      PROVE  ReadsAgree' /\ ViewIsExpected'
  <2>1. ViewIsExpected'
    BY <1>a, <1>b DEF history
  <2>2. \A s \in Requests : pc'[s] = "editing" => pc[s] = "editing" /\ scenario'[s] = scenario[s]
    BY <1>b, <1>0 DEF Answer, TypeInv, ShapeOK
  <2>3. ReadsAgree'
    BY <1>b, <2>2 DEF ReadsAgree, Addressed, history
  <2> QED
    BY <2>1, <2>3
<1>1. ASSUME NEW r \in Requests, FindName(r)
      PROVE  ReadsAgree' /\ ViewIsExpected'
  <2>1. ViewIsExpected'
    BY <1>1, <1>a DEF FindName, history
  <2>2. ReadsAgree'
    BY <1>1, <1>0 DEF FindName, ReadsAgree, Addressed, history, TypeInv, ShapeOK
  <2> QED
    BY <2>1, <2>2
<1>2. ASSUME NEW r \in Requests, NEW g \in Bases, Create(r, g)
      PROVE  ReadsAgree' /\ ViewIsExpected'
  <2>1. /\ row' = [id |-> created + 1, base |-> g, diff |-> EmptyDiff]
        /\ created' = created + 1 /\ expected' = g /\ clashed' = FALSE
        /\ Answer(r) /\ UNCHANGED overtaken
    BY <1>2 DEF Create
  <2>2. g \in Graph /\ ResolvedGraph(row') = g
    BY <2>1, EmptyDiffResolves, GraphAssumption
  <2>3. ViewIsExpected'
    BY <2>1, <2>2 DEF ViewIsExpected, ViewTellsTheEdits
  <2>4. \A s \in Requests : pc'[s] = "editing" => pc[s] = "editing" /\ scenario'[s] = scenario[s]
    BY <2>1, <1>0 DEF Answer, TypeInv, ShapeOK
  <2>5. \A s \in Requests : pc[s] = "editing" => scenario[s].id \in Int
    BY <1>0 DEF TypeInv, EditingHasRead, Scenario, Ids
  <2>6. \A s \in Requests : pc'[s] = "editing" =>
            scenario'[s].id <= created /\ scenario'[s].id # created + 1
    BY <2>4, <2>5, <1>0 DEF ReadsAgree
  <2>7. \A s \in Requests : pc'[s] = "editing" => scenario'[s].id <= created + 1
    BY <2>4, <2>5, <2>6, <1>0
  <2>8. ReadsAgree'
    BY <2>1, <2>6, <2>7 DEF ReadsAgree, Addressed
  <2> QED
    BY <2>3, <2>8
<1>3. ASSUME NEW r \in Requests,
             CreateConflicts(r) \/ EditRejected(r) \/ Reread(r) \/ RequestFails(r)
      PROVE  ReadsAgree' /\ ViewIsExpected'
  BY <1>3, <1>b DEF CreateConflicts, EditRejected, Reread, RequestFails
<1>4. ASSUME NEW r \in Requests, NEW c \in Changes, ReadForEdit(r, c)
      PROVE  ReadsAgree' /\ ViewIsExpected'
  <2>1. /\ UNCHANGED <<row, created, clashed, expected>> /\ row # NoRow
        /\ pc' = [pc EXCEPT ![r] = "editing"] /\ scenario' = [scenario EXCEPT ![r] = row]
        /\ overtaken' = [overtaken EXCEPT ![r] = FALSE]
    BY <1>4 DEF ReadForEdit
  <2>2. scenario'[r] = row
    BY <2>1, <1>0 DEF TypeInv, ShapeOK
  <2>3. \A s \in Requests \ {r} :
            pc'[s] = pc[s] /\ scenario'[s] = scenario[s] /\ overtaken'[s] = overtaken[s]
    BY <2>1, <1>0 DEF TypeInv, ShapeOK
  <2>4. ReadsAgree'
    BY <2>1, <2>2, <2>3, <1>0 DEF ReadsAgree, Addressed
  <2> QED
    BY <2>1, <2>4, <1>a
<1>5. ASSUME NEW r \in Requests, WriteDiff(r)
      PROVE  ReadsAgree' /\ ViewIsExpected'
  <2> DEFINE view == ResolvedGraph(scenario[r])
             T == Target(view, change[r])
  <2>1. /\ pc[r] = "editing" /\ Accepted(view, change[r]) /\ UNCHANGED created
        /\ pc' = [pc EXCEPT ![r] = "rereading"] /\ scenario' = [scenario EXCEPT ![r] = NoRow]
    BY <1>5 DEF WriteDiff
  <2>2. \A s \in Requests : pc'[s] = "editing" =>
            s # r /\ pc[s] = "editing" /\ scenario'[s] = scenario[s]
    BY <2>1, <1>0 DEF TypeInv, ShapeOK
  <2>3. CASE ~Addressed(r)
    <3>1. UNCHANGED <<row, history>>
      BY <1>5, <2>3 DEF WriteDiff
    <3>2. ReadsAgree'
      BY <3>1, <2>1, <2>2 DEF ReadsAgree, Addressed, history
    <3> QED
      BY <3>1, <3>2, <1>a DEF history
  <2>4. CASE Addressed(r)
    <3>1. /\ row # NoRow /\ row \in Scenario /\ row' = [row EXCEPT !.diff = NewDiff(r)]
          /\ clashed' = (clashed \/ overtaken[r])
          /\ expected' = IF clashed' THEN NoRow ELSE Target(expected, change[r])
          /\ overtaken' = [s \in Requests |-> s # r /\ pc[s] = "editing"]
      BY <1>5, <2>4, <1>0 DEF WriteDiff, Addressed, TypeInv, ShapeOK
    <3>2. T \in Graph /\ NewDiff(r) = ComputeDiff(scenario[r].base, T)
      BY <2>1, <1>0, NewDiffType DEF NewDiff
    <3>3. scenario[r].base = row.base /\ row.base \in Graph
      BY <2>1, <2>4, <3>1 DEF ReadsAgree, Scenario
    <3>4. /\ row'.id = row.id /\ row'.base = row.base
          /\ row'.diff = ComputeDiff(row.base, T)
      BY <3>1, <3>2, <3>3 DEF Scenario
    <3>5. ResolvedGraph(row') = T
      <4>1. \A g \in Graph : \A s :
                s.base = row.base /\ s.diff = ComputeDiff(row.base, g) => ResolvedGraph(s) = g
        BY <3>3, DiffRoundTrip
      <4> HIDE DEF T
      <4> QED
        BY <3>2, <3>4, <4>1
    <3>6. Closed(T)
      BY <2>1 DEF Accepted
    <3>7. ~clashed' => expected' = T
      <4>1. SUFFICES ASSUME ~clashed' PROVE expected' = T
        OBVIOUS
      <4>2. ~clashed /\ ~overtaken[r]
        BY <3>1, <4>1
      <4>3. scenario[r] = row
        BY <2>1, <2>4, <4>2 DEF ReadsAgree
      <4>4. expected = view
        BY <3>1, <4>2, <4>3 DEF ViewIsExpected, ViewTellsTheEdits
      <4> QED
        BY <3>1, <4>1, <4>4
    <3>8. ViewIsExpected'
      BY <3>1, <3>2, <3>5, <3>6, <3>7 DEF ViewIsExpected, ViewTellsTheEdits, Closed
    <3>9. ReadsAgree'
      <4>1. \A s \in Requests : pc'[s] = "editing" => overtaken'[s]
        BY <2>2, <3>1
      <4> QED
        BY <2>1, <2>2, <3>1, <3>4, <4>1 DEF ReadsAgree, Addressed
    <3> QED
      BY <3>8, <3>9
  <2> QED
    BY <2>3, <2>4
<1>6. CASE Delete
  BY <1>6 DEF Delete, request, ReadsAgree, Addressed, ViewIsExpected, ViewTellsTheEdits
<1>7. CASE UNCHANGED vars
  <2>1. ViewIsExpected'
    BY <1>7, <1>a DEF vars, history
  <2> QED
    BY <1>7, <2>1 DEF vars, request, history, ReadsAgree, Addressed
<1> QED
  BY <1>1, <1>2, <1>3, <1>4, <1>5, <1>6, <1>7 DEF Next

\* The variables keep their types: a written difference is one, and edits that
\* did not clash apply to the graph all edits before them have given.
THEOREM TypeCorrect == Spec => []TypeOK
<1>1. ViewInv => TypeOK
  BY DEF ViewInv, ViewIsExpected, TypeInv, ShapeOK, TypeOK
<1> QED
  BY ViewInit, ViewNext, <1>1, PTL DEF Spec

\* For any graph and any edits: the view of an edited scenario never has an edge
\* without its ends, whether its snapshot had one or not, and is the snapshot with
\* all written edits applied to it as long as no edit was written over one it had
\* not read.
THEOREM ViewIsTold == Spec => []ViewTellsTheEdits
<1>1. ViewInv => ViewTellsTheEdits
  BY DEF ViewInv, ViewIsExpected
<1> QED
  BY ViewInit, ViewNext, <1>1, PTL DEF Spec
=============================================================================
