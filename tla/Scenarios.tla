------------------------------- MODULE Scenarios -------------------------------
(***************************************************************************)
(* What-if scenarios: a copy of a transform's graph that the user edits    *)
(* while the graph itself goes on.  A scenario keeps the copy as it was    *)
(* taken (graph_snapshot, never written again) and all its edits as one    *)
(* difference to it (graph_diff); what the API shows is the one applied    *)
(* to the other.  An edit reads the row, applies its batch to the view,    *)
(* checks the result, computes the difference anew and writes it with a    *)
(* second statement, which looks at no version: other requests of the      *)
(* user, to create, edit or delete the scenario, come in between.          *)
(*                                                                         *)
(* Scenarios of one user, one transform and one name; without a database   *)
(* the same code runs without a suspension between read and write, which   *)
(* is one of the interleavings here.                                       *)
(***************************************************************************)
EXTENDS Integers

CONSTANTS
    NodeIds, EdgeIds,
    Values,          \* what the properties of a node or of an edge can be
    Gone,            \* no node, no edge of that id
    NoRow,           \* no scenario of that name
    Bases,           \* graphs a transform can have; the in-memory store's may dangle:
                     \* it deletes a node without the edges the request does not name
    Changes,         \* edit batches: SaveGraphRequest
    Requests,        \* requests under way
    MaxScenarios     \* bound: scenarios created in one behaviour

Edges == [source : NodeIds, target : NodeIds, value : Values]

Graph == [nodes : [NodeIds -> Values \cup {Gone}], edges : [EdgeIds -> Edges \cup {Gone}]]

\* Every edge joins two nodes of the graph.
Closed(g) ==
    \A e \in EdgeIds : g.edges[e] # Gone =>
        g.nodes[g.edges[e].source] # Gone /\ g.nodes[g.edges[e].target] # Gone

PartialFunctions(D, R) == UNION {[S -> R] : S \in SUBSET D}

Diff ==
    [addedNodes : PartialFunctions(NodeIds, Values), removedNodes : SUBSET NodeIds,
     updatedNodes : PartialFunctions(NodeIds, Values),
     addedEdges : PartialFunctions(EdgeIds, Edges), removedEdges : SUBSET EdgeIds,
     updatedEdges : PartialFunctions(EdgeIds, Edges)]

\* Created and updated ids with their values, deleted ids.
Change ==
    [createdNodes : PartialFunctions(NodeIds, Values),
     updatedNodes : PartialFunctions(NodeIds, Values), deletedNodes : SUBSET NodeIds,
     createdEdges : PartialFunctions(EdgeIds, Edges),
     updatedEdges : PartialFunctions(EdgeIds, Values), deletedEdges : SUBSET EdgeIds]

ASSUME GraphAssumption == Gone \notin Values \cup Edges /\ Bases \subseteq Graph /\ Changes \subseteq Change
ASSUME BoundAssumption == MaxScenarios \in Nat

VARIABLES
    row,         \* the scenario of the name: id, snapshot and difference, or NoRow
    created,     \* scenarios created so far; the latest has this id
    pc,          \* request -> where it stands
    scenario,    \* request -> the row it has read
    change,      \* request -> the batch of an edit
    overtaken,   \* history: request -> an edit was written since it read the row
    clashed,     \* history: an edit was written over one it had not seen
    expected     \* history: the snapshot with all written edits applied, in order

request == <<pc, scenario, change>>
history == <<overtaken, clashed, expected>>
vars == <<row, created, request, history>>

Ids == 1..MaxScenarios
PCs == {"free", "naming", "editing", "rereading"}
Scenario == [id : Ids, base : Graph, diff : Diff]
NoChange == [createdNodes |-> <<>>, updatedNodes |-> <<>>, deletedNodes |-> {},
             createdEdges |-> <<>>, updatedEdges |-> <<>>, deletedEdges |-> {}]

-----------------------------------------------------------------------------
(* Graphs and differences *)

EmptyDiff ==
    [addedNodes |-> <<>>, removedNodes |-> {}, updatedNodes |-> <<>>,
     addedEdges |-> <<>>, removedEdges |-> {}, updatedEdges |-> <<>>]

\* _compute_diff for the ids of one kind.
AddedTo(base, target) ==
    [x \in {x \in DOMAIN base : base[x] = Gone /\ target[x] # Gone} |-> target[x]]
UpdatedIn(base, target) ==
    [x \in {x \in DOMAIN base : Gone \notin {base[x], target[x]} /\ base[x] # target[x]}
        |-> target[x]]
RemovedFrom(base, target) == {x \in DOMAIN base : base[x] # Gone /\ target[x] = Gone}

ComputeDiff(base, target) ==
    [addedNodes   |-> AddedTo(base.nodes, target.nodes),
     removedNodes |-> RemovedFrom(base.nodes, target.nodes),
     updatedNodes |-> UpdatedIn(base.nodes, target.nodes),
     addedEdges   |-> AddedTo(base.edges, target.edges),
     removedEdges |-> RemovedFrom(base.edges, target.edges),
     updatedEdges |-> UpdatedIn(base.edges, target.edges)]

\* Removed first, then added, then updated: the later one wins.
Overlaid(base, removed, added, updated) ==
    [x \in DOMAIN base |->
        IF x \in DOMAIN updated THEN updated[x]
        ELSE IF x \in DOMAIN added THEN added[x]
        ELSE IF x \in removed THEN Gone ELSE base[x]]

\* resolved_graph: what every reader of the scenario is shown.
ResolvedGraph(s) ==
    [nodes |-> Overlaid(s.base.nodes, s.diff.removedNodes, s.diff.addedNodes, s.diff.updatedNodes),
     edges |-> Overlaid(s.base.edges, s.diff.removedEdges, s.diff.addedEdges, s.diff.updatedEdges)]

-----------------------------------------------------------------------------
(* One batch of edits *)

\* Creations, then updates, then deletions.
NodesAfter(g, c) ==
    [n \in NodeIds |->
        IF n \in c.deletedNodes THEN Gone
        ELSE IF n \in DOMAIN c.updatedNodes THEN c.updatedNodes[n]
        ELSE IF n \in DOMAIN c.createdNodes THEN c.createdNodes[n] ELSE g.nodes[n]]

EdgesAfter(g, c) ==
    LET before(e) == IF e \in DOMAIN c.createdEdges THEN c.createdEdges[e] ELSE g.edges[e]
    IN  [e \in EdgeIds |->
            IF e \in c.deletedEdges THEN Gone
            ELSE IF e \in DOMAIN c.updatedEdges
                 THEN [before(e) EXCEPT !.value = c.updatedEdges[e]] ELSE before(e)]

Target(g, c) == [nodes |-> NodesAfter(g, c), edges |-> EdgesAfter(g, c)]

\* What is created is new; what is updated or deleted is there, or created by the batch.
Applies(g, c) ==
    /\ \A n \in DOMAIN c.createdNodes : g.nodes[n] = Gone
    /\ \A n \in DOMAIN c.updatedNodes \cup c.deletedNodes :
          g.nodes[n] # Gone \/ n \in DOMAIN c.createdNodes
    /\ \A e \in DOMAIN c.createdEdges : g.edges[e] = Gone
    /\ \A e \in DOMAIN c.updatedEdges \cup c.deletedEdges :
          g.edges[e] # Gone \/ e \in DOMAIN c.createdEdges

\* Every edge of the result must have its ends, those the batch does not touch and
\* the snapshot's own as well.
Accepted(g, c) == Applies(g, c) /\ Closed(Target(g, c))

-----------------------------------------------------------------------------
(* The requests *)

TypeOK ==
    /\ row \in Scenario \cup {NoRow}
    /\ created \in 0..MaxScenarios
    /\ pc \in [Requests -> PCs]
    /\ scenario \in [Requests -> Scenario \cup {NoRow}]
    /\ change \in [Requests -> Changes \cup {NoChange}]
    /\ overtaken \in [Requests -> BOOLEAN] /\ clashed \in BOOLEAN
    /\ expected \in Graph \cup {NoRow}

Init ==
    /\ row = NoRow /\ created = 0
    /\ pc = [r \in Requests |-> "free"]
    /\ scenario = [r \in Requests |-> NoRow]
    /\ change = [r \in Requests |-> NoChange]
    /\ overtaken = [r \in Requests |-> FALSE] /\ clashed = FALSE /\ expected = NoRow

Answer(r) ==
    /\ pc' = [pc EXCEPT ![r] = "free"]
    /\ scenario' = [scenario EXCEPT ![r] = NoRow]
    /\ change' = [change EXCEPT ![r] = NoChange]

\* create_from_transform finds no scenario of the name; one that is there is a 409.
FindName(r) ==
    /\ pc[r] = "free" /\ row = NoRow
    /\ pc' = [pc EXCEPT ![r] = "naming"]
    /\ UNCHANGED <<row, created, scenario, change, history>>

\* The graph was loaded before the name was looked for.
Create(r, g) ==
    /\ pc[r] = "naming" /\ row = NoRow /\ created < MaxScenarios
    /\ created' = created + 1
    /\ row' = [id |-> created + 1, base |-> g, diff |-> EmptyDiff]
    /\ Answer(r)
    /\ clashed' = FALSE /\ expected' = g
    /\ UNCHANGED overtaken

\* Another request was faster: the unique index raises, a 409 as well.
CreateConflicts(r) ==
    /\ pc[r] = "naming" /\ row # NoRow
    /\ Answer(r)
    /\ UNCHANGED <<row, created, history>>

\* An edit of the scenario there is; an id that is gone is a 404 and changes nothing.
ReadForEdit(r, c) ==
    /\ pc[r] = "free" /\ row # NoRow
    /\ pc' = [pc EXCEPT ![r] = "editing"]
    /\ scenario' = [scenario EXCEPT ![r] = row]
    /\ change' = [change EXCEPT ![r] = c]
    /\ overtaken' = [overtaken EXCEPT ![r] = FALSE]
    /\ UNCHANGED <<row, created, clashed, expected>>

\* ScenarioMutationError: a 422 before anything is written.
EditRejected(r) ==
    /\ pc[r] = "editing" /\ ~Accepted(ResolvedGraph(scenario[r]), change[r])
    /\ Answer(r)
    /\ UNCHANGED <<row, created, history>>

\* MUTATION of NewDiff: what the batch changes in the view, not in the snapshot.
DiffOfBatch(r) ==
    LET view == ResolvedGraph(scenario[r]) IN ComputeDiff(view, Target(view, change[r]))

NewDiff(r) ==
    ComputeDiff(scenario[r].base, Target(ResolvedGraph(scenario[r]), change[r]))

Addressed(r) == row # NoRow /\ row.id = scenario[r].id

\* UPDATE scenarios SET graph_diff: by id, whatever the row holds by now.
WriteDiff(r) ==
    /\ pc[r] = "editing" /\ Accepted(ResolvedGraph(scenario[r]), change[r])
    /\ pc' = [pc EXCEPT ![r] = "rereading"]
    /\ scenario' = [scenario EXCEPT ![r] = NoRow]
    /\ change' = [change EXCEPT ![r] = NoChange]
    /\ IF Addressed(r)
       THEN /\ row' = [row EXCEPT !.diff = NewDiff(r)]
            /\ clashed' = (clashed \/ overtaken[r])
            /\ expected' = IF clashed' THEN NoRow ELSE Target(expected, change[r])
            /\ overtaken' = [s \in Requests |-> s # r /\ pc[s] = "editing"]
       ELSE UNCHANGED <<row, history>>
    /\ UNCHANGED created

\* The second read: the scenario as it is now, or a 404 if it was deleted.
Reread(r) ==
    /\ pc[r] = "rereading"
    /\ Answer(r)
    /\ UNCHANGED <<row, created, history>>

\* The database fails: a 500 before the write, or after it for an edit that stands.
RequestFails(r) ==
    /\ pc[r] \in {"naming", "editing", "rereading"}
    /\ Answer(r)
    /\ UNCHANGED <<row, created, history>>

Delete ==
    /\ row # NoRow
    /\ row' = NoRow /\ expected' = NoRow /\ clashed' = FALSE
    /\ UNCHANGED <<created, request, overtaken>>

Next ==
    \/ \E r \in Requests :
          \/ FindName(r) \/ (\E g \in Bases : Create(r, g)) \/ CreateConflicts(r)
          \/ \E c \in Changes : ReadForEdit(r, c)
          \/ EditRejected(r) \/ WriteDiff(r) \/ Reread(r) \/ RequestFails(r)
    \/ Delete

Spec == Init /\ [][Next]_vars

-----------------------------------------------------------------------------
(* Properties *)

\* However edits and deletions interleave, a scenario that differs from its snapshot
\* has no edge without its ends, whatever the snapshot had: one written edit repairs
\* it for good.  And as long as no edit was written over one it had not read, the
\* view is the snapshot with every written edit applied to it: the difference loses
\* nothing, neither edits of edits nor ids that come back.
ViewTellsTheEdits ==
    row # NoRow =>
        /\ row.diff # EmptyDiff => Closed(ResolvedGraph(row))
        /\ ~clashed => ResolvedGraph(row) = expected
=============================================================================
