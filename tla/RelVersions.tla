---------------------------- MODULE RelVersions ----------------------------
(***************************************************************************)
(* How Neo4jStorage.store_relationships versions the edges of one logical  *)
(* relationship, that is one (type, source, target): find the open edge,   *)
(* write first versions in one MERGE, close and re-create an edge whose    *)
(* properties changed.  Each query is a transaction of its own, so every   *)
(* query is a step, and a query that fails may or may not have taken       *)
(* effect.  Several transforms write the same relationship at a time, each *)
(* in its own scope; one transform writes sequentially, and repeats a      *)
(* call that failed.                                                       *)
(*                                                                         *)
(* The nodes stage CREATEs its vertices, so a repeated batch of nodes, and *)
(* any other graph that names the same entity, leaves several vertices     *)
(* with the id of an end.  The queries MATCH the ends by that id alone and *)
(* write one edge for every pair of such vertices.                         *)
(***************************************************************************)
EXTENDS Integers, Sequences, FiniteSets

CONSTANTS
    Transforms,   \* transform_ids that write the relationship
    NumIds,       \* ids the callers give the relationship: 1..NumIds
    Keys,         \* user properties of an edge
    Vals,         \* their values
    Batches,      \* calls: sequences of [id, props], props a function of Keys
    MaxPairs,     \* bound: pairs of vertices with the ids of the two ends
    MaxCalls,     \* bound: calls of store_relationships per transform
    MaxFaults     \* bound: queries that fail

\* A key without a value (values are positive).
Absent == 0
Props == [Keys -> Vals \cup {Absent}]
NoProps == [k \in Keys |-> Absent]
RelIds == 1..NumIds

ASSUME DataAssumption ==
    /\ NumIds \in Nat \ {0}
    /\ Vals \subseteq Nat \ {0}
ASSUME BatchAssumption ==
    \A b \in Batches : b \in Seq([id : RelIds, props : Props]) /\ b # <<>>
ASSUME BoundAssumption == MaxPairs \in Nat \ {0} /\ MaxCalls \in Nat /\ MaxFaults \in Nat

\* No edge found.  Ids above RelIds are minted here for new versions (uuid4).
None == [id |-> 0, props |-> NoProps]

VARIABLES
    edges,       \* all edges of the relationship: [tid, id, props, open, at]
    pairs,       \* number of pairs of vertices with the ids of its ends
    made,        \* number of ids minted
    pc,          \* where each transform's call stands
    batch,       \* the relationships of the call
    pos,         \* the one the per-relationship loop is at
    found,       \* existing_lookup of the pair
    findFailed,  \* the pair's type is in find_failed_types
    stored,      \* stored_rels
    calls,       \* calls started
    failed,      \* the last call did not succeed
    faults,
    torn,        \* history: a call stopped between closing and re-creating
    unseen       \* history: a lost MERGE whose relationship is not the loop's first

callVars == <<pc, batch, pos, found, findFailed, stored, calls, failed>>
vars == <<edges, pairs, made, callVars, faults, torn, unseen>>

PCs == {"idle", "find", "create", "loop", "version"}

Edges(t) == {e \in edges : e.tid = t}
Open(t)  == {e \in Edges(t) : e.open}

Ids == 0..(NumIds + made)

TypeOK ==
    /\ made \in Nat
    /\ pairs \in 1..MaxPairs
    /\ edges \subseteq [tid : Transforms, id : Ids \ {0}, props : Props, open : BOOLEAN,
                        at : 1..pairs]
    /\ pc \in [Transforms -> PCs]
    /\ batch \in [Transforms -> Batches \cup {<<>>}]
    /\ pos \in [Transforms -> Nat \ {0}] /\ \A t \in Transforms : pos[t] <= Len(batch[t]) + 1
    /\ found \in [Transforms -> [id : Ids, props : Props]]
    /\ findFailed \in [Transforms -> BOOLEAN]
    /\ stored \in [Transforms -> SUBSET RelIds]
    /\ calls \in [Transforms -> 0..MaxCalls]
    /\ failed \in [Transforms -> BOOLEAN]
    /\ faults \in 0..MaxFaults
    /\ torn \subseteq Transforms /\ unseen \subseteq Transforms

Init ==
    /\ edges = {} /\ pairs = 1 /\ made = 0
    /\ pc = [t \in Transforms |-> "idle"]
    /\ batch = [t \in Transforms |-> <<>>]
    /\ pos = [t \in Transforms |-> 1]
    /\ found = [t \in Transforms |-> None]
    /\ findFailed = [t \in Transforms |-> FALSE]
    /\ stored = [t \in Transforms |-> {}]
    /\ calls = [t \in Transforms |-> 0]
    /\ failed = [t \in Transforms |-> FALSE]
    /\ faults = 0 /\ torn = {} /\ unseen = {}

-----------------------------------------------------------------------------
(* Queries *)

Fault == faults < MaxFaults /\ faults' = faults + 1

\* What one query leaves behind: an open edge between every two vertices.
Written(t, id, props) ==
    {[tid |-> t, id |-> id, props |-> props, open |-> TRUE, at |-> p] : p \in 1..pairs}

\* MERGE ... {id, __tid} SET r = props: between any two vertices the edge with that
\* id, open or closed, is taken and overwritten; without one it is created.
Merged(t, id, props) ==
    {e \in edges : ~(e.tid = t /\ e.id = id)} \cup Written(t, id, props)

\* MUTATION of Closed: the close is not scoped to the transform.
ClosedEverywhere(t, id) ==
    {IF e.id = id THEN [e EXCEPT !.open = FALSE] ELSE e : e \in edges}

\* SET r.__valid_to on all the edges with that id in the transform's scope.
Closed(t, id) ==
    {IF e.tid = t /\ e.id = id THEN [e EXCEPT !.open = FALSE] ELSE e : e \in edges}

\* MUTATION of Versioned: MERGE in place of CREATE takes the edge just closed.
VersionedByMerge(t, props) == Merged(t, batch[t][pos[t]].id, props)

\* CREATE of the next version under a fresh id.
FreshId == NumIds + made + 1
Versioned(t, props) == edges \cup Written(t, FreshId, props)

\* {**existing_props, **new_props}; None values have been dropped.
MergedProps(old, new) == [k \in Keys |-> IF new[k] # Absent THEN new[k] ELSE old[k]]

\* What the find query may return: any edge __valid_to IS NULL of this transform.
Lookups(t) ==
    IF Open(t) = {} THEN {None}
    ELSE {[id |-> e.id, props |-> e.props] : e \in Open(t)}

\* Another batch of nodes has a vertex with the id of an end: with each vertex of
\* the other end it is a pair.
CopyVertex ==
    /\ pairs' \in (pairs + 1)..MaxPairs
    /\ UNCHANGED <<edges, made, callVars, faults, torn, unseen>>

-----------------------------------------------------------------------------
(* The order of the per-relationship loop *)

\* An id is written once, as its first relationship has it ...
FirstAt(b, i) ==
    CHOOSE j \in 1..i : b[j].id = b[i].id /\ \A k \in 1..(j - 1) : b[k].id # b[i].id

\* ... in the order of rel_id_to_index, which keeps an id's last position.
Turns(b) == {i \in 1..Len(b) : \A k \in (i + 1)..Len(b) : b[k].id # b[i].id}

\* The loop comes to another id before that of the batch's first relationship.
Overtaken(b) ==
    \E i \in Turns(b) : b[i].id # b[1].id /\ \A k \in Turns(b) : i <= k

-----------------------------------------------------------------------------
(* One call of store_relationships *)

\* MUTATION of StartCall: one call too many.
StartCallOnceMore(t) ==
    /\ pc[t] = "idle" /\ calls[t] <= MaxCalls
    /\ calls' = [calls EXCEPT ![t] = @ + 1]
    /\ UNCHANGED <<edges, made, pc, batch, pos, found, findFailed, stored, failed, faults, torn, unseen>>

\* The task repeats a failed batch; otherwise any batch may come next.
StartCall(t) ==
    /\ pc[t] = "idle" /\ calls[t] < MaxCalls
    /\ \E b \in IF failed[t] THEN {batch[t]} ELSE Batches :
          batch' = [batch EXCEPT ![t] = b]
    /\ pc' = [pc EXCEPT ![t] = "find"]
    /\ pos' = [pos EXCEPT ![t] = 1]
    /\ found' = [found EXCEPT ![t] = None]
    /\ findFailed' = [findFailed EXCEPT ![t] = FALSE]
    /\ stored' = [stored EXCEPT ![t] = {}]
    /\ calls' = [calls EXCEPT ![t] = @ + 1]
    /\ failed' = [failed EXCEPT ![t] = FALSE]
    /\ UNCHANGED <<edges, made, faults, torn, unseen>>

\* The call ends without success, or a query raised StorageError out of the loop.
CallFails(t) ==
    /\ pc' = [pc EXCEPT ![t] = "idle"]
    /\ failed' = [failed EXCEPT ![t] = TRUE]

\* _batched_find_existing_relationships, and the partition: with an open edge
\* everything is deferred to the loop, else the first relationship is not.
Find(t) ==
    /\ pc[t] = "find"
    /\ \E e \in Lookups(t) :
          /\ found' = [found EXCEPT ![t] = e]
          /\ pc' = [pc EXCEPT ![t] = IF e = None THEN "create" ELSE "loop"]
    /\ UNCHANGED <<edges, made, batch, pos, findFailed, stored, calls, failed, faults, torn, unseen>>

\* The type joins find_failed_types; its relationships are looked up one by one.
FindFails(t) ==
    /\ pc[t] = "find"
    /\ Fault
    /\ findFailed' = [findFailed EXCEPT ![t] = TRUE]
    /\ pc' = [pc EXCEPT ![t] = "loop"]
    /\ UNCHANGED <<edges, made, batch, pos, found, stored, calls, failed, torn, unseen>>

\* The relationship written is from now on the one in existing_lookup.
Remember(t, id, props) ==
    found' = IF findFailed[t] THEN found
             ELSE [found EXCEPT ![t] = [id |-> id, props |-> props]]

\* MUTATION of CreateFirst: existing_lookup keeps the snapshot taken before.
CreateFirstForgotten(t) ==
    LET rel == batch[t][1] IN
    /\ pc[t] = "create"
    /\ edges' = Merged(t, rel.id, rel.props)
    /\ stored' = [stored EXCEPT ![t] = @ \cup {rel.id}]
    /\ pc' = [pc EXCEPT ![t] = "loop"]
    /\ UNCHANGED <<made, batch, pos, found, findFailed, calls, failed, faults, torn, unseen>>

\* _batched_create_first_time_relationships of the first relationship of the pair.
CreateFirst(t) ==
    LET rel == batch[t][1] IN
    /\ pc[t] = "create"
    /\ edges' = Merged(t, rel.id, rel.props)
    /\ Remember(t, rel.id, rel.props)
    /\ stored' = [stored EXCEPT ![t] = @ \cup {rel.id}]
    /\ pc' = [pc EXCEPT ![t] = "loop"]
    /\ UNCHANGED <<made, batch, pos, findFailed, calls, failed, faults, torn, unseen>>

\* The type joins write_failed_types: the relationship goes to the loop as well.
CreateFirstFails(t) ==
    /\ pc[t] = "create"
    /\ Fault
    /\ \/ UNCHANGED <<edges, unseen>>
       \/ /\ edges' = Merged(t, batch[t][1].id, batch[t][1].props)
          /\ unseen' = IF Overtaken(batch[t]) THEN unseen \cup {t} ELSE unseen
    /\ pc' = [pc EXCEPT ![t] = "loop"]
    /\ UNCHANGED <<made, batch, pos, found, findFailed, stored, calls, failed, torn>>

\* The relationship the loop is at, unless it is through.
InLoop(t) == pc[t] = "loop" /\ pos[t] <= Len(batch[t])
Current(t) == batch[t][FirstAt(batch[t], pos[t])]

\* It is the relationship's turn, and the batched MERGE has not written it.
Due(t) == InLoop(t) /\ pos[t] \in Turns(batch[t]) /\ Current(t).id \notin stored[t]

\* existing_lookup, or _find_existing_relationship for a type whose find failed.
Existing(t) == IF findFailed[t] THEN Lookups(t) ELSE {found[t]}

\* A relationship written by the batched MERGE, or an id that comes again.
SkipStored(t) ==
    /\ InLoop(t) /\ ~Due(t)
    /\ pos' = [pos EXCEPT ![t] = @ + 1]
    /\ UNCHANGED <<edges, made, pc, batch, found, findFailed, stored, calls, failed, faults, torn, unseen>>

\* Case 1: the open edge has these properties already, or there are none at all.
KeepExisting(t) ==
    /\ Due(t)
    /\ \E e \in Existing(t) : e # None /\ e.props = Current(t).props
    /\ stored' = [stored EXCEPT ![t] = @ \cup {Current(t).id}]
    /\ pos' = [pos EXCEPT ![t] = @ + 1]
    /\ UNCHANGED <<edges, made, pc, batch, found, findFailed, calls, failed, faults, torn, unseen>>

\* Case 2, first query: _close_existing_relationship.
CloseExisting(t) ==
    /\ Due(t)
    /\ \E e \in Existing(t) :
          /\ e # None /\ e.props # Current(t).props
          /\ edges' = Closed(t, e.id)
          /\ found' = [found EXCEPT ![t] = e]
    /\ pc' = [pc EXCEPT ![t] = "version"]
    /\ UNCHANGED <<made, batch, pos, findFailed, stored, calls, failed, faults, torn, unseen>>

CloseExistingFails(t) ==
    /\ Due(t)
    /\ Fault
    /\ \E e \in Existing(t) :
          /\ e # None /\ e.props # Current(t).props
          /\ \/ UNCHANGED <<edges, torn>>
             \/ edges' = Closed(t, e.id) /\ torn' = torn \cup {t}
    /\ CallFails(t)
    /\ UNCHANGED <<made, batch, pos, found, findFailed, stored, calls, unseen>>

\* Case 2, second query: CREATE the next version.
CreateVersion(t) ==
    LET props == MergedProps(found[t].props, Current(t).props) IN
    /\ pc[t] = "version"
    /\ edges' = Versioned(t, props)
    /\ Remember(t, FreshId, props)
    /\ made' = made + 1
    /\ stored' = [stored EXCEPT ![t] = @ \cup {Current(t).id}]
    /\ pos' = [pos EXCEPT ![t] = @ + 1]
    /\ pc' = [pc EXCEPT ![t] = "loop"]
    /\ UNCHANGED <<batch, findFailed, calls, failed, faults, torn, unseen>>

CreateVersionFails(t) ==
    /\ pc[t] = "version"
    /\ Fault
    /\ \/ edges' = Versioned(t, MergedProps(found[t].props, Current(t).props))
          /\ UNCHANGED torn
       \/ UNCHANGED edges /\ torn' = torn \cup {t}
    /\ made' = made + 1
    /\ CallFails(t)
    /\ UNCHANGED <<batch, pos, found, findFailed, stored, calls, unseen>>

\* Case 3: no open edge, MERGE under the caller's id.
CreateNew(t) ==
    /\ Due(t)
    /\ None \in Existing(t)
    /\ edges' = Merged(t, Current(t).id, Current(t).props)
    /\ Remember(t, Current(t).id, Current(t).props)
    /\ stored' = [stored EXCEPT ![t] = @ \cup {Current(t).id}]
    /\ pos' = [pos EXCEPT ![t] = @ + 1]
    /\ UNCHANGED <<made, pc, batch, findFailed, calls, failed, faults, torn, unseen>>

CreateNewFails(t) ==
    /\ Due(t)
    /\ None \in Existing(t)
    /\ Fault
    /\ edges' \in {edges, Merged(t, Current(t).id, Current(t).props)}
    /\ CallFails(t)
    /\ UNCHANGED <<made, batch, pos, found, findFailed, stored, calls, torn, unseen>>

\* The loop is through; the adapter's checkpoint decides about success as well.
EndCall(t) ==
    /\ pc[t] = "loop" /\ pos[t] = Len(batch[t]) + 1
    /\ \/ pc' = [pc EXCEPT ![t] = "idle"] /\ UNCHANGED <<failed, faults>>
       \/ CallFails(t) /\ Fault
    /\ UNCHANGED <<edges, made, batch, pos, found, findFailed, stored, calls, torn, unseen>>

Step(t) ==
    \/ Find(t) \/ FindFails(t) \/ CreateFirst(t) \/ CreateFirstFails(t)
    \/ SkipStored(t) \/ KeepExisting(t)
    \/ CloseExisting(t) \/ CloseExistingFails(t)
    \/ CreateVersion(t) \/ CreateVersionFails(t)
    \/ CreateNew(t) \/ CreateNewFails(t)
    \/ EndCall(t)

Next ==
    \/ \E t \in Transforms : (StartCall(t) \/ Step(t)) /\ UNCHANGED pairs
    \/ CopyVertex

Spec == Init /\ [][Next]_vars

-----------------------------------------------------------------------------
(* Properties *)

\* No interleaving of calls, failures and repetitions leaves a transform with open
\* edges of two versions, so between any two vertices at most one is open; except
\* when the batched MERGE took effect, its answer was lost and its relationship,
\* whose id comes again later, is not the first that the loop writes.
AtMostOneOpenEdge ==
    \A t \in Transforms \ unseen : \A e, f \in Open(t) : [e EXCEPT !.at = f.at] = f

\* props a call may write last: those of its last turn or, if the batched MERGE had
\* written the first relationship, of its last turn for another id.
LastWritten(b) ==
    {b[FirstAt(b, i)].props : i \in
        {i \in Turns(b) : \/ \A k \in Turns(b) : k <= i
                          \/ /\ b[i].id # b[1].id
                             /\ \A k \in Turns(b) : k <= i \/ b[k].id = b[1].id}}

\* After a call that succeeded an edge is open with what the call wrote last, also
\* when earlier calls broke off half way; and it has every property an earlier
\* version had, with a newer value or the old one, unless a call broke off between
\* two versions or two of them were open at a time.
SuccessIsVisible ==
    \A t \in Transforms : (pc[t] = "idle" /\ calls[t] > 0 /\ ~failed[t]) =>
        \E e \in Open(t), w \in LastWritten(batch[t]) : \A k \in Keys :
            /\ w[k] # Absent => e.props[k] = w[k]
            /\ (t \notin torn \cup unseen /\ \E d \in Edges(t) : d.props[k] # Absent)
                  => e.props[k] # Absent

\* As long as no call stopped between close and re-create, a closed version is
\* never touched again.
ClosedVersionsKept ==
    [][\A t \in Transforms : t \notin torn' =>
          \A e \in Edges(t) : ~e.open => e \in edges']_vars
=============================================================================
