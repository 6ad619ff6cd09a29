------------------------- MODULE RelVersionsProofs -------------------------
(***************************************************************************)
(* Proofs about RelVersions, for any transforms, batches and properties,   *)
(* and any number of calls and faults.                                     *)
(***************************************************************************)
EXTENDS RelVersions, TLAPS, FiniteSetTheorems

-----------------------------------------------------------------------------
(* Queries *)

\* Edges that differ only in the vertices they are between are one version.
VersionOf(e) == [tid |-> e.tid, id |-> e.id, props |-> e.props, open |-> e.open]
EdgesIn(E, t) == {VersionOf(e) : e \in {d \in E : d.tid = t}}
OpenIn(E, t)  == {VersionOf(e) : e \in {d \in E : d.tid = t /\ d.open}}

OpenEdge(t, id, props) == [tid |-> t, id |-> id, props |-> props, open |-> TRUE]

LEMMA OpenIsOpenIn ==
    \A t : /\ \A e \in Open(t) : VersionOf(e) \in OpenIn(edges, t)
           /\ \A v \in OpenIn(edges, t) : \E e \in Open(t) : v = VersionOf(e)
BY DEF Open, Edges, OpenIn

LEMMA EdgesIsEdgesIn ==
    \A t : /\ \A e \in Edges(t) : VersionOf(e) \in EdgesIn(edges, t)
           /\ \A v \in EdgesIn(edges, t) : \E e \in Edges(t) : v = VersionOf(e)
BY DEF Edges, EdgesIn

LEMMA VersionFields ==
    \A e : /\ VersionOf(e).tid = e.tid /\ VersionOf(e).id = e.id
           /\ VersionOf(e).props = e.props /\ VersionOf(e).open = e.open
BY DEF VersionOf

\* What a query writes is one version.
LEMMA WrittenIsOne ==
    ASSUME TypeOK, NEW t \in Transforms, NEW id, NEW props
    PROVE  /\ \A e \in Written(t, id, props) : e.tid = t /\ e.id = id /\ e.open
                                                /\ VersionOf(e) = OpenEdge(t, id, props)
           /\ \E e : e \in Written(t, id, props)
<1> DEFINE edge(p) == [tid |-> t, id |-> id, props |-> props, open |-> TRUE, at |-> p]
<1>1. 1 \in 1..pairs
  BY DEF TypeOK
<1>2. \A p : /\ edge(p).tid = t /\ edge(p).id = id /\ edge(p).open
              /\ VersionOf(edge(p)) = OpenEdge(t, id, props)
  BY DEF VersionOf, OpenEdge
<1>3. Written(t, id, props) = {edge(p) : p \in 1..pairs}
  BY DEF Written
<1>4. edge(1) \in Written(t, id, props)
  BY <1>1, <1>3
<1>5. ASSUME NEW e \in Written(t, id, props)
      PROVE  e.tid = t /\ e.id = id /\ e.open /\ VersionOf(e) = OpenEdge(t, id, props)
  <2>1. PICK p \in 1..pairs : e = edge(p)
    BY <1>3
  <2> HIDE DEF edge
  <2> QED
    BY <1>2, <2>1
<1> QED
  BY <1>4, <1>5

\* A query of one transform leaves the edges of another as they are.
LEMMA OthersKeepTheirs ==
    ASSUME TypeOK, NEW t \in Transforms, NEW u \in Transforms, u # t, NEW id, NEW props,
           NEW E, E \in {Merged(t, id, props), Closed(t, id), Versioned(t, props)}
    PROVE  /\ {e \in E : e.tid = u} = {e \in edges : e.tid = u}
           /\ OpenIn(E, u) = OpenIn(edges, u)
           /\ EdgesIn(E, u) = EdgesIn(edges, u)
<1>1. {e \in E : e.tid = u} = {e \in edges : e.tid = u}
  <2>1. CASE E = Merged(t, id, props)
    BY <2>1, WrittenIsOne DEF Merged
  <2>2. CASE E = Versioned(t, props)
    BY <2>2, WrittenIsOne DEF Versioned
  <2>3. CASE E = Closed(t, id)
    BY <2>3 DEF Closed, TypeOK
  <2> QED
    BY <2>1, <2>2, <2>3
<1>2. {e \in E : e.tid = u /\ e.open} = {e \in edges : e.tid = u /\ e.open}
  BY <1>1
<1> QED
  BY <1>1, <1>2 DEF OpenIn, EdgesIn

\* A transform whose open edges all have an id has one version open once that id is
\* merged, and none once it is closed.
LEMMA MergedIsTheOne ==
    ASSUME TypeOK, NEW t \in Transforms, NEW id, NEW props,
           \A e \in OpenIn(edges, t) : e.id = id
    PROVE  OpenIn(Merged(t, id, props), t) = {OpenEdge(t, id, props)}
<1>1. \A e \in edges : e.tid = t /\ e.open => e.id = id
  BY VersionFields DEF OpenIn
<1>2. {e \in Merged(t, id, props) : e.tid = t /\ e.open} = Written(t, id, props)
  BY <1>1, WrittenIsOne DEF Merged
<1> QED
  BY <1>2, WrittenIsOne DEF OpenIn

LEMMA ClosedIsNone ==
    ASSUME TypeOK, NEW t \in Transforms, NEW id, \A e \in OpenIn(edges, t) : e.id = id
    PROVE  OpenIn(Closed(t, id), t) = {}
<1>1. \A e \in edges : e.tid = t /\ e.open => e.id = id
  BY VersionFields DEF OpenIn
<1>2. {e \in Closed(t, id) : e.tid = t /\ e.open} = {}
  BY <1>1 DEF Closed, TypeOK
<1> QED
  BY <1>2 DEF OpenIn

LEMMA VersionedIsTheOne ==
    ASSUME TypeOK, NEW t \in Transforms, NEW props, OpenIn(edges, t) = {}
    PROVE  OpenIn(Versioned(t, props), t) = {OpenEdge(t, FreshId, props)}
<1>1. \A e \in edges : ~(e.tid = t /\ e.open)
  BY DEF OpenIn
<1>2. {e \in Versioned(t, props) : e.tid = t /\ e.open} = Written(t, FreshId, props)
  BY <1>1, WrittenIsOne DEF Versioned
<1> QED
  BY <1>2, WrittenIsOne DEF OpenIn

\* In any case what they write is open.
LEMMA WrittenIsOpen ==
    ASSUME TypeOK, NEW t \in Transforms, NEW id, NEW props
    PROVE  /\ OpenEdge(t, id, props) \in OpenIn(Merged(t, id, props), t)
           /\ OpenEdge(t, FreshId, props) \in OpenIn(Versioned(t, props), t)
<1>1. PICK e : e \in Written(t, id, props)
  BY WrittenIsOne
<1>2. PICK f : f \in Written(t, FreshId, props)
  BY WrittenIsOne
<1>3. e \in {d \in Merged(t, id, props) : d.tid = t /\ d.open} /\ VersionOf(e) = OpenEdge(t, id, props)
  BY <1>1, WrittenIsOne DEF Merged
<1>4. f \in {d \in Versioned(t, props) : d.tid = t /\ d.open}
      /\ VersionOf(f) = OpenEdge(t, FreshId, props)
  BY <1>2, WrittenIsOne DEF Versioned
<1> QED
  BY <1>3, <1>4 DEF OpenIn

-----------------------------------------------------------------------------
(* The order of the loop *)

\* A set of naturals with an element has a least one: of the intervals up to
\* its elements one has no other inside it.
LEMMA HasLeast ==
    ASSUME NEW T \in SUBSET Nat, T # {}
    PROVE  \E x \in T : \A y \in T : x <= y
<1> DEFINE F == {1..x : x \in T}
<1>1. F \subseteq FiniteSubsetsOf(Nat) /\ F # {}
  <2>1. \A x \in T : 1..x \in FiniteSubsetsOf(Nat)
    BY FS_Interval DEF FiniteSubsetsOf
  <2> QED
    BY <2>1
<1>2. PICK I \in F : \A J \in F : <<J, I>> \notin StrictSubsetOrdering(Nat)
  <2> HIDE DEF F
  <2> QED
    BY <1>1, FS_StrictSubsetOrderingWellFounded, WFMin
<1>3. PICK x \in T : I = 1..x
  OBVIOUS
<1>4. ASSUME NEW y \in T, y < x
      PROVE  FALSE
  <2>1. 1..y \in F /\ I \in SUBSET Nat /\ 1..y \in SUBSET Nat
    BY <1>3
  <2>2. 1..y \subseteq I /\ x \in I /\ x \notin 1..y
    BY <1>3, <1>4
  <2>3. <<1..y, I>> \in StrictSubsetOrdering(Nat)
    BY <2>1, <2>2 DEF StrictSubsetOrdering
  <2> QED
    BY <1>2, <2>1, <2>3
<1> QED
  BY <1>4

\* The first relationship of an id exists, at or before any other.
LEMMA FirstFacts ==
    ASSUME NEW b, NEW i \in Nat \ {0}
    PROVE  FirstAt(b, i) \in 1..i /\ b[FirstAt(b, i)].id = b[i].id
<1> DEFINE T == {j \in 1..i : b[j].id = b[i].id}
<1>1. T \in SUBSET Nat /\ i \in T
  OBVIOUS
<1>2. PICK x \in T : \A y \in T : x <= y
  <2> HIDE DEF T
  <2> QED
    BY <1>1, HasLeast
<1>3. \E j \in 1..i : b[j].id = b[i].id /\ \A k \in 1..(j - 1) : b[k].id # b[i].id
  <2>1. x \in 1..i /\ b[x].id = b[i].id
    OBVIOUS
  <2>2. \A k \in 1..(x - 1) : k \notin T
    BY <1>2
  <2>3. \A k \in 1..(x - 1) : b[k].id # b[i].id
    BY <2>1, <2>2
  <2> QED
    BY <2>1, <2>3
<1> QED
  BY <1>3 DEF FirstAt

-----------------------------------------------------------------------------
(* The invariant *)

\* Any two open edges are of one version.
OneOpen(t) == \A d, e \in OpenIn(edges, t) : d = e

\* What the loop knows of the open edges of a type whose find succeeded: the version
\* it remembers is the open one, if one is; if it remembers none, it is about to
\* write the relationship the batched MERGE may have written.
Remembered(t) ==
    \A e \in OpenIn(edges, t) :
        IF found[t] = None THEN e.id = batch[t][1].id /\ ~Overtaken(batch[t])
        ELSE e.id = found[t].id

\* No relationship has had its turn.
NoneYet(t) == stored[t] = {} /\ \A j \in Turns(batch[t]) : pos[t] <= j

\* What a call knows at each of its places ...
CallInv(t) ==
    /\ (pc[t] # "idle" \/ failed[t]) => batch[t] \in Batches
    /\ pc[t] \in {"find", "create"} =>
          found[t] = None /\ ~findFailed[t] /\ pos[t] = 1 /\ stored[t] = {}
    /\ pc[t] = "version" => pos[t] <= Len(batch[t])
    /\ pc[t] = "create" => OpenIn(edges, t) = {}
    /\ (pc[t] = "loop" /\ ~findFailed[t] /\ found[t] = None) => NoneYet(t)

\* ... and, unless a lost MERGE has been overtaken, of the edges: nothing is open
\* where the CREATE of a version comes next.
Single(t) ==
    t \notin unseen =>
        /\ OneOpen(t)
        /\ pc[t] = "version" => OpenIn(edges, t) = {}
        /\ (pc[t] = "loop" /\ ~findFailed[t]) => Remembered(t)

VersionInv == TypeOK /\ \A t \in Transforms : CallInv(t) /\ Single(t)

\* A step of one transform leaves the state of the others, and their open edges.
Kept(t) ==
    \A u \in Transforms \ {t} :
        /\ OpenIn(edges', u) = OpenIn(edges, u)
        /\ pc'[u] = pc[u] /\ batch'[u] = batch[u] /\ pos'[u] = pos[u]
        /\ found'[u] = found[u] /\ findFailed'[u] = findFailed[u] /\ stored'[u] = stored[u]
        /\ failed'[u] = failed[u] /\ (u \in unseen' <=> u \in unseen)

LEMMA ElementsAreIn == \A R : \A b \in Seq(R) : \A i \in 1..Len(b) : b[i] \in R
OBVIOUS

LEMMA BatchFacts ==
    \A b \in Batches : /\ Len(b) \in Nat \ {0}
                       /\ \A i \in 1..Len(b) : b[i].id \in RelIds /\ b[i].props \in Props
<1> TAKE b \in Batches
<1>1. b \in Seq([id : RelIds, props : Props]) /\ b # <<>>
  BY BatchAssumption
<1>2. Len(b) \in Nat \ {0}
  BY <1>1
<1>3. \A i \in 1..Len(b) : b[i] \in [id : RelIds, props : Props]
  BY <1>1, ElementsAreIn
<1>4. \A i \in 1..Len(b) : b[i].id \in RelIds /\ b[i].props \in Props
  BY <1>3
<1> QED
  BY <1>2, <1>4

LEMMA PropsFacts ==
    /\ NoProps \in Props
    /\ \A old, new \in Props : MergedProps(old, new) \in Props
<1>1. NoProps \in Props
  BY DEF NoProps, Props
<1>2. \A old, new \in Props : MergedProps(old, new) \in Props
  BY DEF MergedProps, Props
<1> QED
  BY <1>1, <1>2

LEMMA IdFacts ==
    ASSUME TypeOK
    PROVE  RelIds \subseteq Ids \ {0} /\ FreshId \in Nat \ {0} /\ 0 \in Ids
BY DataAssumption DEF TypeOK, RelIds, Ids, FreshId

\* A looked-up edge is an open one, or none is.
LEMMA LookupFacts ==
    ASSUME TypeOK, NEW t \in Transforms, NEW e \in Lookups(t)
    PROVE  /\ e \in [id : Ids, props : Props]
           /\ e = None <=> OpenIn(edges, t) = {}
           /\ e # None => \E d \in OpenIn(edges, t) : d.id = e.id /\ d.props = e.props
           /\ OneOpen(t) => \A d \in OpenIn(edges, t) : d.id = e.id
<1>1. CASE Open(t) = {}
  <2>1. e = None /\ OpenIn(edges, t) = {}
    BY <1>1, OpenIsOpenIn DEF Lookups
  <2> QED
    BY <2>1, IdFacts, PropsFacts DEF None
<1>2. CASE Open(t) # {}
  <2>1. PICK o \in Open(t) : e = [id |-> o.id, props |-> o.props]
    BY <1>2 DEF Lookups
  <2>2. o.id \in Ids \ {0} /\ o.props \in Props
    BY DEF TypeOK, Open, Edges
  <2>3. e \in [id : Ids, props : Props] /\ e # None
    BY <2>1, <2>2 DEF None
  <2>4. VersionOf(o) \in OpenIn(edges, t) /\ VersionOf(o).id = e.id /\ VersionOf(o).props = e.props
    BY <2>1, OpenIsOpenIn, VersionFields
  <2> QED
    BY <2>3, <2>4 DEF OneOpen
<1> QED
  BY <1>1, <1>2

LEMMA StepKeepsOthers ==
    ASSUME TypeOK, NEW t \in Transforms, StartCall(t) \/ Step(t)
    PROVE  /\ Kept(t)
           /\ \A u \in Transforms \ {t} :
                 /\ {e \in edges' : e.tid = u} = {e \in edges : e.tid = u}
                 /\ EdgesIn(edges', u) = EdgesIn(edges, u)
<1>1. /\ pc \in [Transforms -> PCs] /\ batch \in [Transforms -> Batches \cup {<<>>}]
      /\ pos \in [Transforms -> Nat \ {0}] /\ found \in [Transforms -> [id : Ids, props : Props]]
      /\ findFailed \in [Transforms -> BOOLEAN] /\ stored \in [Transforms -> SUBSET RelIds]
      /\ failed \in [Transforms -> BOOLEAN]
  BY DEF TypeOK
<1>2. SUFFICES ASSUME NEW u \in Transforms, u # t
               PROVE  /\ {e \in edges' : e.tid = u} = {e \in edges : e.tid = u}
                      /\ OpenIn(edges', u) = OpenIn(edges, u)
                      /\ EdgesIn(edges', u) = EdgesIn(edges, u)
                      /\ pc'[u] = pc[u] /\ batch'[u] = batch[u] /\ pos'[u] = pos[u]
                      /\ found'[u] = found[u] /\ findFailed'[u] = findFailed[u]
                      /\ stored'[u] = stored[u] /\ failed'[u] = failed[u]
                      /\ (u \in unseen' <=> u \in unseen)
  BY DEF Kept
<1>3. \/ edges' = edges
      \/ \E id, props : edges' \in {Merged(t, id, props), Closed(t, id), Versioned(t, props)}
  BY DEF StartCall, Step, Find, FindFails, CreateFirst, CreateFirstFails, SkipStored, KeepExisting,
         CloseExisting, CloseExistingFails, CreateVersion, CreateVersionFails, CreateNew,
         CreateNewFails, EndCall
<1>4. /\ {e \in edges' : e.tid = u} = {e \in edges : e.tid = u}
      /\ OpenIn(edges', u) = OpenIn(edges, u)
      /\ EdgesIn(edges', u) = EdgesIn(edges, u)
  <2>1. CASE edges' = edges
    BY <2>1
  <2>2. CASE edges' # edges
    <3>1. PICK id, props :
            edges' \in {Merged(t, id, props), Closed(t, id), Versioned(t, props)}
      BY <1>3, <2>2
    <3> QED
      BY <1>2, <3>1, OthersKeepTheirs
  <2> QED
    BY <2>1, <2>2
<1>5. pc'[u] = pc[u] /\ batch'[u] = batch[u] /\ pos'[u] = pos[u]
  BY <1>1, <1>2 DEF StartCall, Step, Find, FindFails, CreateFirst, CreateFirstFails, SkipStored,
         KeepExisting, CloseExisting, CloseExistingFails, CreateVersion, CreateVersionFails,
         CreateNew, CreateNewFails, EndCall, CallFails
<1>6. found'[u] = found[u] /\ findFailed'[u] = findFailed[u] /\ stored'[u] = stored[u]
      /\ failed'[u] = failed[u] /\ (u \in unseen' <=> u \in unseen)
  BY <1>1, <1>2 DEF StartCall, Step, Find, FindFails, CreateFirst, CreateFirstFails, SkipStored,
         KeepExisting, CloseExisting, CloseExistingFails, CreateVersion, CreateVersionFails,
         CreateNew, CreateNewFails, EndCall, CallFails, Remember
<1> QED
  BY <1>4, <1>5, <1>6

\* The edges a query leaves are edges.
EdgeSet == [tid : Transforms, id : Ids \ {0}, props : Props, open : BOOLEAN, at : 1..pairs]

\* Ids and pairs only become more.
LEMMA IdsGrow ==
    ASSUME TypeOK, made' \in {made, made + 1}, 1..pairs \subseteq 1..pairs'
    PROVE  made' \in Nat /\ Ids \subseteq Ids' /\ EdgeSet \subseteq EdgeSet'
<1>1. made \in Nat /\ NumIds \in Nat
  BY DataAssumption DEF TypeOK
<1>2. made' \in Nat /\ Ids \subseteq Ids'
  <2>1. CASE made' = made
    BY <1>1, <2>1 DEF Ids
  <2>2. CASE made' = made + 1
    BY <1>1, <2>2 DEF Ids
  <2> QED
    BY <2>1, <2>2
<1>3. EdgeSet \subseteq EdgeSet'
  <2> SUFFICES ASSUME NEW e \in EdgeSet PROVE e \in EdgeSet'
    OBVIOUS
  <2>1. e.id \in Ids' \ {0} /\ e.at \in 1..pairs'
    BY <1>2 DEF EdgeSet
  <2> QED
    BY <2>1 DEF EdgeSet
<1> QED
  BY <1>2, <1>3

LEMMA QueryTypes ==
    ASSUME TypeOK, NEW t \in Transforms, NEW id, NEW props \in Props
    PROVE  /\ id \in Ids \ {0} => Merged(t, id, props) \subseteq EdgeSet
           /\ Closed(t, id) \subseteq EdgeSet
           /\ made' = made + 1 /\ pairs' = pairs => Versioned(t, props) \subseteq EdgeSet'
<1>1. edges \subseteq EdgeSet
  BY DEF TypeOK, EdgeSet
<1>2. ASSUME id \in Ids \ {0}
      PROVE  Merged(t, id, props) \subseteq EdgeSet
  <2>1. Written(t, id, props) \subseteq EdgeSet
    <3>1. \A p \in 1..pairs :
            [tid |-> t, id |-> id, props |-> props, open |-> TRUE, at |-> p] \in EdgeSet
      BY <1>2 DEF EdgeSet
    <3> QED
      BY <3>1 DEF Written
  <2> QED
    BY <1>1, <2>1 DEF Merged
<1>3. Closed(t, id) \subseteq EdgeSet
  <2>1. \A e \in EdgeSet : [e EXCEPT !.open = FALSE] \in EdgeSet
    BY DEF EdgeSet
  <2> QED
    BY <1>1, <2>1 DEF Closed
<1>4. ASSUME made' = made + 1, pairs' = pairs
      PROVE  Versioned(t, props) \subseteq EdgeSet'
  <2>1. made \in Nat /\ NumIds \in Nat
    BY DataAssumption DEF TypeOK
  <2>2. FreshId \in Ids' \ {0}
    BY <1>4, <2>1 DEF Ids, FreshId
  <2>3. Written(t, FreshId, props) \subseteq EdgeSet'
    <3>1. \A p \in 1..pairs' :
            [tid |-> t, id |-> FreshId, props |-> props, open |-> TRUE, at |-> p] \in EdgeSet'
      BY <2>2 DEF EdgeSet
    <3> QED
      BY <1>4, <3>1 DEF Written
  <2>4. edges \subseteq EdgeSet'
    BY <1>1, <1>4, IdsGrow
  <2> QED
    BY <2>3, <2>4 DEF Versioned
<1> QED
  BY <1>2, <1>3, <1>4

LEMMA FaultTypes == TypeOK /\ (UNCHANGED faults \/ Fault) => faults' \in 0..MaxFaults
BY BoundAssumption DEF TypeOK, Fault

\* The relationship the loop is at is one of the call's.
LEMMA CurrentFacts ==
    ASSUME TypeOK, NEW t \in Transforms, CallInv(t), pc[t] # "idle", pos[t] <= Len(batch[t])
    PROVE  /\ batch[t] \in Batches /\ Len(batch[t]) \in Nat
           /\ Current(t).id \in RelIds /\ Current(t).id \in Ids \ {0}
           /\ Current(t).props \in Props
           /\ Current(t).id = batch[t][pos[t]].id
<1>1. batch[t] \in Batches /\ pos[t] \in Nat \ {0}
  BY DEF CallInv, TypeOK
<1>2. Len(batch[t]) \in Nat \ {0}
  BY <1>1, BatchFacts
<1>3. /\ FirstAt(batch[t], pos[t]) \in 1..pos[t]
      /\ batch[t][FirstAt(batch[t], pos[t])].id = batch[t][pos[t]].id
  BY <1>1, FirstFacts
<1>4. FirstAt(batch[t], pos[t]) \in 1..Len(batch[t])
  BY <1>1, <1>2, <1>3
<1>5. Current(t).id \in RelIds /\ Current(t).props \in Props
  BY <1>1, <1>4, BatchFacts DEF Current
<1> QED
  BY <1>1, <1>2, <1>3, <1>5, IdFacts DEF Current

LEMMA ExistingFacts ==
    ASSUME TypeOK, NEW t \in Transforms, CallInv(t), Single(t), Due(t), NEW e \in Existing(t)
    PROVE  /\ e \in [id : Ids, props : Props]
           /\ (t \notin unseen /\ e # None) => \A d \in OpenIn(edges, t) : d.id = e.id
           /\ (t \notin unseen /\ e = None) => \A d \in OpenIn(edges, t) : d.id = Current(t).id
<1>1. CASE findFailed[t]
  <2>1. e \in Lookups(t)
    BY <1>1 DEF Existing
  <2> QED
    BY <2>1, LookupFacts DEF Single
<1>2. CASE ~findFailed[t]
  <2>1. e = found[t]
    BY <1>2 DEF Existing
  <2>2. /\ t \notin unseen => Remembered(t)
        /\ found[t] = None => NoneYet(t)
    BY <1>2 DEF CallInv, Single, Due, InLoop
  <2>3. ASSUME t \notin unseen, e = None, NEW d \in OpenIn(edges, t)
        PROVE  d.id = Current(t).id
    <3>1. d.id = batch[t][1].id /\ ~Overtaken(batch[t])
      BY <2>1, <2>2, <2>3 DEF Remembered
    <3>2. pos[t] \in Turns(batch[t]) /\ \A k \in Turns(batch[t]) : pos[t] <= k
      BY <2>1, <2>2, <2>3 DEF Due, NoneYet
    <3>3. batch[t][pos[t]].id = batch[t][1].id
      BY <3>1, <3>2 DEF Overtaken
    <3>4. Current(t).id = batch[t][pos[t]].id
      BY CurrentFacts DEF Due, InLoop
    <3> QED
      BY <3>1, <3>3, <3>4
  <2>4. e \in [id : Ids, props : Props]
    BY <2>1 DEF TypeOK
  <2>5. (t \notin unseen /\ e # None) => \A d \in OpenIn(edges, t) : d.id = e.id
    BY <2>1, <2>2 DEF Remembered
  <2> QED
    BY <2>3, <2>4, <2>5
<1> QED
  BY <1>1, <1>2

-----------------------------------------------------------------------------
(* Every step keeps the types and the invariant of its transform *)

\* One transform's part of the invariant.
Own(t) == CallInv(t) /\ Single(t)

\* What the steps below have in common: the other variables have their types.
Shape ==
    /\ made \in Nat /\ pairs \in 1..MaxPairs
    /\ pc \in [Transforms -> PCs]
    /\ batch \in [Transforms -> Batches \cup {<<>>}]
    /\ pos \in [Transforms -> Nat \ {0}] /\ \A t \in Transforms : pos[t] <= Len(batch[t]) + 1
    /\ found \in [Transforms -> [id : Ids, props : Props]]
    /\ findFailed \in [Transforms -> BOOLEAN]
    /\ stored \in [Transforms -> SUBSET RelIds]
    /\ calls \in [Transforms -> 0..MaxCalls]
    /\ failed \in [Transforms -> BOOLEAN]
    /\ torn \subseteq Transforms /\ unseen \subseteq Transforms

LEMMA TypeOKIsShape == TypeOK <=> Shape /\ edges \subseteq EdgeSet /\ faults \in 0..MaxFaults
BY DEF TypeOK, Shape, EdgeSet

LEMMA TypesFromShape ==
    ASSUME Shape', edges' \subseteq EdgeSet', faults' \in 0..MaxFaults
    PROVE  TypeOK'
BY DEF TypeOK, Shape, EdgeSet

LEMMA StartCallKeeps ==
    ASSUME TypeOK, NEW t \in Transforms, Own(t), StartCall(t), pairs' = pairs
    PROVE  TypeOK' /\ Own(t)' /\ batch'[t] \in Batches
<1>1. /\ Shape /\ edges \subseteq EdgeSet /\ faults \in 0..MaxFaults
      /\ edges' = edges /\ made' = made /\ faults' = faults
  BY TypeOKIsShape DEF StartCall
<1>2. batch'[t] \in Batches /\ batch' \in [Transforms -> Batches \cup {<<>>}]
  <2>1. failed[t] => batch[t] \in Batches
    BY DEF Own, CallInv
  <2> QED
    BY <1>1, <2>1 DEF StartCall, Shape
<1>3. Len(batch'[t]) \in Nat
  BY <1>2, BatchFacts
<1>4. None \in [id : Ids, props : Props]
  BY IdFacts, PropsFacts DEF None
<1>5. Shape'
  BY <1>1, <1>2, <1>3, <1>4, BoundAssumption DEF StartCall, Shape, PCs, Ids
<1>6. Own(t)'
  <2>1. /\ pc'[t] = "find" /\ found'[t] = None' /\ ~findFailed'[t] /\ pos'[t] = 1
        /\ stored'[t] = {} /\ unseen' = unseen
    BY <1>1 DEF StartCall, Shape, None, NoProps
  <2>2. CallInv(t)'
    BY <1>2, <2>1 DEF CallInv
  <2>3. Single(t)'
    BY <1>1, <2>1 DEF Own, Single, OneOpen
  <2> QED
    BY <2>2, <2>3 DEF Own
<1>7. EdgeSet' = EdgeSet
  BY <1>1 DEF EdgeSet, Ids
<1> QED
  BY <1>1, <1>2, <1>5, <1>6, <1>7, TypesFromShape

LEMMA FindKeeps ==
    ASSUME TypeOK, NEW t \in Transforms, Own(t), Find(t), pairs' = pairs
    PROVE  TypeOK' /\ Own(t)'
<1>1. Shape /\ edges \subseteq EdgeSet /\ faults \in 0..MaxFaults
  BY TypeOKIsShape
<1>2. PICK e \in Lookups(t) :
        /\ found' = [found EXCEPT ![t] = e]
        /\ pc' = [pc EXCEPT ![t] = IF e = None THEN "create" ELSE "loop"]
  BY DEF Find
<1>3. /\ e \in [id : Ids, props : Props]
      /\ e = None => OpenIn(edges, t) = {}
      /\ OneOpen(t) => \A d \in OpenIn(edges, t) : d.id = e.id
  BY LookupFacts
<1>4. Shape' /\ EdgeSet' = EdgeSet
  BY <1>1, <1>2, <1>3 DEF Find, Shape, PCs, Ids, EdgeSet
<1>5. /\ found'[t] = e /\ pc'[t] = (IF e = None THEN "create" ELSE "loop") /\ None' = None
      /\ UNCHANGED <<edges, batch, pos, findFailed, stored, unseen>>
      /\ pc[t] = "find" /\ batch[t] \in Batches
  BY <1>1, <1>2 DEF Find, Shape, None, NoProps, Own, CallInv
<1>6. CallInv(t)'
  BY <1>3, <1>5 DEF Own, CallInv
<1>7. Single(t)'
  BY <1>3, <1>5 DEF Own, Single, OneOpen, Remembered
<1> QED
  BY <1>1, <1>4, <1>6, <1>7, TypesFromShape DEF Find, Own

LEMMA FindFailsKeeps ==
    ASSUME TypeOK, NEW t \in Transforms, Own(t), FindFails(t), pairs' = pairs
    PROVE  TypeOK' /\ Own(t)'
<1>1. Shape /\ edges \subseteq EdgeSet /\ faults \in 0..MaxFaults
  BY TypeOKIsShape
<1>2. Shape' /\ EdgeSet' = EdgeSet
  BY <1>1 DEF FindFails, Shape, PCs, Ids, EdgeSet
<1>3. /\ pc[t] = "find" /\ pc'[t] = "loop" /\ findFailed'[t]
      /\ UNCHANGED <<edges, batch, failed, unseen>>
  BY <1>1 DEF FindFails, Shape
<1>4. Own(t)'
  BY <1>3 DEF Own, OneOpen, CallInv, Single
<1>5. faults' \in 0..MaxFaults
  BY FaultTypes DEF FindFails
<1> QED
  BY <1>1, <1>2, <1>4, <1>5, TypesFromShape DEF FindFails

LEMMA CreateFirstKeeps ==
    ASSUME TypeOK, NEW t \in Transforms, Own(t), CreateFirst(t), pairs' = pairs
    PROVE  TypeOK' /\ Own(t)'
<1>1. Shape /\ edges \subseteq EdgeSet /\ faults \in 0..MaxFaults
  BY TypeOKIsShape
<1> DEFINE rel == batch[t][1]
<1>2. /\ batch[t] \in Batches /\ Len(batch[t]) \in Nat \ {0}
      /\ rel.id \in RelIds /\ rel.id \in Ids \ {0} /\ rel.props \in Props
  BY BatchFacts, IdFacts DEF Own, CallInv, CreateFirst
<1>3. /\ edges' = Merged(t, rel.id, rel.props)
      /\ found' = [found EXCEPT ![t] = [id |-> rel.id, props |-> rel.props]]
  BY DEF CreateFirst, Remember, Own, CallInv
<1>4. OpenIn(edges', t) = {OpenEdge(t, rel.id, rel.props)}
  <2>1. OpenIn(edges, t) = {}
    BY DEF CreateFirst, Own, CallInv
  <2> QED
    BY <2>1, <1>3, MergedIsTheOne
<1>5. Shape' /\ EdgeSet' = EdgeSet
  BY <1>1, <1>2, <1>3 DEF CreateFirst, Shape, PCs, Ids, EdgeSet
<1>6. edges' \subseteq EdgeSet
  BY <1>2, <1>3, QueryTypes
<1>7. Own(t)'
  <2>1. /\ pc'[t] = "loop" /\ found'[t].id = rel.id /\ batch'[t] = batch[t] /\ unseen' = unseen
        /\ found'[t] # None /\ None' = None
    BY <1>1, <1>2, <1>3 DEF CreateFirst, Shape, None, NoProps
  <2>2. CallInv(t)'
    BY <1>2, <2>1 DEF CallInv
  <2>3. OneOpen(t)' /\ Remembered(t)'
    BY <1>4, <2>1 DEF OneOpen, Remembered, OpenEdge
  <2> QED
    BY <2>1, <2>2, <2>3 DEF Own, Single
<1> QED
  BY <1>1, <1>5, <1>6, <1>7, TypesFromShape DEF CreateFirst

LEMMA CreateFirstFailsKeeps ==
    ASSUME TypeOK, NEW t \in Transforms, Own(t), CreateFirstFails(t), pairs' = pairs
    PROVE  TypeOK' /\ Own(t)'
<1>1. Shape /\ edges \subseteq EdgeSet /\ faults \in 0..MaxFaults
  BY TypeOKIsShape
<1> DEFINE rel == batch[t][1]
<1>2. /\ batch[t] \in Batches
      /\ rel.id \in RelIds /\ rel.id \in Ids \ {0} /\ rel.props \in Props
  BY BatchFacts, IdFacts DEF Own, CallInv, CreateFirstFails
<1>3. /\ edges' = edges \/ edges' = Merged(t, rel.id, rel.props)
      /\ edges' # edges /\ Overtaken(batch[t]) => t \in unseen'
      /\ unseen \subseteq unseen' /\ unseen' \subseteq Transforms
  BY <1>1 DEF CreateFirstFails, Shape
<1>4. OpenIn(edges, t) = {}
  BY DEF CreateFirstFails, Own, CallInv
<1>5. \/ OpenIn(edges', t) = {}
      \/ OpenIn(edges', t) = {OpenEdge(t, rel.id, rel.props)}
  BY <1>3, <1>4, MergedIsTheOne
<1>6. Shape' /\ EdgeSet' = EdgeSet
  BY <1>1, <1>3 DEF CreateFirstFails, Shape, PCs, Ids, EdgeSet
<1>7. edges' \subseteq EdgeSet
  BY <1>1, <1>2, <1>3, QueryTypes
<1>8. Own(t)'
  <2>1. /\ pc'[t] = "loop" /\ found'[t] = None /\ batch'[t] = batch[t] /\ None' = None
        /\ pos'[t] = 1 /\ stored'[t] = {}
    BY <1>1 DEF CreateFirstFails, Shape, Own, CallInv, None, NoProps
  <2>2. NoneYet(t)'
    BY <2>1 DEF NoneYet, Turns
  <2>3. CallInv(t)'
    BY <1>2, <2>1, <2>2 DEF CallInv
  <2>4. OneOpen(t)'
    BY <1>5 DEF OneOpen
  <2>5. ASSUME t \notin unseen'
        PROVE  Remembered(t)'
    <3>1. CASE edges' = edges
      BY <1>4, <3>1 DEF Remembered
    <3>2. CASE edges' # edges
      <4>1. ~Overtaken(batch[t]) /\ \A e \in OpenIn(edges', t) : e.id = rel.id
        BY <1>3, <1>5, <2>5, <3>2 DEF OpenEdge
      <4> QED
        BY <2>1, <4>1 DEF Remembered
    <3> QED
      BY <3>1, <3>2
  <2> QED
    BY <2>1, <2>3, <2>4, <2>5 DEF Own, Single
<1>9. faults' \in 0..MaxFaults
  BY FaultTypes DEF CreateFirstFails
<1> QED
  BY <1>6, <1>7, <1>8, <1>9, TypesFromShape

LEMMA SkipStoredKeeps ==
    ASSUME TypeOK, NEW t \in Transforms, Own(t), SkipStored(t), pairs' = pairs
    PROVE  TypeOK' /\ Own(t)'
<1>1. Shape /\ edges \subseteq EdgeSet /\ faults \in 0..MaxFaults
  BY TypeOKIsShape
<1>2. batch[t] \in Batches /\ Len(batch[t]) \in Nat /\ pos[t] <= Len(batch[t])
  BY <1>1, CurrentFacts DEF Own, SkipStored, InLoop
<1>3. Shape' /\ EdgeSet' = EdgeSet
  BY <1>1, <1>2 DEF SkipStored, Shape, Ids, EdgeSet
<1>4. /\ pc[t] = "loop" /\ pos'[t] = pos[t] + 1 /\ pos[t] \in Nat /\ None' = None
      /\ UNCHANGED <<edges, pc, batch, found, findFailed, stored, failed, unseen>>
  BY <1>1 DEF SkipStored, InLoop, Shape, None, NoProps
<1>5. NoneYet(t) => NoneYet(t)'
  <2>1. NoneYet(t) => pos[t] \notin Turns(batch[t])
    BY DEF NoneYet, SkipStored, Due
  <2>2. Turns(batch[t]) \subseteq Nat
    BY DEF Turns
  <2> QED
    BY <1>4, <2>1, <2>2 DEF NoneYet
<1>6. CallInv(t)'
  BY <1>2, <1>4, <1>5 DEF Own, CallInv
<1>7. Single(t)'
  BY <1>4 DEF Own, Single, OneOpen, Remembered
<1> QED
  BY <1>1, <1>3, <1>6, <1>7, TypesFromShape DEF SkipStored, Own

LEMMA KeepExistingKeeps ==
    ASSUME TypeOK, NEW t \in Transforms, Own(t), KeepExisting(t), pairs' = pairs
    PROVE  TypeOK' /\ Own(t)'
<1>1. Shape /\ edges \subseteq EdgeSet /\ faults \in 0..MaxFaults
  BY TypeOKIsShape
<1>2. /\ batch[t] \in Batches /\ Len(batch[t]) \in Nat /\ pos[t] <= Len(batch[t])
      /\ Current(t).id \in RelIds
  BY <1>1, CurrentFacts DEF Own, KeepExisting, Due, InLoop
<1>3. Shape' /\ EdgeSet' = EdgeSet
  BY <1>1, <1>2 DEF KeepExisting, Shape, Ids, EdgeSet
<1>4. /\ ~findFailed[t] => found[t] # None
      /\ pc[t] = "loop" /\ None' = None
      /\ UNCHANGED <<edges, pc, batch, found, findFailed, failed, unseen>>
  BY DEF KeepExisting, Existing, Due, InLoop, None, NoProps
<1>5. CallInv(t)'
  BY <1>2, <1>4 DEF CallInv
<1>6. Single(t)'
  BY <1>4 DEF Own, Single, OneOpen, Remembered
<1> QED
  BY <1>1, <1>3, <1>5, <1>6, TypesFromShape DEF KeepExisting, Own

LEMMA CloseExistingKeeps ==
    ASSUME TypeOK, NEW t \in Transforms, Own(t), CloseExisting(t), pairs' = pairs
    PROVE  TypeOK' /\ Own(t)'
<1>1. Shape /\ edges \subseteq EdgeSet /\ faults \in 0..MaxFaults
  BY TypeOKIsShape
<1>2. batch[t] \in Batches /\ Len(batch[t]) \in Nat /\ pos[t] <= Len(batch[t])
  BY CurrentFacts DEF Own, CloseExisting, Due, InLoop
<1>3. PICK e \in Existing(t) :
        /\ e # None
        /\ edges' = Closed(t, e.id)
        /\ found' = [found EXCEPT ![t] = e]
  BY DEF CloseExisting
<1>4. /\ e \in [id : Ids, props : Props]
      /\ t \notin unseen => \A d \in OpenIn(edges, t) : d.id = e.id
  BY <1>3, ExistingFacts DEF Own, CloseExisting
<1>5. t \notin unseen => OpenIn(edges', t) = {}
  BY <1>3, <1>4, ClosedIsNone
<1>6. Shape' /\ EdgeSet' = EdgeSet
  BY <1>1, <1>3, <1>4 DEF CloseExisting, Shape, PCs, Ids, EdgeSet
<1>7. edges' \subseteq EdgeSet
  BY <1>3, PropsFacts, QueryTypes
<1>8. Own(t)'
  <2>1. pc'[t] = "version" /\ UNCHANGED <<batch, pos, unseen>>
    BY <1>1 DEF CloseExisting, Shape
  <2> QED
    BY <1>2, <1>5, <2>1 DEF Own, OneOpen, CallInv, Single
<1> QED
  BY <1>1, <1>6, <1>7, <1>8, TypesFromShape DEF CloseExisting

LEMMA CloseExistingFailsKeeps ==
    ASSUME TypeOK, NEW t \in Transforms, Own(t), CloseExistingFails(t), pairs' = pairs
    PROVE  TypeOK' /\ Own(t)'
<1>1. Shape /\ edges \subseteq EdgeSet /\ faults \in 0..MaxFaults
  BY TypeOKIsShape
<1>2. batch[t] \in Batches
  BY CurrentFacts DEF Own, CloseExistingFails, Due, InLoop
<1>3. PICK e \in Existing(t) :
        /\ e # None
        /\ edges' = edges \/ edges' = Closed(t, e.id)
        /\ torn' = torn \/ torn' = torn \cup {t}
  BY DEF CloseExistingFails
<1>4. t \notin unseen => \A d \in OpenIn(edges, t) : d.id = e.id
  BY <1>3, ExistingFacts DEF Own, CloseExistingFails
<1>5. t \notin unseen => OneOpen(t)'
  BY <1>3, <1>4, ClosedIsNone DEF Own, Single, OneOpen
<1>6. Shape' /\ EdgeSet' = EdgeSet
  BY <1>1, <1>3 DEF CloseExistingFails, CallFails, Shape, PCs, Ids, EdgeSet
<1>7. edges' \subseteq EdgeSet
  BY <1>1, <1>3, PropsFacts, QueryTypes
<1>8. Own(t)'
  <2>1. pc'[t] = "idle" /\ UNCHANGED <<batch, unseen>>
    BY <1>1 DEF CloseExistingFails, CallFails, Shape
  <2> QED
    BY <1>2, <1>5, <2>1 DEF Own, CallInv, Single
<1>9. faults' \in 0..MaxFaults
  BY FaultTypes DEF CloseExistingFails
<1> QED
  BY <1>6, <1>7, <1>8, <1>9, TypesFromShape

LEMMA CreateVersionKeeps ==
    ASSUME TypeOK, NEW t \in Transforms, Own(t), CreateVersion(t), pairs' = pairs
    PROVE  TypeOK' /\ Own(t)'
<1>1. Shape /\ edges \subseteq EdgeSet /\ faults \in 0..MaxFaults
  BY TypeOKIsShape
<1>2. /\ batch[t] \in Batches /\ Len(batch[t]) \in Nat /\ pos[t] <= Len(batch[t])
      /\ Current(t).id \in RelIds /\ Current(t).props \in Props
      /\ t \notin unseen => OpenIn(edges, t) = {}
  BY CurrentFacts DEF Own, CallInv, Single, CreateVersion
<1> DEFINE props == MergedProps(found[t].props, Current(t).props)
<1>3. props \in Props
  BY <1>1, <1>2, PropsFacts DEF Shape
<1>4. /\ edges' = Versioned(t, props) /\ made' = made + 1
      /\ found' = IF findFailed[t] THEN found
                  ELSE [found EXCEPT ![t] = [id |-> FreshId, props |-> props]]
  BY DEF CreateVersion, Remember
<1>5. t \notin unseen => OpenIn(edges', t) = {OpenEdge(t, FreshId, props)}
  BY <1>2, <1>4, VersionedIsTheOne
<1>6. made' \in Nat /\ Ids \subseteq Ids' /\ FreshId \in Ids' /\ FreshId # 0
  BY <1>1, <1>4, IdsGrow, DataAssumption DEF Ids, FreshId, Shape
<1>7. found' \in [Transforms -> [id : Ids', props : Props]]
  <2>1. found \in [Transforms -> [id : Ids', props : Props]]
    BY <1>1, <1>6 DEF Shape
  <2> QED
    BY <2>1, <1>3, <1>4, <1>6
<1>8. Shape'
  BY <1>1, <1>2, <1>6, <1>7 DEF CreateVersion, Shape, PCs
<1>9. edges' \subseteq EdgeSet'
  BY <1>3, <1>4, QueryTypes
<1>10. Own(t)'
  <2>1. /\ pc'[t] = "loop" /\ batch'[t] = batch[t] /\ findFailed' = findFailed /\ unseen' = unseen
        /\ ~findFailed[t] => found'[t].id = FreshId /\ found'[t] # None /\ None' = None
    BY <1>1, <1>4, <1>6 DEF CreateVersion, Shape, None, NoProps
  <2>2. t \notin unseen => OneOpen(t)'
    BY <1>5 DEF OneOpen
  <2>3. ~findFailed'[t] /\ t \notin unseen => Remembered(t)'
    BY <1>5, <2>1 DEF Remembered, OpenEdge
  <2>4. CallInv(t)'
    BY <1>2, <2>1 DEF CallInv
  <2> QED
    BY <2>1, <2>2, <2>3, <2>4 DEF Own, Single
<1> QED
  BY <1>1, <1>8, <1>9, <1>10, TypesFromShape DEF CreateVersion

LEMMA CreateVersionFailsKeeps ==
    ASSUME TypeOK, NEW t \in Transforms, Own(t), CreateVersionFails(t), pairs' = pairs
    PROVE  TypeOK' /\ Own(t)'
<1>1. Shape /\ edges \subseteq EdgeSet /\ faults \in 0..MaxFaults
  BY TypeOKIsShape
<1>2. /\ batch[t] \in Batches /\ Current(t).props \in Props
      /\ t \notin unseen => OpenIn(edges, t) = {}
  BY CurrentFacts DEF Own, CallInv, Single, CreateVersionFails
<1> DEFINE props == MergedProps(found[t].props, Current(t).props)
<1>3. props \in Props
  BY <1>1, <1>2, PropsFacts DEF Shape
<1>4. /\ edges' = edges \/ edges' = Versioned(t, props)
      /\ torn' = torn \/ torn' = torn \cup {t}
      /\ made' = made + 1
  BY DEF CreateVersionFails
<1>5. t \notin unseen => OneOpen(t)'
  <2>1. t \notin unseen => edges' = edges \/ OpenIn(edges', t) = {OpenEdge(t, FreshId, props)}
    BY <1>2, <1>4, VersionedIsTheOne
  <2> QED
    BY <2>1 DEF Own, Single, OneOpen
<1>6. made' \in Nat /\ Ids \subseteq Ids' /\ EdgeSet \subseteq EdgeSet'
  BY <1>4, IdsGrow
<1>7. found' \in [Transforms -> [id : Ids', props : Props]]
  BY <1>1, <1>6 DEF CreateVersionFails, Shape
<1>8. Shape'
  BY <1>1, <1>4, <1>6, <1>7 DEF CreateVersionFails, CallFails, Shape, PCs
<1>9. edges' \subseteq EdgeSet'
  BY <1>1, <1>3, <1>4, <1>6, QueryTypes
<1>10. Own(t)'
  <2>1. pc'[t] = "idle" /\ UNCHANGED <<batch, unseen>>
    BY <1>1 DEF CreateVersionFails, CallFails, Shape
  <2> QED
    BY <1>2, <1>5, <2>1 DEF Own, CallInv, Single
<1>11. faults' \in 0..MaxFaults
  BY FaultTypes DEF CreateVersionFails
<1> QED
  BY <1>8, <1>9, <1>10, <1>11, TypesFromShape

LEMMA CreateNewKeeps ==
    ASSUME TypeOK, NEW t \in Transforms, Own(t), CreateNew(t), pairs' = pairs
    PROVE  TypeOK' /\ Own(t)'
<1>1. Shape /\ edges \subseteq EdgeSet /\ faults \in 0..MaxFaults
  BY TypeOKIsShape
<1>2. /\ batch[t] \in Batches /\ Len(batch[t]) \in Nat /\ pos[t] <= Len(batch[t])
      /\ Current(t).id \in RelIds /\ Current(t).id \in Ids \ {0} /\ Current(t).props \in Props
  BY CurrentFacts DEF Own, CreateNew, Due, InLoop
<1> DEFINE rel == Current(t)
<1>3. /\ edges' = Merged(t, rel.id, rel.props)
      /\ found' = IF findFailed[t] THEN found
                  ELSE [found EXCEPT ![t] = [id |-> rel.id, props |-> rel.props]]
  BY DEF CreateNew, Remember
<1>4. t \notin unseen => OpenIn(edges', t) = {OpenEdge(t, rel.id, rel.props)}
  <2>1. t \notin unseen => \A d \in OpenIn(edges, t) : d.id = rel.id
    BY ExistingFacts DEF Own, CreateNew
  <2> QED
    BY <2>1, <1>3, MergedIsTheOne
<1>5. Shape' /\ EdgeSet' = EdgeSet
  <2>1. /\ UNCHANGED <<made, pairs, pc, batch, findFailed, calls, failed, torn, unseen>>
        /\ pos' = [pos EXCEPT ![t] = @ + 1]
        /\ stored' = [stored EXCEPT ![t] = @ \cup {rel.id}]
    BY DEF CreateNew
  <2>2. found' \in [Transforms -> [id : Ids, props : Props]]
    BY <1>1, <1>2, <1>3 DEF Shape
  <2>3. stored' \in [Transforms -> SUBSET RelIds]
    BY <1>1, <1>2, <2>1 DEF Shape
  <2>4. /\ pos' \in [Transforms -> Nat \ {0}]
        /\ \A u \in Transforms : pos'[u] <= Len(batch'[u]) + 1
    BY <1>1, <1>2, <2>1 DEF Shape
  <2>5. Ids' = Ids /\ EdgeSet' = EdgeSet
    BY <2>1 DEF Ids, EdgeSet
  <2> QED
    BY <1>1, <2>1, <2>2, <2>3, <2>4, <2>5 DEF Shape
<1>6. edges' \subseteq EdgeSet
  BY <1>2, <1>3, QueryTypes
<1>7. Own(t)'
  <2>1. /\ pc'[t] = "loop" /\ batch'[t] = batch[t] /\ findFailed' = findFailed /\ unseen' = unseen
        /\ ~findFailed[t] => found'[t].id = rel.id /\ found'[t] # None /\ None' = None
    BY <1>1, <1>2, <1>3 DEF CreateNew, Due, InLoop, Shape, None, NoProps
  <2>2. t \notin unseen => OneOpen(t)'
    BY <1>4 DEF OneOpen
  <2>3. ~findFailed'[t] /\ t \notin unseen => Remembered(t)'
    BY <1>4, <2>1 DEF Remembered, OpenEdge
  <2>4. CallInv(t)'
    BY <1>2, <2>1 DEF CallInv
  <2> QED
    BY <2>1, <2>2, <2>3, <2>4 DEF Own, Single
<1> QED
  BY <1>1, <1>5, <1>6, <1>7, TypesFromShape DEF CreateNew

LEMMA CreateNewFailsKeeps ==
    ASSUME TypeOK, NEW t \in Transforms, Own(t), CreateNewFails(t), pairs' = pairs
    PROVE  TypeOK' /\ Own(t)'
<1>1. Shape /\ edges \subseteq EdgeSet /\ faults \in 0..MaxFaults
  BY TypeOKIsShape
<1>2. /\ batch[t] \in Batches
      /\ Current(t).id \in Ids \ {0} /\ Current(t).props \in Props
  BY CurrentFacts DEF Own, CreateNewFails, Due, InLoop
<1> DEFINE rel == Current(t)
<1>3. edges' = edges \/ edges' = Merged(t, rel.id, rel.props)
  BY DEF CreateNewFails
<1>4. t \notin unseen => OneOpen(t)'
  <2>1. t \notin unseen => \A d \in OpenIn(edges, t) : d.id = rel.id
    BY ExistingFacts DEF Own, CreateNewFails
  <2>2. t \notin unseen => edges' = edges \/ OpenIn(edges', t) = {OpenEdge(t, rel.id, rel.props)}
    BY <2>1, <1>3, MergedIsTheOne
  <2> QED
    BY <2>2 DEF Own, Single, OneOpen
<1>5. Shape' /\ EdgeSet' = EdgeSet
  BY <1>1 DEF CreateNewFails, CallFails, Shape, PCs, Ids, EdgeSet
<1>6. edges' \subseteq EdgeSet
  BY <1>1, <1>2, <1>3, QueryTypes
<1>7. Own(t)'
  <2>1. pc'[t] = "idle" /\ UNCHANGED <<batch, unseen>>
    BY <1>1 DEF CreateNewFails, CallFails, Shape
  <2> QED
    BY <1>2, <1>4, <2>1 DEF Own, CallInv, Single
<1>8. faults' \in 0..MaxFaults
  BY FaultTypes DEF CreateNewFails
<1> QED
  BY <1>5, <1>6, <1>7, <1>8, TypesFromShape

LEMMA EndCallKeeps ==
    ASSUME TypeOK, NEW t \in Transforms, Own(t), EndCall(t), pairs' = pairs
    PROVE  TypeOK' /\ Own(t)'
<1>1. Shape /\ edges \subseteq EdgeSet /\ faults \in 0..MaxFaults
  BY TypeOKIsShape
<1>2. Shape' /\ EdgeSet' = EdgeSet
  BY <1>1 DEF EndCall, CallFails, Shape, PCs, Ids, EdgeSet
<1>3. pc[t] = "loop" /\ pc'[t] = "idle" /\ UNCHANGED <<edges, batch, unseen>>
  BY <1>1 DEF EndCall, CallFails, Shape
<1>4. Own(t)'
  BY <1>3 DEF Own, OneOpen, CallInv, Single
<1>5. faults' \in 0..MaxFaults
  BY FaultTypes DEF EndCall
<1> QED
  BY <1>1, <1>2, <1>4, <1>5, TypesFromShape DEF EndCall

\* A vertex more changes nothing that is written.
LEMMA CopyVertexKeeps ==
    ASSUME VersionInv, CopyVertex
    PROVE  VersionInv'
<1>1. /\ Shape /\ edges \subseteq EdgeSet /\ faults \in 0..MaxFaults
      /\ \A t \in Transforms : CallInv(t) /\ Single(t)
  BY TypeOKIsShape DEF VersionInv
<1>2. /\ UNCHANGED <<edges, made, pc, batch, pos, found, findFailed, stored, calls, failed,
                     faults, torn, unseen>>
      /\ pairs' \in 1..MaxPairs /\ 1..pairs \subseteq 1..pairs'
  BY <1>1, BoundAssumption DEF CopyVertex, callVars, Shape
<1>3. EdgeSet \subseteq EdgeSet'
  BY <1>2, IdsGrow DEF VersionInv
<1>4. Shape'
  BY <1>1, <1>2 DEF Shape, Ids
<1>5. TypeOK'
  BY <1>1, <1>2, <1>3, <1>4, TypesFromShape
<1>6. \A t \in Transforms : CallInv(t)' /\ Single(t)'
  BY <1>1, <1>2 DEF CallInv, Single, OneOpen, Remembered, NoneYet, None, NoProps
<1> QED
  BY <1>5, <1>6 DEF VersionInv

-----------------------------------------------------------------------------
(* The theorems *)

LEMMA InitInv == Init => VersionInv
<1> SUFFICES ASSUME Init PROVE VersionInv
  OBVIOUS
<1>1. None \in [id : {0}, props : Props]
  BY PropsFacts DEF None
<1>2. TypeOK
  BY <1>1, DataAssumption, BoundAssumption DEF Init, TypeOK, PCs, Ids
<1>3. \A t \in Transforms : CallInv(t) /\ Single(t)
  BY DEF Init, OneOpen, CallInv, Single, OpenIn
<1> QED
  BY <1>2, <1>3 DEF VersionInv

\* A transform keeps its part of the invariant when another one takes a step.
LEMMA OwnIsKept ==
    ASSUME NEW t, Kept(t), NEW u \in Transforms \ {t}, Own(u)
    PROVE  Own(u)'
BY DEF Kept, Own, OneOpen, CallInv, Single, Remembered, NoneYet

LEMMA StepInv == VersionInv /\ [Next]_vars => VersionInv'
<1> SUFFICES ASSUME VersionInv, [Next]_vars PROVE VersionInv'
  OBVIOUS
<1>1. TypeOK /\ \A t \in Transforms : Own(t)
  BY DEF VersionInv, Own
<1>2. ASSUME NEW t \in Transforms, StartCall(t) \/ Step(t), pairs' = pairs
      PROVE  VersionInv'
  <2>1. TypeOK' /\ Own(t)'
    <3>1. CASE StartCall(t)
      BY <1>1, <1>2, <3>1, StartCallKeeps
    <3>2. CASE Find(t)
      BY <1>1, <1>2, <3>2, FindKeeps
    <3>3. CASE FindFails(t)
      BY <1>1, <1>2, <3>3, FindFailsKeeps
    <3>4. CASE CreateFirst(t)
      BY <1>1, <1>2, <3>4, CreateFirstKeeps
    <3>5. CASE CreateFirstFails(t)
      BY <1>1, <1>2, <3>5, CreateFirstFailsKeeps
    <3>6. CASE SkipStored(t)
      BY <1>1, <1>2, <3>6, SkipStoredKeeps
    <3>7. CASE KeepExisting(t)
      BY <1>1, <1>2, <3>7, KeepExistingKeeps
    <3>8. CASE CloseExisting(t)
      BY <1>1, <1>2, <3>8, CloseExistingKeeps
    <3>9. CASE CloseExistingFails(t)
      BY <1>1, <1>2, <3>9, CloseExistingFailsKeeps
    <3>10. CASE CreateVersion(t)
      BY <1>1, <1>2, <3>10, CreateVersionKeeps
    <3>11. CASE CreateVersionFails(t)
      BY <1>1, <1>2, <3>11, CreateVersionFailsKeeps
    <3>12. CASE CreateNew(t)
      BY <1>1, <1>2, <3>12, CreateNewKeeps
    <3>13. CASE CreateNewFails(t)
      BY <1>1, <1>2, <3>13, CreateNewFailsKeeps
    <3>14. CASE EndCall(t)
      BY <1>1, <1>2, <3>14, EndCallKeeps
    <3> QED
      BY <1>2, <3>1, <3>2, <3>3, <3>4, <3>5, <3>6, <3>7, <3>8, <3>9, <3>10, <3>11, <3>12, <3>13,
         <3>14 DEF Step
  <2>2. \A u \in Transforms \ {t} : Own(u)'
    BY <1>1, <1>2, StepKeepsOthers, OwnIsKept
  <2> QED
    BY <2>1, <2>2 DEF VersionInv, Own
<1>3. CASE UNCHANGED vars
  <2>1. UNCHANGED <<edges, pairs, made, pc, batch, pos, found, findFailed, stored, calls, failed,
                    faults, torn, unseen>>
    BY <1>3 DEF vars, callVars
  <2>2. TypeOK'
    BY <1>1, <2>1 DEF TypeOK, Ids
  <2>3. \A t \in Transforms : CallInv(t)' /\ Single(t)'
    BY <1>1, <2>1 DEF Own, CallInv, Single, OneOpen, Remembered, NoneYet, None, NoProps
  <2> QED
    BY <2>2, <2>3 DEF VersionInv
<1>4. CASE CopyVertex
  BY <1>4, CopyVertexKeeps
<1> QED
  BY <1>2, <1>3, <1>4 DEF Next

LEMMA InvHolds == Spec => []VersionInv
BY InitInv, StepInv, PTL DEF Spec

\* The state of store_relationships keeps its types, whatever batches it is called
\* with and wherever its queries fail: the position of the loop stays within the
\* batch and every id is one of the callers' or a minted one.
THEOREM TypeCorrect == Spec => []TypeOK
<1>1. VersionInv => TypeOK
  BY DEF VersionInv
<1> QED
  BY <1>1, InvHolds, PTL

\* The open edges of a transform for one relationship are of one version, whatever
\* calls, faults and repetitions there are and however many vertices have the ids of
\* its ends, unless a lost MERGE has been overtaken: what existing_lookup remembers
\* across the queries is the open version, and a version is created only when none
\* is open.
THEOREM OneOpenEdge == Spec => []AtMostOneOpenEdge
<1>1. ASSUME VersionInv
      PROVE  AtMostOneOpenEdge
  <2> SUFFICES ASSUME NEW t \in Transforms \ unseen, NEW e \in Open(t), NEW f \in Open(t)
               PROVE  [e EXCEPT !.at = f.at] = f
    BY DEF AtMostOneOpenEdge
  <2>1. VersionOf(e) = VersionOf(f)
    BY <1>1, OpenIsOpenIn DEF VersionInv, Single, OneOpen
  <2>2. e.tid = f.tid /\ e.id = f.id /\ e.props = f.props /\ e.open = f.open
    BY <2>1, VersionFields
  <2>3. e \in EdgeSet /\ f \in EdgeSet
    BY <1>1 DEF VersionInv, TypeOK, EdgeSet, Open, Edges
  <2> QED
    BY <2>2, <2>3 DEF EdgeSet
<1> QED
  BY <1>1, InvHolds, PTL
-----------------------------------------------------------------------------
(* What a write leaves open *)

LEMMA CreateFirstEffect ==
    ASSUME TypeOK, NEW t \in Transforms, Own(t), CreateFirst(t)
    PROVE  /\ batch[t] \in Batches /\ Len(batch[t]) \in Nat \ {0} /\ pos[t] = 1 /\ stored[t] = {}
           /\ edges' = Merged(t, batch[t][1].id, batch[t][1].props)
           /\ OpenEdge(t, batch[t][1].id, batch[t][1].props) \in OpenIn(edges', t)
           /\ ~findFailed[t] /\ found'[t] = [id |-> batch[t][1].id, props |-> batch[t][1].props]
           /\ found'[t] # None
<1>1. batch[t] \in Batches /\ Len(batch[t]) \in Nat \ {0} /\ batch[t][1].id \in RelIds
  BY BatchFacts DEF Own, CallInv, CreateFirst
<1>2. ~findFailed[t] /\ pos[t] = 1 /\ stored[t] = {}
  BY DEF Own, CallInv, CreateFirst
<1>3. edges' = Merged(t, batch[t][1].id, batch[t][1].props)
  BY DEF CreateFirst
<1>4. OpenEdge(t, batch[t][1].id, batch[t][1].props) \in OpenIn(edges', t)
  BY <1>3, WrittenIsOpen
<1>5. found'[t] = [id |-> batch[t][1].id, props |-> batch[t][1].props]
  BY <1>2 DEF CreateFirst, Remember, TypeOK
<1>6. found'[t] # None
  BY <1>1, <1>5 DEF None, RelIds
<1> QED
  BY <1>1, <1>2, <1>3, <1>4, <1>5, <1>6

LEMMA CreateVersionEffect ==
    ASSUME TypeOK, NEW t \in Transforms, Own(t), CreateVersion(t) \/ CreateVersionFails(t),
           NEW props, props = MergedProps(found[t].props, Current(t).props)
    PROVE  /\ batch[t] \in Batches
           /\ found[t].props \in Props /\ Current(t).props \in Props
           /\ edges' = Versioned(t, props) => OpenEdge(t, FreshId, props) \in OpenIn(edges', t)
           /\ CreateVersion(t) => /\ edges' = Versioned(t, props)
                                  /\ ~findFailed[t] => /\ found'[t] = [id |-> FreshId, props |-> props]
                                                       /\ found'[t] # None
<1>1. pc[t] = "version" /\ pos[t] <= Len(batch[t])
  BY DEF CreateVersion, CreateVersionFails, Own, CallInv
<1>2. batch[t] \in Batches /\ Current(t).props \in Props
  BY <1>1, CurrentFacts DEF Own, CallInv
<1>3. found[t].props \in Props
  BY DEF TypeOK
<1>4. edges' = Versioned(t, props) => OpenEdge(t, FreshId, props) \in OpenIn(edges', t)
  BY WrittenIsOpen
<1>5. CreateVersion(t) => /\ edges' = Versioned(t, props)
                          /\ ~findFailed[t] => found'[t] = [id |-> FreshId, props |-> props]
  BY DEF CreateVersion, Remember, TypeOK
<1>6. FreshId # 0
  BY IdFacts
<1> QED
  BY <1>2, <1>3, <1>4, <1>5, <1>6 DEF None

LEMMA CreateNewEffect ==
    ASSUME TypeOK, NEW t \in Transforms, Own(t), CreateNew(t)
    PROVE  /\ batch[t] \in Batches
           /\ edges' = Merged(t, Current(t).id, Current(t).props)
           /\ OpenEdge(t, Current(t).id, Current(t).props) \in OpenIn(edges', t)
           /\ ~findFailed[t] => /\ found'[t] = [id |-> Current(t).id, props |-> Current(t).props]
                                /\ found'[t] # None
<1>1. batch[t] \in Batches /\ Current(t).id \in Ids \ {0}
  BY CurrentFacts DEF CreateNew, Due, InLoop, Own
<1>2. edges' = Merged(t, Current(t).id, Current(t).props)
  BY DEF CreateNew
<1>3. OpenEdge(t, Current(t).id, Current(t).props) \in OpenIn(edges', t)
  BY <1>2, WrittenIsOpen
<1>4. ~findFailed[t] => found'[t] = [id |-> Current(t).id, props |-> Current(t).props]
  BY DEF CreateNew, Remember, TypeOK
<1> QED
  BY <1>1, <1>2, <1>3, <1>4 DEF None

-----------------------------------------------------------------------------
(* What a call tells of the edges that are open *)

Shows(e, props) == \A k \in Keys : props[k] # Absent => e.props[k] = props[k]

\* What an id is written with at its turn.
FirstProps(b, i) == b[FirstAt(b, i)].props

\* The turns the loop has left behind, and their ids.
Behind(t) == {j \in Turns(batch[t]) : j < pos[t]}
Passed(t) == {batch[t][j].id : j \in Behind(t)}

\* An edge is open that shows what the call has written last: its last turn for an
\* id that the batched MERGE had not written or, without one, what that wrote.
ShownWith(t, S) ==
    \/ stored[t] = {}
    \/ \E e \in OpenIn(edges, t), i \in Behind(t) :
          /\ batch[t][i].id \notin S /\ Shows(e, FirstProps(batch[t], i))
          /\ \A k \in Behind(t) : k <= i \/ batch[t][k].id \in S
    \/ \E e \in OpenIn(edges, t) :
          /\ S # {} /\ Shows(e, batch[t][1].props)
          /\ \A k \in Behind(t) : batch[t][k].id \in S

\* stored_rels are the ids of the turns behind the loop, and the one the batched
\* MERGE has written if it has.
CountedWith(t, S) == stored[t] = Passed(t) \cup S /\ (pc[t] = "loop" => ShownWith(t, S))

Counted(t) ==
    /\ pc[t] \in {"loop", "version"} =>
          CountedWith(t, {}) \/ CountedWith(t, {batch[t][1].id})
    /\ pc[t] = "version" => pos[t] \in Turns(batch[t]) /\ Current(t).id \notin stored[t]
    /\ calls[t] > 0 => batch[t] \in Batches

\* What existing_lookup holds is an open edge, its properties included.
Match(t) ==
    (pc[t] = "loop" /\ ~findFailed[t] /\ found[t] # None) =>
        \E e \in OpenIn(edges, t) : e.id = found[t].id /\ e.props = found[t].props

Ended(t) ==
    (pc[t] = "idle" /\ calls[t] > 0 /\ ~failed[t]) =>
        \E e \in OpenIn(edges, t), w \in LastWritten(batch[t]) : Shows(e, w)

Told(t) == Counted(t) /\ Match(t) /\ Ended(t)

LEMMA TurnFacts ==
    \A b : /\ Turns(b) \subseteq Nat \ {0}
           /\ \A i, j \in Turns(b) : i < j => b[i].id # b[j].id
<1> TAKE b
<1>1. Turns(b) \subseteq Nat \ {0}
  BY DEF Turns
<1>2. ASSUME NEW i \in Turns(b), NEW j \in Turns(b), i < j
      PROVE  b[i].id # b[j].id
  <2>1. j \in (i + 1)..Len(b)
    BY <1>2 DEF Turns
  <2> QED
    BY <2>1 DEF Turns
<1> QED
  BY <1>1, <1>2

\* One relationship further.
LEMMA PassedGrows ==
    ASSUME TypeOK, NEW t \in Transforms, batch'[t] = batch[t], pos'[t] = pos[t] + 1
    PROVE  /\ pos[t] \in Turns(batch[t]) => /\ Behind(t)' = Behind(t) \cup {pos[t]}
                                            /\ Passed(t)' = Passed(t) \cup {batch[t][pos[t]].id}
           /\ pos[t] \notin Turns(batch[t]) => Behind(t)' = Behind(t) /\ Passed(t)' = Passed(t)
<1>1. pos[t] \in Nat \ {0} /\ Turns(batch[t]) \subseteq Nat
  BY TurnFacts DEF TypeOK
<1>2. \A j \in Turns(batch[t]) : j < pos[t] + 1 <=> j < pos[t] \/ j = pos[t]
  BY <1>1
<1>3. Behind(t)' = {j \in Turns(batch[t]) : j < pos[t] + 1}
  BY DEF Behind
<1>4. pos[t] \in Turns(batch[t]) => Behind(t)' = Behind(t) \cup {pos[t]}
  BY <1>2, <1>3 DEF Behind
<1>5. pos[t] \notin Turns(batch[t]) => Behind(t)' = Behind(t)
  BY <1>2, <1>3 DEF Behind
<1>6. Passed(t)' = {batch[t][j].id : j \in Behind(t)'}
  BY DEF Passed
<1> QED
  BY <1>4, <1>5, <1>6 DEF Passed

\* A write or a match at a due turn shows what it writes.
LEMMA TurnShows ==
    ASSUME TypeOK, NEW t \in Transforms, CallInv(t), pc[t] # "idle",
           pos[t] \in Turns(batch[t]), Current(t).id \notin stored[t],
           CountedWith(t, {}) \/ CountedWith(t, {batch[t][1].id}),
           batch'[t] = batch[t], pos'[t] = pos[t] + 1,
           stored'[t] = stored[t] \cup {Current(t).id}, pc'[t] # "version",
           calls[t] > 0 => batch[t] \in Batches, calls'[t] = calls[t],
           NEW e \in OpenIn(edges', t), Shows(e, Current(t).props)
    PROVE  Counted(t)'
<1>1. pos[t] <= Len(batch[t]) /\ pos[t] \in Nat \ {0} /\ Turns(batch[t]) \subseteq Nat
  BY TurnFacts DEF Turns, TypeOK
<1>2. Current(t).id = batch[t][pos[t]].id
  BY <1>1, CurrentFacts
<1>3. Behind(t)' = Behind(t) \cup {pos[t]} /\ Passed(t)' = Passed(t) \cup {batch[t][pos[t]].id}
  BY PassedGrows
<1>4. ASSUME NEW S, CountedWith(t, S)
      PROVE  stored'[t] = Passed(t)' \cup S
             /\ \E i \in Behind(t)' : /\ batch[t][i].id \notin S
                                      /\ Shows(e, FirstProps(batch[t], i))
                                      /\ \A k \in Behind(t)' : k <= i \/ batch[t][k].id \in S
  <2>1. stored[t] = Passed(t) \cup S
    BY <1>4 DEF CountedWith
  <2>2. batch[t][pos[t]].id \notin S
    BY <1>2, <2>1
  <2>3. pos[t] \in Behind(t)' /\ \A k \in Behind(t)' : k <= pos[t]
    BY <1>1, <1>3 DEF Behind
  <2>4. Shows(e, FirstProps(batch[t], pos[t]))
    BY DEF FirstProps, Current
  <2>5. stored'[t] = Passed(t)' \cup S
    BY <1>2, <1>3, <2>1
  <2> QED
    BY <2>2, <2>3, <2>4, <2>5
<1>5. CountedWith(t, {})' \/ CountedWith(t, {batch[t][1].id})'
  <2>1. CASE CountedWith(t, {})
    <3>1. stored'[t] = Passed(t)' \cup {}
      BY <1>4, <2>1
    <3>2. \E i \in Behind(t)' : /\ Shows(e, FirstProps(batch[t], i))
                               /\ \A k \in Behind(t)' : k <= i
      BY <1>4, <2>1
    <3>3. ShownWith(t, {})'
      BY <3>2 DEF ShownWith
    <3> QED
      BY <3>1, <3>3 DEF CountedWith
  <2>2. CASE CountedWith(t, {batch[t][1].id})
    <3> DEFINE m == {batch[t][1].id}
    <3>1. /\ stored'[t] = Passed(t)' \cup m
          /\ \E i \in Behind(t)' : /\ batch[t][i].id \notin m
                                   /\ Shows(e, FirstProps(batch[t], i))
                                   /\ \A k \in Behind(t)' : k <= i \/ batch[t][k].id \in m
      BY <1>4, <2>2
    <3>2. ShownWith(t, {batch[t][1].id})'
      BY <3>1 DEF ShownWith
    <3> QED
      BY <3>1, <3>2 DEF CountedWith
  <2> QED
    BY <2>1, <2>2
<1> QED
  BY <1>5 DEF Counted

LEMMA QuietTells ==
    ASSUME TypeOK, NEW t \in Transforms, Own(t), Told(t), pairs' = pairs,
           StartCall(t) \/ Find(t) \/ FindFails(t) \/ CreateFirstFails(t)
    PROVE  Told(t)'
<1>1. CASE StartCall(t)
  <2>1. pc'[t] = "find" /\ batch'[t] \in Batches
    BY <1>1, StartCallKeeps DEF StartCall, TypeOK
  <2> QED
    BY <2>1 DEF Told, Counted, Match, Ended
<1>2. CASE Find(t) \/ FindFails(t) \/ CreateFirstFails(t)
  <2>1. /\ pc'[t] \in {"create", "loop"} /\ pos'[t] = 1 /\ stored'[t] = {}
        /\ UNCHANGED <<batch, calls>>
    BY <1>2 DEF Find, FindFails, CreateFirstFails, Own, CallInv, TypeOK
  <2>2. Behind(t)' = {}
    BY <2>1, TurnFacts DEF Behind
  <2>3. CountedWith(t, {})'
    BY <2>1, <2>2 DEF CountedWith, ShownWith, Passed
  <2>4. Counted(t)' /\ Ended(t)'
    BY <2>1, <2>3 DEF Told, Counted, Ended
  <2>5. Match(t)'
    <3>1. CASE Find(t)
      <4>1. PICK e \in Lookups(t) : found' = [found EXCEPT ![t] = e]
        BY <3>1 DEF Find
      <4>2. found'[t] = e /\ UNCHANGED edges /\ None' = None
        BY <3>1, <4>1 DEF Find, TypeOK, None, NoProps
      <4>3. e # None => \E d \in OpenIn(edges, t) : d.id = e.id /\ d.props = e.props
        BY LookupFacts
      <4> QED
        BY <4>2, <4>3 DEF Match
    <3>2. CASE FindFails(t)
      BY <3>2 DEF Match, FindFails, TypeOK
    <3>3. CASE CreateFirstFails(t)
      <4>1. found'[t] = None /\ None' = None
        BY <3>3 DEF CreateFirstFails, Own, CallInv, None, NoProps
      <4> QED
        BY <4>1 DEF Match
    <3> QED
      BY <1>2, <3>1, <3>2, <3>3
  <2> QED
    BY <2>4, <2>5 DEF Told
<1> QED
  BY <1>1, <1>2

LEMMA CreateFirstTells ==
    ASSUME TypeOK, NEW t \in Transforms, Own(t), Told(t), CreateFirst(t)
    PROVE  Told(t)'
<1> DEFINE rel == batch[t][1]
<1>1. /\ pc'[t] = "loop" /\ pos'[t] = 1 /\ stored'[t] = {rel.id}
      /\ UNCHANGED <<batch, calls>> /\ batch'[t] = batch[t]
  BY CreateFirstEffect DEF CreateFirst, TypeOK
<1>2. /\ OpenEdge(t, rel.id, rel.props) \in OpenIn(edges', t)
      /\ found'[t] = [id |-> rel.id, props |-> rel.props]
  BY CreateFirstEffect
<1>3. Behind(t)' = {}
  BY <1>1, TurnFacts DEF Behind
<1>4. Shows(OpenEdge(t, rel.id, rel.props), rel.props)
  BY DEF Shows, OpenEdge
<1>5. CountedWith(t, {rel.id})'
  BY <1>1, <1>2, <1>3, <1>4 DEF CountedWith, ShownWith, Passed
<1>6. Match(t)'
  BY <1>2 DEF Match, OpenEdge
<1>7. Counted(t)' /\ Ended(t)'
  BY <1>1, <1>5 DEF Counted, Told, Ended
<1> QED
  BY <1>6, <1>7 DEF Told

LEMMA SkipStoredTells ==
    ASSUME TypeOK, NEW t \in Transforms, Own(t), Told(t), SkipStored(t)
    PROVE  Told(t)'
<1>1. /\ pc[t] = "loop" /\ pos[t] <= Len(batch[t]) /\ ~Due(t) /\ InLoop(t)
      /\ pos'[t] = pos[t] + 1 /\ UNCHANGED <<edges, pc, batch, found, findFailed, stored, calls>>
  BY DEF SkipStored, InLoop, TypeOK
<1>2. batch'[t] = batch[t] /\ pos[t] \in Nat \ {0} /\ Turns(batch[t]) \subseteq Nat
  BY <1>1, TurnFacts DEF TypeOK
<1>3. ASSUME NEW S, CountedWith(t, S)
      PROVE  stored[t] = Passed(t)' \cup S /\ ShownWith(t, S)'
  <2>1. stored[t] = Passed(t) \cup S /\ ShownWith(t, S)
    BY <1>1, <1>3 DEF CountedWith
  <2>2. CASE pos[t] \notin Turns(batch[t])
    <3>1. Behind(t)' = Behind(t) /\ Passed(t)' = Passed(t)
      BY <1>1, <1>2, <2>2, PassedGrows
    <3> QED
      BY <1>1, <2>1, <3>1 DEF ShownWith
  <2>3. CASE pos[t] \in Turns(batch[t])
    <3>1. Current(t).id \in stored[t] /\ Current(t).id = batch[t][pos[t]].id
      BY <1>1, <2>3, CurrentFacts DEF Due, Own
    <3>2. batch[t][pos[t]].id \notin Passed(t)
      BY <2>3, TurnFacts DEF Passed, Behind
    <3>3. batch[t][pos[t]].id \in S
      BY <2>1, <3>1, <3>2
    <3>4. Behind(t)' = Behind(t) \cup {pos[t]} /\ Passed(t)' = Passed(t) \cup {batch[t][pos[t]].id}
      BY <1>1, <1>2, <2>3, PassedGrows
    <3>5. ShownWith(t, S)'
      BY <1>1, <2>1, <3>3, <3>4 DEF ShownWith
    <3> QED
      BY <2>1, <3>3, <3>4, <3>5
  <2> QED
    BY <2>2, <2>3
<1>4. CountedWith(t, {})' \/ CountedWith(t, {batch[t][1].id})'
  <2>1. CASE CountedWith(t, {})
    BY <1>1, <1>3, <2>1 DEF CountedWith
  <2>2. CASE CountedWith(t, {batch[t][1].id})
    BY <1>1, <1>3, <2>2 DEF CountedWith
  <2> QED
    BY <1>1, <2>1, <2>2 DEF Told, Counted
<1>5. Counted(t)' /\ Ended(t)'
  BY <1>1, <1>2, <1>4 DEF Told, Counted, Ended
<1>6. Match(t)'
  BY <1>1 DEF Told, Match, None, NoProps
<1> QED
  BY <1>5, <1>6 DEF Told

\* What the loop compares a relationship with is an open edge.
LEMMA ExistingIsOpen ==
    ASSUME TypeOK, NEW t \in Transforms, Told(t), InLoop(t), NEW e \in Existing(t), e # None
    PROVE  \E d \in OpenIn(edges, t) : d.id = e.id /\ d.props = e.props
<1>1. CASE findFailed[t]
  BY <1>1, LookupFacts DEF Existing
<1>2. CASE ~findFailed[t]
  BY <1>2 DEF Existing, Told, Match, InLoop
<1> QED
  BY <1>1, <1>2

LEMMA KeepExistingTells ==
    ASSUME TypeOK, NEW t \in Transforms, Own(t), Told(t), KeepExisting(t)
    PROVE  Told(t)'
<1>1. /\ pc[t] = "loop" /\ InLoop(t) /\ Current(t).id \notin stored[t]
      /\ pos[t] \in Turns(batch[t])
      /\ pos'[t] = pos[t] + 1 /\ stored'[t] = stored[t] \cup {Current(t).id}
      /\ UNCHANGED <<edges, pc, batch, found, findFailed, calls>>
  BY DEF KeepExisting, Due, InLoop, TypeOK
<1>2. PICK d \in OpenIn(edges, t) : d.props = Current(t).props
  BY <1>1, ExistingIsOpen DEF KeepExisting
<1>3. Shows(d, Current(t).props)
  BY <1>2 DEF Shows
<1>4. Counted(t)'
  BY <1>1, <1>2, <1>3, TurnShows DEF Told, Counted, Own
<1>5. Match(t)' /\ Ended(t)'
  BY <1>1 DEF Told, Match, Ended, None, NoProps
<1> QED
  BY <1>4, <1>5 DEF Told

LEMMA CloseExistingTells ==
    ASSUME TypeOK, NEW t \in Transforms, Own(t), Told(t), CloseExisting(t)
    PROVE  Told(t)'
<1>1. /\ pc[t] = "loop" /\ Current(t).id \notin stored[t] /\ pos[t] \in Turns(batch[t])
      /\ pc'[t] = "version" /\ UNCHANGED <<batch, pos, stored, calls>>
  BY DEF CloseExisting, Due, InLoop, TypeOK
<1>2. \A S : stored[t] = Passed(t) \cup S => CountedWith(t, S)'
  BY <1>1 DEF CountedWith, Passed, Behind
<1>3. CountedWith(t, {})' \/ CountedWith(t, {batch[t][1].id})'
  BY <1>1, <1>2 DEF Told, Counted, CountedWith
<1> QED
  BY <1>1, <1>3 DEF Told, Counted, Match, Ended, Current

LEMMA CreateVersionTells ==
    ASSUME TypeOK, NEW t \in Transforms, Own(t), Told(t), CreateVersion(t)
    PROVE  Told(t)'
<1> DEFINE props == MergedProps(found[t].props, Current(t).props)
<1>1. /\ pc[t] = "version" /\ pc'[t] = "loop" /\ pos'[t] = pos[t] + 1
      /\ stored'[t] = stored[t] \cup {Current(t).id}
      /\ UNCHANGED <<batch, findFailed, calls>> /\ batch'[t] = batch[t]
  BY DEF CreateVersion, TypeOK
<1>2. /\ OpenEdge(t, FreshId, props) \in OpenIn(edges', t)
      /\ ~findFailed[t] => found'[t] = [id |-> FreshId, props |-> props]
  BY CreateVersionEffect
<1>3. Shows(OpenEdge(t, FreshId, props), Current(t).props)
  BY DEF Shows, OpenEdge, MergedProps
<1>4. Counted(t)'
  <2>1. /\ pos[t] \in Turns(batch[t]) /\ Current(t).id \notin stored[t] /\ CallInv(t)
        /\ CountedWith(t, {}) \/ CountedWith(t, {batch[t][1].id})
        /\ calls[t] > 0 => batch[t] \in Batches
    BY <1>1 DEF Told, Counted, Own
  <2> HIDE DEF props
  <2> QED
    BY <1>1, <1>2, <1>3, <2>1, TurnShows
<1>5. Match(t)' /\ Ended(t)'
  BY <1>1, <1>2 DEF Match, Ended, OpenEdge
<1> QED
  BY <1>4, <1>5 DEF Told

LEMMA CreateNewTells ==
    ASSUME TypeOK, NEW t \in Transforms, Own(t), Told(t), CreateNew(t)
    PROVE  Told(t)'
<1> DEFINE rel == Current(t)
<1>1. /\ pc[t] = "loop" /\ rel.id \notin stored[t] /\ pos[t] \in Turns(batch[t])
      /\ pos'[t] = pos[t] + 1 /\ stored'[t] = stored[t] \cup {rel.id}
      /\ UNCHANGED <<pc, batch, findFailed, calls>>
  BY DEF CreateNew, Due, InLoop, TypeOK
<1>2. /\ OpenEdge(t, rel.id, rel.props) \in OpenIn(edges', t)
      /\ ~findFailed[t] => found'[t] = [id |-> rel.id, props |-> rel.props]
  BY CreateNewEffect
<1>3. Shows(OpenEdge(t, rel.id, rel.props), rel.props)
  BY DEF Shows, OpenEdge
<1>4. Counted(t)'
  <2>1. /\ CallInv(t)
        /\ CountedWith(t, {}) \/ CountedWith(t, {batch[t][1].id})
        /\ calls[t] > 0 => batch[t] \in Batches
    BY <1>1 DEF Told, Counted, Own
  <2>2. batch'[t] = batch[t] /\ calls'[t] = calls[t] /\ pc'[t] = pc[t]
    BY <1>1
  <2> HIDE DEF rel
  <2>3. rel = Current(t)
    BY DEF rel
  <2> QED
    BY <1>1, <1>2, <1>3, <2>1, <2>2, <2>3, TurnShows
<1>5. Match(t)' /\ Ended(t)'
  BY <1>1, <1>2 DEF Match, Ended, OpenEdge
<1> QED
  BY <1>4, <1>5 DEF Told

\* With the batch behind it the loop has shown what the call wrote last.
LEMMA EndCallTells ==
    ASSUME TypeOK, NEW t \in Transforms, Own(t), Told(t), EndCall(t)
    PROVE  Told(t)'
<1> DEFINE b == batch[t]
           n == Len(batch[t])
<1>1. /\ pc[t] = "loop" /\ pc'[t] = "idle" /\ pos[t] = n + 1
      /\ UNCHANGED <<edges, batch, pos, stored, calls>>
  BY DEF EndCall, CallFails, TypeOK
<1>2. b \in Batches /\ n \in Nat \ {0}
  BY <1>1, BatchFacts DEF Own, CallInv
<1>3. Behind(t) = Turns(b) /\ n \in Turns(b) /\ \A k \in Turns(b) : k \in 1..n
  BY <1>1, <1>2 DEF Behind, Turns
<1>4. stored[t] # {}
  <2>1. b[n].id \in Passed(t)
    BY <1>3 DEF Passed
  <2> QED
    BY <1>1, <2>1 DEF Told, Counted, CountedWith
<1>5. \A i \in Turns(b) : (\/ \A k \in Turns(b) : k <= i
                           \/ /\ b[i].id # b[1].id
                              /\ \A k \in Turns(b) : k <= i \/ b[k].id = b[1].id)
                          => FirstProps(b, i) \in LastWritten(b)
  BY DEF LastWritten, FirstProps
<1>6. ASSUME NEW e \in OpenIn(edges, t), NEW i \in Turns(b), Shows(e, FirstProps(b, i)),
             FirstProps(b, i) \in LastWritten(b)
      PROVE  Ended(t)'
  <2>1. batch'[t] = b /\ OpenIn(edges', t) = OpenIn(edges, t)
    BY <1>1
  <2>2. \E w \in LastWritten(batch'[t]) : Shows(e, w)
    BY <1>6, <2>1
  <2> QED
    BY <1>6, <2>1, <2>2 DEF Ended
<1>7. ASSUME CountedWith(t, {}) PROVE Ended(t)'
  <2>1. PICK e \in OpenIn(edges, t), i \in Turns(b) :
          Shows(e, FirstProps(b, i)) /\ \A k \in Turns(b) : k <= i
    BY <1>1, <1>3, <1>4, <1>7 DEF CountedWith, ShownWith
  <2>2. FirstProps(b, i) \in LastWritten(b)
    BY <1>5, <2>1
  <2> QED
    BY <1>6, <2>1, <2>2
<1>8. ASSUME CountedWith(t, {b[1].id}) PROVE Ended(t)'
  <2>1. \/ \E e \in OpenIn(edges, t), i \in Turns(b) :
              /\ b[i].id # b[1].id /\ Shows(e, FirstProps(b, i))
              /\ \A k \in Turns(b) : k <= i \/ b[k].id = b[1].id
        \/ \E e \in OpenIn(edges, t) : Shows(e, b[1].props)
                                        /\ \A k \in Turns(b) : b[k].id = b[1].id
    BY <1>1, <1>3, <1>4, <1>8 DEF CountedWith, ShownWith
  <2>2. CASE \E e \in OpenIn(edges, t), i \in Turns(b) :
              /\ b[i].id # b[1].id /\ Shows(e, FirstProps(b, i))
              /\ \A k \in Turns(b) : k <= i \/ b[k].id = b[1].id
    <3>1. PICK e \in OpenIn(edges, t), i \in Turns(b) :
              /\ b[i].id # b[1].id /\ Shows(e, FirstProps(b, i))
              /\ \A k \in Turns(b) : k <= i \/ b[k].id = b[1].id
      BY <2>2
    <3>2. FirstProps(b, i) \in LastWritten(b)
      BY <1>5, <3>1
    <3> QED
      BY <1>6, <3>1, <3>2
  <2>3. CASE \E e \in OpenIn(edges, t) : Shows(e, b[1].props)
                                        /\ \A k \in Turns(b) : b[k].id = b[1].id
    <3>1. PICK e \in OpenIn(edges, t) : Shows(e, b[1].props) /\ b[n].id = b[1].id
      BY <1>3, <2>3
    <3>2. FirstAt(b, n) = 1
      <4>1. 1 \in 1..n /\ b[1].id = b[n].id /\ \A k \in 1..(1 - 1) : b[k].id # b[n].id
        BY <1>2, <3>1
      <4>2. \A j \in 1..n : (\A k \in 1..(j - 1) : b[k].id # b[n].id) => j = 1
        BY <1>2, <3>1
      <4> QED
        BY <4>1, <4>2 DEF FirstAt
    <3>3. Shows(e, FirstProps(b, n))
      BY <3>1, <3>2 DEF FirstProps
    <3>4. \A k \in Turns(b) : k <= n
      BY <1>2, <1>3
    <3>5. FirstProps(b, n) \in LastWritten(b)
      BY <1>3, <1>5, <3>4
    <3> QED
      BY <1>3, <1>6, <3>1, <3>3, <3>5
  <2> QED
    BY <2>1, <2>2, <2>3
<1>9. Ended(t)'
  BY <1>1, <1>7, <1>8 DEF Told, Counted
<1> QED
  BY <1>1, <1>9 DEF Told, Counted, Match

LEMMA FailureTells ==
    ASSUME TypeOK, NEW t \in Transforms, Told(t),
           CloseExistingFails(t) \/ CreateVersionFails(t) \/ CreateNewFails(t)
    PROVE  Told(t)'
<1>1. pc'[t] = "idle" /\ failed'[t] /\ UNCHANGED <<batch, calls>>
  BY DEF CloseExistingFails, CreateVersionFails, CreateNewFails, CallFails, TypeOK
<1> QED
  BY <1>1 DEF Told, Counted, Match, Ended
-----------------------------------------------------------------------------
(* What versions carry on *)

\* The later version has every property the earlier one had.
Carries(new, old) == \A k \in Keys : old[k] # Absent => new[k] # Absent

\* Unless a call of t stopped between close and CREATE: while nothing is open
\* nothing has been written, except in the middle of a change, and a loop that
\* remembers no edge finds no closed one.
History(t) ==
    t \notin torn =>
        /\ (pc[t] # "version" /\ OpenIn(edges, t) = {}) => EdgesIn(edges, t) = {}
        /\ (pc[t] = "loop" /\ ~findFailed[t] /\ found[t] = None) =>
              \A e \in EdgesIn(edges, t) : e.open

\* Unless two versions were open at a time either: the open version, or the one in
\* change, carries the properties of all the others.
Carried(t) ==
    t \notin torn \cup unseen =>
        /\ pc[t] # "version" =>
              \A e \in OpenIn(edges, t), d \in EdgesIn(edges, t) : Carries(e.props, d.props)
        /\ pc[t] = "version" => \A d \in EdgesIn(edges, t) : Carries(found[t].props, d.props)

LEMMA EdgeEffects ==
    ASSUME TypeOK, NEW t \in Transforms, NEW id, NEW props
    PROVE  /\ \A v \in EdgesIn(Merged(t, id, props), t) :
                 v = OpenEdge(t, id, props) \/ (v \in EdgesIn(edges, t) /\ v.id # id)
           /\ \A v \in EdgesIn(Versioned(t, props), t) :
                 v \in EdgesIn(edges, t) \/ v = OpenEdge(t, FreshId, props)
           /\ \A d \in EdgesIn(Closed(t, id), t) :
                 \E e \in EdgesIn(edges, t) : d.props = e.props
           /\ \A e \in edges : ~e.open => e \in Closed(t, id)
<1>1. ASSUME NEW v \in EdgesIn(Merged(t, id, props), t)
      PROVE  v = OpenEdge(t, id, props) \/ (v \in EdgesIn(edges, t) /\ v.id # id)
  <2>1. PICK e \in Merged(t, id, props) : e.tid = t /\ v = VersionOf(e)
    BY DEF EdgesIn
  <2>2. CASE e \in Written(t, id, props)
    BY <2>1, <2>2, WrittenIsOne
  <2>3. CASE e \in edges /\ ~(e.tid = t /\ e.id = id)
    BY <2>1, <2>3, VersionFields DEF EdgesIn
  <2> QED
    BY <2>2, <2>3 DEF Merged
<1>2. ASSUME NEW v \in EdgesIn(Versioned(t, props), t)
      PROVE  v \in EdgesIn(edges, t) \/ v = OpenEdge(t, FreshId, props)
  <2>1. PICK e \in Versioned(t, props) : e.tid = t /\ v = VersionOf(e)
    BY DEF EdgesIn
  <2>2. CASE e \in Written(t, FreshId, props)
    BY <2>1, <2>2, WrittenIsOne
  <2>3. CASE e \in edges
    BY <2>1, <2>3 DEF EdgesIn
  <2> QED
    BY <2>2, <2>3 DEF Versioned
<1>3. ASSUME NEW d \in EdgesIn(Closed(t, id), t)
      PROVE  \E e \in EdgesIn(edges, t) : d.props = e.props
  <2>1. PICK c \in Closed(t, id) : c.tid = t /\ d = VersionOf(c)
    BY DEF EdgesIn
  <2>2. PICK e \in edges : c = IF e.tid = t /\ e.id = id THEN [e EXCEPT !.open = FALSE] ELSE e
    BY DEF Closed
  <2>3. c.tid = e.tid /\ c.props = e.props
    BY <2>2 DEF TypeOK
  <2>4. VersionOf(e) \in EdgesIn(edges, t)
    BY <2>1, <2>3 DEF EdgesIn
  <2> QED
    BY <2>1, <2>3, <2>4, VersionFields
<1>4. \A e \in edges : ~e.open => e \in Closed(t, id)
  <2> SUFFICES ASSUME NEW e \in edges, ~e.open PROVE e \in Closed(t, id)
    OBVIOUS
  <2>1. [e EXCEPT !.open = FALSE] = e
    BY DEF TypeOK
  <2> QED
    BY <2>1 DEF Closed
<1> QED
  BY <1>1, <1>2, <1>3, <1>4

\* Where a MERGE is next, the transform has no closed edge: the MERGE takes nothing
\* that has been closed; and, unless one has been overtaken, no edge of another id.
LEMMA NothingIsClosed ==
    ASSUME TypeOK, NEW t \in Transforms, Own(t), History(t), t \notin torn, NEW id,
           \/ pc[t] = "create"
           \/ Due(t) /\ None \in Existing(t) /\ id = Current(t).id
    PROVE  \A e \in EdgesIn(edges, t) : e.open /\ (t \notin unseen => e.id = id)
<1>1. CASE OpenIn(edges, t) = {} /\ pc[t] # "version"
  <2>1. EdgesIn(edges, t) = {}
    BY <1>1 DEF History
  <2> QED
    BY <2>1
<1>2. CASE Due(t) /\ findFailed[t] /\ None \in Existing(t)
  <2>1. OpenIn(edges, t) = {}
    BY <1>2, LookupFacts DEF Existing
  <2> QED
    BY <1>1, <1>2, <2>1 DEF Due, InLoop
<1>3. CASE Due(t) /\ ~findFailed[t] /\ None \in Existing(t) /\ id = Current(t).id
  <2>1. pc[t] = "loop" /\ found[t] = None
    BY <1>3 DEF Due, InLoop, Existing
  <2>2. \A e \in EdgesIn(edges, t) : e.open
    BY <1>3, <2>1 DEF History
  <2>3. t \notin unseen => \A e \in OpenIn(edges, t) : e.id = Current(t).id
    BY <1>3, ExistingFacts DEF Own
  <2>4. \A e \in EdgesIn(edges, t) : e.open => e \in OpenIn(edges, t)
    BY VersionFields DEF EdgesIn, OpenIn
  <2> QED
    BY <1>3, <2>2, <2>3, <2>4
<1>4. pc[t] = "create" => OpenIn(edges, t) = {}
  BY DEF Own, CallInv
<1> QED
  BY <1>1, <1>2, <1>3, <1>4

\* A MERGE there leaves open versions only, and but for an overtaken one the version
\* it writes is the only one.
LEMMA MergeStarts ==
    ASSUME TypeOK, NEW t \in Transforms, Own(t), History(t), t \notin torn, NEW id, NEW props,
           \/ pc[t] = "create"
           \/ Due(t) /\ None \in Existing(t) /\ id = Current(t).id,
           edges' = Merged(t, id, props), unseen \subseteq unseen', pc'[t] # "version"
    PROVE  History(t)' /\ Carried(t)'
<1>1. \A v \in EdgesIn(edges, t) : v.open /\ (t \notin unseen => v.id = id)
  BY NothingIsClosed
<1>2. \A v \in EdgesIn(edges', t) :
        v = OpenEdge(t, id, props) \/ (v \in EdgesIn(edges, t) /\ v.id # id)
  BY EdgeEffects
<1>3. OpenEdge(t, id, props) \in OpenIn(edges', t)
  BY WrittenIsOpen
<1>4. \A v \in EdgesIn(edges', t) : v.open
  BY <1>1, <1>2 DEF OpenEdge
<1>5. History(t)'
  BY <1>3, <1>4 DEF History
<1>6. t \notin unseen => \A v \in EdgesIn(edges', t) : v = OpenEdge(t, id, props)
  BY <1>1, <1>2
<1>7. OpenIn(edges', t) \subseteq EdgesIn(edges', t)
  BY DEF OpenIn, EdgesIn
<1>8. Carried(t)'
  BY <1>6, <1>7 DEF Carried, Carries
<1> QED
  BY <1>5, <1>8

\* A step that leaves the transform's edges alone.
LEMMA QuietHistory ==
    ASSUME NEW t \in Transforms, History(t), Carried(t), UNCHANGED <<edges, torn, unseen>>,
           pc[t] # "version", pc'[t] # "version",
           (pc'[t] = "loop" /\ ~findFailed'[t] /\ found'[t] = None') =>
               (t \notin torn => \A e \in EdgesIn(edges, t) : e.open)
    PROVE  History(t)' /\ Carried(t)'
BY DEF History, Carried

LEMMA HistoryStep ==
    ASSUME TypeOK, NEW t \in Transforms, Own(t), Told(t), History(t), Carried(t),
           StartCall(t) \/ Step(t)
    PROVE  History(t)' /\ Carried(t)'
<1> SUFFICES ASSUME t \notin torn' PROVE History(t)' /\ Carried(t)'
  BY DEF History, Carried
<1>a. t \notin torn /\ unseen \subseteq unseen'
  BY DEF StartCall, Step, Find, FindFails, CreateFirst, CreateFirstFails, SkipStored, KeepExisting,
         CloseExisting, CloseExistingFails, CreateVersion, CreateVersionFails, CreateNew,
         CreateNewFails, EndCall
<1>n. None' = None
  BY DEF None, NoProps
<1>1. CASE StartCall(t) \/ FindFails(t)
  <2>1. /\ UNCHANGED <<edges, torn, unseen>> /\ pc[t] # "version" /\ pc'[t] # "version"
        /\ ~(pc'[t] = "loop" /\ ~findFailed'[t] /\ found'[t] = None')
    BY <1>1 DEF StartCall, FindFails, TypeOK
  <2> QED
    BY <2>1, QuietHistory
<1>2. CASE Find(t)
  <2>1. PICK e \in Lookups(t) :
          /\ found' = [found EXCEPT ![t] = e]
          /\ pc' = [pc EXCEPT ![t] = IF e = None THEN "create" ELSE "loop"]
    BY <1>2 DEF Find
  <2>2. /\ UNCHANGED <<edges, torn, unseen>> /\ pc[t] # "version" /\ pc'[t] # "version"
        /\ pc'[t] = "loop" => found'[t] # None'
    BY <1>2, <1>n, <2>1 DEF Find, TypeOK
  <2> QED
    BY <2>2, QuietHistory
<1>3. CASE SkipStored(t) \/ KeepExisting(t) \/ EndCall(t)
  <2>1. /\ UNCHANGED <<edges, torn, unseen, found, findFailed>>
        /\ pc[t] = "loop" /\ pc'[t] # "version"
    BY <1>3 DEF SkipStored, KeepExisting, EndCall, CallFails, Due, InLoop, TypeOK
  <2>2. (~findFailed[t] /\ found[t] = None) => \A e \in EdgesIn(edges, t) : e.open
    BY <1>a, <2>1 DEF History
  <2> QED
    BY <1>n, <2>1, <2>2, QuietHistory
<1>4. CASE CreateFirst(t)
  <2>1. pc[t] = "create" /\ pc'[t] = "loop"
    BY <1>4 DEF CreateFirst, TypeOK
  <2>2. edges' = Merged(t, batch[t][1].id, batch[t][1].props)
    BY <1>4, CreateFirstEffect
  <2> QED
    BY <1>a, <2>1, <2>2, MergeStarts
<1>5. CASE CreateFirstFails(t)
  <2>1. pc[t] = "create" /\ pc'[t] = "loop"
    BY <1>5 DEF CreateFirstFails, TypeOK
  <2>2. CASE edges' = edges
    <3>1. EdgesIn(edges, t) = {} /\ OpenIn(edges, t) = {}
      BY <1>a, <2>1 DEF History, Own, CallInv
    <3> QED
      BY <2>1, <2>2, <3>1 DEF History, Carried
  <2>3. CASE edges' = Merged(t, batch[t][1].id, batch[t][1].props)
    BY <1>a, <2>1, <2>3, MergeStarts
  <2> QED
    BY <1>5, <2>2, <2>3 DEF CreateFirstFails
<1>6. CASE CloseExisting(t)
  <2>1. PICK e \in Existing(t) : /\ e # None /\ edges' = Closed(t, e.id)
                                 /\ found' = [found EXCEPT ![t] = e]
    BY <1>6 DEF CloseExisting
  <2>2. /\ InLoop(t) /\ pc[t] = "loop" /\ pc'[t] = "version" /\ found'[t] = e
        /\ UNCHANGED <<torn, unseen>>
    BY <1>6, <2>1 DEF CloseExisting, Due, InLoop, TypeOK
  <2>3. PICK o \in OpenIn(edges, t) : o.props = e.props
    BY <2>1, <2>2, ExistingIsOpen
  <2>4. t \notin unseen => \A d \in EdgesIn(edges, t) : Carries(e.props, d.props)
    BY <1>a, <2>2, <2>3 DEF Carried
  <2>5. \A d \in EdgesIn(edges', t) : \E c \in EdgesIn(edges, t) : d.props = c.props
    BY <2>1, EdgeEffects
  <2> QED
    BY <2>2, <2>4, <2>5 DEF History, Carried
<1>7. CASE CloseExistingFails(t)
  <2>1. /\ UNCHANGED <<edges, torn, unseen>> /\ pc[t] = "loop" /\ pc'[t] = "idle"
    BY <1>7 DEF CloseExistingFails, CallFails, Due, InLoop, TypeOK
  <2> QED
    BY <2>1, QuietHistory
<1>8. ASSUME NEW props, props = MergedProps(found[t].props, Current(t).props),
             pc[t] = "version", pc'[t] # "version", unseen' = unseen,
             edges' = Versioned(t, props), OpenEdge(t, FreshId, props) \in OpenIn(edges', t),
             pc'[t] = "loop" /\ ~findFailed'[t] => found'[t] # None
      PROVE  History(t)' /\ Carried(t)'
  <2>1. \A v \in EdgesIn(edges', t) : v \in EdgesIn(edges, t) \/ v = OpenEdge(t, FreshId, props)
    BY <1>8, EdgeEffects
  <2>2. History(t)'
    BY <1>n, <1>8 DEF History
  <2>3. ASSUME t \notin unseen
        PROVE  Carried(t)'
    <3>1. \A d \in EdgesIn(edges, t) : Carries(found[t].props, d.props)
      BY <1>a, <1>8, <2>3 DEF Carried
    <3>2. \A old : Carries(found[t].props, old) => Carries(props, old)
      BY <1>8 DEF Carries, MergedProps
    <3>3. OpenEdge(t, FreshId, props).props = props /\ Carries(props, props)
      BY DEF Carries, OpenEdge
    <3>4. \A d \in EdgesIn(edges', t) : Carries(props, d.props)
      BY <2>1, <3>1, <3>2, <3>3
    <3>5. OpenIn(edges, t) = {}
      BY <1>8, <2>3 DEF Own, Single
    <3>6. OpenIn(edges', t) = {OpenEdge(t, FreshId, props)}
      BY <1>8, <3>5, VersionedIsTheOne
    <3> QED
      BY <1>8, <3>3, <3>4, <3>6 DEF Carried
  <2>4. ASSUME t \in unseen
        PROVE  Carried(t)'
    BY <1>8, <2>4 DEF Carried
  <2> QED
    BY <2>2, <2>3, <2>4
<1>9. CASE CreateVersion(t)
  <2>1. pc[t] = "version" /\ pc'[t] = "loop" /\ findFailed' = findFailed /\ unseen' = unseen
    BY <1>9 DEF CreateVersion, TypeOK
  <2> QED
    BY <1>8, <1>9, <2>1, CreateVersionEffect
<1>10. CASE CreateVersionFails(t)
  <2>1. /\ pc[t] = "version" /\ pc'[t] = "idle" /\ unseen' = unseen
        /\ edges' = Versioned(t, MergedProps(found[t].props, Current(t).props))
    BY <1>10 DEF CreateVersionFails, CallFails, TypeOK
  <2> QED
    BY <1>8, <1>10, <2>1, CreateVersionEffect
<1>11. CASE CreateNew(t)
  <2>1. /\ Due(t) /\ pc'[t] = "loop" /\ None \in Existing(t)
        /\ edges' = Merged(t, Current(t).id, Current(t).props)
    BY <1>11 DEF CreateNew, Due, InLoop, TypeOK
  <2> QED
    BY <1>a, <2>1, MergeStarts
<1>12. CASE CreateNewFails(t)
  <2>1. /\ Due(t) /\ pc[t] = "loop" /\ pc'[t] = "idle" /\ UNCHANGED <<torn, unseen>>
        /\ None \in Existing(t)
    BY <1>12 DEF CreateNewFails, CallFails, Due, InLoop, TypeOK
  <2>2. CASE edges' = edges
    BY <2>1, <2>2, QuietHistory
  <2>3. CASE edges' = Merged(t, Current(t).id, Current(t).props)
    BY <1>a, <2>1, <2>3, MergeStarts
  <2> QED
    BY <1>12, <2>2, <2>3 DEF CreateNewFails
<1> QED
  BY <1>1, <1>2, <1>3, <1>4, <1>5, <1>6, <1>7, <1>9, <1>10, <1>11, <1>12 DEF Step
-----------------------------------------------------------------------------
(* The versions that stay, and what a successful call shows *)

StoryInv == VersionInv /\ \A t \in Transforms : Told(t) /\ History(t) /\ Carried(t)

LEMMA StoryInit == Init => StoryInv
<1> SUFFICES ASSUME Init, NEW t \in Transforms PROVE Told(t) /\ History(t) /\ Carried(t)
  BY InitInv DEF StoryInv
<1> QED
  BY DEF Init, Told, Counted, Match, Ended, History, Carried, OpenIn, EdgesIn

\* The story of a transform, when nothing of its own changes.
LEMMA SameStory ==
    ASSUME NEW u \in Transforms, Told(u), History(u), Carried(u),
           OpenIn(edges', u) = OpenIn(edges, u), EdgesIn(edges', u) = EdgesIn(edges, u),
           pc'[u] = pc[u], batch'[u] = batch[u], pos'[u] = pos[u], found'[u] = found[u],
           findFailed'[u] = findFailed[u], stored'[u] = stored[u], failed'[u] = failed[u],
           calls'[u] = calls[u], u \in torn' <=> u \in torn, u \in unseen' <=> u \in unseen
    PROVE  Told(u)' /\ History(u)' /\ Carried(u)'
<1>1. None' = None
  BY DEF None, NoProps
<1>2. \A S : CountedWith(u, S) => CountedWith(u, S)'
  BY DEF CountedWith, ShownWith, Passed, Behind
<1>3. Counted(u)'
  <2>1. CountedWith(u, {}) \/ CountedWith(u, {batch[u][1].id})
          => CountedWith(u, {})' \/ CountedWith(u, {batch[u][1].id})'
    BY <1>2 DEF CountedWith
  <2> QED
    BY <2>1 DEF Told, Counted, Current
<1>4. Match(u)' /\ Ended(u)'
  BY <1>1 DEF Told, Match, Ended
<1>5. History(u)' /\ Carried(u)'
  BY <1>1 DEF History, Carried
<1> QED
  BY <1>3, <1>4, <1>5 DEF Told

\* Another transform's step is no part of the story.
LEMMA StoryIsKept ==
    ASSUME TypeOK, NEW t \in Transforms, StartCall(t) \/ Step(t),
           NEW u \in Transforms \ {t}, Told(u), History(u), Carried(u)
    PROVE  Told(u)' /\ History(u)' /\ Carried(u)'
<1>1. /\ OpenIn(edges', u) = OpenIn(edges, u) /\ EdgesIn(edges', u) = EdgesIn(edges, u)
      /\ pc'[u] = pc[u] /\ batch'[u] = batch[u] /\ pos'[u] = pos[u]
      /\ found'[u] = found[u] /\ findFailed'[u] = findFailed[u] /\ stored'[u] = stored[u]
      /\ failed'[u] = failed[u] /\ (u \in unseen' <=> u \in unseen)
  BY StepKeepsOthers DEF Kept
<1>2. calls'[u] = calls[u] /\ (u \in torn' <=> u \in torn)
  BY DEF TypeOK, StartCall, Step, Find, FindFails, CreateFirst, CreateFirstFails, SkipStored,
         KeepExisting, CloseExisting, CloseExistingFails, CreateVersion, CreateVersionFails,
         CreateNew, CreateNewFails, EndCall
<1> QED
  BY <1>1, <1>2, SameStory

LEMMA StoryStep == StoryInv /\ [Next]_vars => StoryInv'
<1> SUFFICES ASSUME StoryInv, [Next]_vars
             PROVE  \A u \in Transforms : Told(u)' /\ History(u)' /\ Carried(u)'
  BY StepInv DEF StoryInv
<1>1. TypeOK /\ \A t \in Transforms : Own(t) /\ Told(t) /\ History(t) /\ Carried(t)
  BY DEF StoryInv, VersionInv, Own
<1>2. ASSUME NEW t \in Transforms, StartCall(t) \/ Step(t), pairs' = pairs
      PROVE  \A u \in Transforms : Told(u)' /\ History(u)' /\ Carried(u)'
  <2>1. Told(t)'
    BY <1>1, <1>2, QuietTells, CreateFirstTells, SkipStoredTells, KeepExistingTells,
       CloseExistingTells, CreateVersionTells, CreateNewTells, EndCallTells, FailureTells DEF Step
  <2>2. History(t)' /\ Carried(t)'
    BY <1>1, <1>2, HistoryStep
  <2>3. \A u \in Transforms \ {t} : Told(u)' /\ History(u)' /\ Carried(u)'
    BY <1>1, <1>2, StoryIsKept
  <2> QED
    BY <2>1, <2>2, <2>3
<1>3. CASE UNCHANGED vars \/ CopyVertex
  <2>1. UNCHANGED <<edges, pc, batch, pos, found, findFailed, stored, calls, failed, torn, unseen>>
    BY <1>3 DEF vars, callVars, CopyVertex
  <2> QED
    BY <1>1, <2>1, SameStory
<1> QED
  BY <1>2, <1>3 DEF Next

LEMMA StoryHolds == Spec => []StoryInv
BY StoryInit, StoryStep, PTL DEF Spec

\* When store_relationships reports success, an edge is open that shows what the
\* call wrote last, also after calls that broke off half way, and unless one broke
\* off between two versions, or two were open at a time, it has every property an
\* earlier version had: for any batches and repeated ids, whether edges were looked
\* up together or one by one, and however many vertices the ends have.
THEOREM SuccessShows == Spec => []SuccessIsVisible
<1>1. ASSUME StoryInv
      PROVE  SuccessIsVisible
  <2> SUFFICES ASSUME NEW t \in Transforms, pc[t] = "idle", calls[t] > 0, ~failed[t]
               PROVE  \E e \in Open(t), w \in LastWritten(batch[t]) : \A k \in Keys :
                        /\ w[k] # Absent => e.props[k] = w[k]
                        /\ (t \notin torn \cup unseen /\ \E d \in Edges(t) : d.props[k] # Absent)
                              => e.props[k] # Absent
    BY DEF SuccessIsVisible
  <2>1. Told(t) /\ Carried(t)
    BY <1>1 DEF StoryInv
  <2>2. PICK v \in OpenIn(edges, t), w \in LastWritten(batch[t]) : Shows(v, w)
    BY <2>1 DEF Told, Ended
  <2>3. PICK e \in Open(t) : v = VersionOf(e)
    BY OpenIsOpenIn
  <2>4. e.props = v.props
    BY <2>3, VersionFields
  <2>5. \A d \in Edges(t) : t \notin torn \cup unseen => Carries(e.props, d.props)
    <3>1. ASSUME NEW d \in Edges(t), t \notin torn \cup unseen
          PROVE  Carries(v.props, VersionOf(d).props)
      BY <2>1, <3>1, EdgesIsEdgesIn DEF Carried
    <3> QED
      BY <2>4, <3>1, VersionFields
  <2> QED
    BY <2>2, <2>4, <2>5 DEF Shows, Carries
<1> QED
  BY <1>1, StoryHolds, PTL

\* A closed version is never written again, unless a call of its transform stopped
\* between closing an edge and creating its successor: neither the MERGE of a first
\* version, with an id of the caller's, nor a close or a CREATE touches it.
THEOREM ClosedStay == Spec => ClosedVersionsKept
<1> DEFINE Stay == \A t \in Transforms : t \notin torn' =>
                      \A e \in Edges(t) : ~e.open => e \in edges'
<1>1. ASSUME StoryInv, [Next]_vars
      PROVE  Stay
  <2>1. TypeOK /\ \A t \in Transforms : Own(t) /\ Told(t) /\ History(t)
    BY <1>1 DEF StoryInv, VersionInv, Own
  <2>2. ASSUME NEW t \in Transforms, StartCall(t) \/ Step(t), NEW u \in Transforms, u \notin torn',
               NEW e \in Edges(u), ~e.open
        PROVE  e \in edges'
    <3>1. CASE u # t
      <4>1. {d \in edges' : d.tid = u} = {d \in edges : d.tid = u}
        BY <2>1, <2>2, <3>1, StepKeepsOthers
      <4> QED
        BY <4>1 DEF Edges
    <3>2. CASE u = t
      <4>1. e \in edges /\ VersionOf(e) \in EdgesIn(edges, t) /\ ~VersionOf(e).open /\ t \notin torn
        <5>1. t \notin torn
          BY <2>2, <3>2 DEF StartCall, Step, Find, FindFails, CreateFirst, CreateFirstFails,
             SkipStored, KeepExisting, CloseExisting, CloseExistingFails, CreateVersion,
             CreateVersionFails, CreateNew, CreateNewFails, EndCall
        <5> QED
          BY <2>2, <3>2, <5>1, EdgesIsEdgesIn, VersionFields DEF Edges
      <4>2. CASE pc[t] = "create" \/ (Due(t) /\ None \in Existing(t))
        BY <2>1, <4>1, <4>2, NothingIsClosed
      <4>3. CASE ~(pc[t] = "create" \/ (Due(t) /\ None \in Existing(t)))
        <5>1. ~CreateFirst(t) /\ ~CreateFirstFails(t) /\ ~CreateNew(t) /\ ~CreateNewFails(t)
          BY <4>3 DEF CreateFirst, CreateFirstFails, CreateNew, CreateNewFails
        <5>2. CASE CloseExisting(t) \/ CloseExistingFails(t)
          <6>1. edges' = edges \/ \E id : edges' = Closed(t, id)
            BY <5>2 DEF CloseExisting, CloseExistingFails
          <6>2. \A id : e \in Closed(t, id)
            BY <2>1, <2>2, <4>1, EdgeEffects
          <6> QED
            BY <4>1, <6>1, <6>2
        <5>3. CASE CreateVersion(t) \/ CreateVersionFails(t)
          BY <4>1, <5>3 DEF CreateVersion, CreateVersionFails, Versioned
        <5>4. CASE \/ StartCall(t) \/ Find(t) \/ FindFails(t) \/ SkipStored(t)
                   \/ KeepExisting(t) \/ EndCall(t)
          BY <4>1, <5>4 DEF StartCall, Find, FindFails, SkipStored, KeepExisting, EndCall
        <5> QED
          BY <2>2, <5>1, <5>2, <5>3, <5>4 DEF Step
      <4> QED
        BY <4>2, <4>3
    <3> QED
      BY <3>1, <3>2
  <2>3. CASE UNCHANGED vars \/ CopyVertex
    BY <2>3 DEF vars, CopyVertex, Edges
  <2> QED
    BY <1>1, <2>2, <2>3 DEF Next
<1> QED
  BY <1>1, StoryHolds, PTL DEF Spec, ClosedVersionsKept
=============================================================================
