----------------------------- MODULE EntityLedger -----------------------------
(***************************************************************************)
(* The entity ledger: which canonical id the nodes of a user's transforms  *)
(* get.  A transform first looks the keys of its nodes up (hydrate_nodes,  *)
(* one statement per entity type); nodes without an entry are compared to  *)
(* the embedded entries of their type, and take over the canonical id of   *)
(* a similar one at once or after the model has confirmed it; then entity  *)
(* resolution merges nodes of the transform, and record_nodes writes the   *)
(* keys of those that are left.  Transforms of one user run concurrently,  *)
(* and nothing is locked between the lookup and the record.                *)
(*                                                                         *)
(* A canonical id is uuid5 of the key it was first made from: it is that   *)
(* key here.  How similar two texts are is any outcome, so is whether an   *)
(* entry has an embedding to compare with.  With cross-document linking    *)
(* switched off, nothing is similar; without a database, the ledger is a   *)
(* dictionary and no statement fails.                                      *)
(***************************************************************************)
EXTENDS Integers, FiniteSets

CONSTANTS
    Transforms,    \* transforms of one user, each runs again and again
    Keys,          \* canonical keys
    Mentions,      \* nodes an extraction may yield, numbered in its order
    KeyOf,         \* mention -> its canonical key
    TypeOf,        \* key -> entity type
    Chunk,         \* entries per statement of record_nodes (50)
    Documents,     \* bound: the sets of mentions that are extracted together
    Modes,         \* subset of BOOLEAN: settings of DETERMINISTIC_MODE
    MaxFaults,     \* bound: failing statements and embeddings
    None           \* no entry, no match

Types == {TypeOf[k] : k \in Keys}
Matches == [id : Keys, tier : {"auto", "review"}]

ASSUME ConstantsAssumption ==
    /\ Mentions \subseteq Nat /\ IsFiniteSet(Mentions)
    /\ KeyOf \in [Mentions -> Keys]
    /\ TypeOf \in [Keys -> Types]
    /\ Chunk \in Nat \ {0} /\ Documents \subseteq (SUBSET Mentions) \ {{}}
    /\ Modes \subseteq BOOLEAN /\ MaxFaults \in Nat
    /\ None \notin Keys \cup Matches

VARIABLES
    deterministic,  \* nodes of one key and transform have one node id
    ledger,         \* key -> canonical id of its entry
    pc,             \* transform -> where it stands
    nodes,          \* transform -> its nodes; once it is done, those of its graph
    todo,           \* transform -> entity types still to look up, or to compare
    found,          \* transform -> nodes whose key had an entry
    match,          \* transform -> node -> the similar entry
    cid,            \* transform -> node -> canonical id
    left,           \* transform -> nodes still to record
    faults,         \* failures so far
    doubts          \* history: what has happened that may give a key two ids

vars == <<deterministic, ledger, pc, nodes, todo, found, match, cid, left, faults, doubts>>

PCs == {"idle", "lookup", "similar", "review", "resolve", "record", "done"}
Doubts == {"late", "unrecorded", "doubled"}

TypeOK ==
    /\ deterministic \in BOOLEAN
    /\ ledger \in [Keys -> Keys \cup {None}]
    /\ pc \in [Transforms -> PCs]
    /\ nodes \in [Transforms -> SUBSET Mentions]
    /\ todo \in [Transforms -> SUBSET Types]
    /\ found \in [Transforms -> SUBSET Mentions]
    /\ match \in [Transforms -> [Mentions -> Matches \cup {None}]]
    /\ cid \in [Transforms -> [Mentions -> Keys]]
    /\ left \in [Transforms -> SUBSET Mentions]
    /\ faults \in 0..MaxFaults
    /\ doubts \subseteq Doubts

NoMatch == [m \in Mentions |-> None]

Init ==
    /\ deterministic \in Modes
    /\ ledger = [k \in Keys |-> None]
    /\ pc = [t \in Transforms |-> "idle"]
    /\ nodes = [t \in Transforms |-> {}]
    /\ todo = [t \in Transforms |-> {}]
    /\ found = [t \in Transforms |-> {}]
    /\ match = [t \in Transforms |-> NoMatch]
    /\ cid = [t \in Transforms |-> KeyOf]
    /\ left = [t \in Transforms |-> {}]
    /\ faults = 0 /\ doubts = {}

TypesOf(ms) == {TypeOf[KeyOf[m]] : m \in ms}
OfType(ms, ty) == {m \in ms : TypeOf[KeyOf[m]] = ty}

\* MUTATION of Without: Stage 2 is run for all nodes.
AllOf(t, known) == nodes[t]

\* The nodes of t that Stage 1 leaves when it finds those.
Without(t, known) == nodes[t] \ known

Unmatched(t) == Without(t, found[t])

\* Nodes that carry the node id of m.
Twins(m) == IF deterministic THEN {n \in Mentions : KeyOf[n] = KeyOf[m]} ELSE {m}

Fault == faults < MaxFaults /\ faults' = faults + 1

-----------------------------------------------------------------------------
(* hydrate_nodes *)

\* The extraction of a document is over: every node has the id of its own key.
Start(t) ==
    /\ pc[t] \in {"idle", "done"}
    /\ \E ms \in Documents :
          /\ nodes' = [nodes EXCEPT ![t] = ms]
          /\ todo' = [todo EXCEPT ![t] = TypesOf(ms)]
    /\ pc' = [pc EXCEPT ![t] = "lookup"]
    /\ found' = [found EXCEPT ![t] = {}]
    /\ match' = [match EXCEPT ![t] = NoMatch]
    /\ cid' = [cid EXCEPT ![t] = KeyOf]
    /\ UNCHANGED <<deterministic, ledger, left, faults, doubts>>

\* The types tys are looked up; after the last one, the types of what is
\* unmatched are compared.
LookedUp(t, tys, unmatched) ==
    IF todo[t] \subseteq tys
    THEN /\ pc' = [pc EXCEPT ![t] = IF unmatched = {} THEN "resolve" ELSE "similar"]
         /\ todo' = [todo EXCEPT ![t] = TypesOf(unmatched)]
    ELSE todo' = [todo EXCEPT ![t] = @ \ tys] /\ UNCHANGED pc

\* Stage 1, one statement per type; one that fails ends the lookup, which
\* keeps what it has found.
Lookup(t) ==
    /\ pc[t] = "lookup"
    /\ \/ \E ty \in todo[t] :
             LET hits == {m \in OfType(nodes[t], ty) : ledger[KeyOf[m]] # None} IN
             /\ found' = [found EXCEPT ![t] = @ \cup hits]
             /\ cid' = [cid EXCEPT ![t] = [m \in Mentions |->
                    IF m \in hits THEN ledger[KeyOf[m]] ELSE @[m]]]
             /\ LookedUp(t, {ty}, Without(t, found[t] \cup hits))
             /\ UNCHANGED faults
       \/ Fault /\ LookedUp(t, Types, Unmatched(t)) /\ UNCHANGED <<found, cid>>
    /\ UNCHANGED <<deterministic, ledger, nodes, match, left, doubts>>

Compared(t, ty) == OfType(Unmatched(t), ty)

\* MUTATION of Link: the node is linked to the key of the entry, not to its id.
LinkToKey(k) == k

Link(k) == ledger[k]

\* What a comparison may answer: no entry, or the best one of the type, kept
\* under the node id.
Answers(t, ty) ==
    {a \in [Compared(t, ty) ->
              {None} \cup {[id |-> Link(k), tier |-> tier] :
                  k \in {l \in Keys : TypeOf[l] = ty /\ ledger[l] # None},
                  tier \in {"auto", "review"}}] :
        \A m \in DOMAIN a : \A n \in Twins(m) \cap DOMAIN a : a[n] = a[m]}

ComparedTypes(t, tys) ==
    /\ todo' = [todo EXCEPT ![t] = @ \ tys]
    /\ pc' = [pc EXCEPT ![t] = IF todo[t] \subseteq tys THEN "review" ELSE @]

\* Stage 2: a failing fetch leaves out its type, failing embeddings all types.
Similar(t) ==
    /\ pc[t] = "similar"
    /\ \E ty \in todo[t] :
          \/ /\ \E a \in Answers(t, ty) :
                   match' = [match EXCEPT ![t] = [m \in Mentions |->
                       IF m \in DOMAIN a THEN a[m] ELSE @[m]]]
             /\ ComparedTypes(t, {ty})
             /\ UNCHANGED faults
          \/ Fault /\ ComparedTypes(t, {ty}) /\ UNCHANGED match
          \/ /\ Fault
             /\ match' = [match EXCEPT ![t] = NoMatch]
             /\ ComparedTypes(t, Types)
    /\ UNCHANGED <<deterministic, ledger, nodes, found, cid, left, doubts>>

Tier(t, tier) == {m \in Mentions : match[t][m] # None /\ match[t][m].tier = tier}

\* The model is shown, per type, the nodes and the entries to review, and
\* groups a node with one of the entries or with none; a call that fails or is
\* too large groups nothing.
Verdicts(t) ==
    {v \in [Tier(t, "review") -> Keys \cup {None}] :
        \A m \in DOMAIN v :
            /\ v[m] # None => \E n \in DOMAIN v :
                  TypeOf[KeyOf[n]] = TypeOf[KeyOf[m]] /\ match[t][n].id = v[m]
            /\ \A n \in Twins(m) \cap DOMAIN v : v[n] = v[m]}

\* Of several nodes with one node id, nodes_by_id holds the last.
IsLast(t, m) == \A n \in Twins(m) \cap Unmatched(t) : n <= m

Review(t) ==
    /\ pc[t] = "review"
    /\ \E v \in Verdicts(t) :
          cid' = [cid EXCEPT ![t] = [m \in Mentions |->
              IF m \in Tier(t, "auto") THEN match[t][m].id
              ELSE IF m \in Tier(t, "review") /\ v[m] # None /\ IsLast(t, m) THEN v[m]
              ELSE @[m]]]
    /\ pc' = [pc EXCEPT ![t] = "resolve"]
    /\ match' = [match EXCEPT ![t] = NoMatch]
    /\ UNCHANGED <<deterministic, ledger, nodes, todo, found, left, faults, doubts>>

-----------------------------------------------------------------------------
(* Entity resolution and record_nodes *)

SameKey(ms) == \E m, n \in ms : m # n /\ KeyOf[m] = KeyOf[n]

\* Any nodes may be merged into any other ones, which keep their key and id;
\* nodes with one node id always are, into the first.
Resolve(t) ==
    /\ pc[t] = "resolve"
    /\ \E ms \in (SUBSET nodes[t]) \ {{}} :
          /\ \A m \in ms : \A n \in Twins(m) \cap nodes[t] : m <= n
          /\ nodes' = [nodes EXCEPT ![t] = ms]
          /\ left' = [left EXCEPT ![t] = ms]
          /\ doubts' = doubts \cup (IF SameKey(ms \ found[t]) THEN {"doubled"} ELSE {})
    /\ pc' = [pc EXCEPT ![t] = "record"]
    /\ UNCHANGED <<deterministic, ledger, todo, found, match, cid, faults>>

\* ON CONFLICT DO UPDATE: of several nodes of one key the last wins, any of them.
Writers(ms) == {w \in [{KeyOf[m] : m \in ms} -> ms] : \A k \in DOMAIN w : KeyOf[w[k]] = k}

Upsert(t, ms) ==
    \E w \in Writers(ms) :
        ledger' = [k \in Keys |-> IF k \in DOMAIN w THEN cid[t][w[k]] ELSE ledger[k]]

\* An entry is written over that the lookup had not found: another transform
\* has been faster, or the lookup failed.
Late(t, ms) == \E m \in ms \ found[t] : ledger[KeyOf[m]] # None

\* One statement, for the next chunk of the nodes.
Record(t) ==
    /\ pc[t] = "record" /\ left[t] # {}
    /\ \/ \E ms \in SUBSET left[t] :
             /\ ms = left[t] \/ Cardinality(ms) = Chunk
             /\ Cardinality(ms) \in 1..Chunk
             /\ Upsert(t, ms)
             /\ left' = [left EXCEPT ![t] = @ \ ms]
             /\ doubts' = doubts \cup (IF Late(t, ms) THEN {"late"} ELSE {})
             /\ UNCHANGED faults
       \/ /\ Fault
          /\ left' = [left EXCEPT ![t] = {}]
          /\ doubts' = doubts \cup {"unrecorded"}
          /\ UNCHANGED ledger
    /\ UNCHANGED <<deterministic, pc, nodes, todo, found, match, cid>>

Finish(t) ==
    /\ pc[t] = "record" /\ left[t] = {}
    /\ pc' = [pc EXCEPT ![t] = "done"]
    /\ cid' = [cid EXCEPT ![t] = [m \in Mentions |-> IF m \in nodes[t] THEN @[m] ELSE KeyOf[m]]]
    /\ found' = [found EXCEPT ![t] = {}]
    /\ UNCHANGED <<deterministic, ledger, nodes, todo, match, left, faults, doubts>>

\* The transform fails, is cancelled or dies with its process: no graph is left.
Die(t) ==
    /\ pc[t] \notin {"idle", "done"}
    /\ pc' = [pc EXCEPT ![t] = "idle"]
    /\ nodes' = [nodes EXCEPT ![t] = {}]
    /\ todo' = [todo EXCEPT ![t] = {}]
    /\ found' = [found EXCEPT ![t] = {}]
    /\ match' = [match EXCEPT ![t] = NoMatch]
    /\ cid' = [cid EXCEPT ![t] = KeyOf]
    /\ left' = [left EXCEPT ![t] = {}]
    /\ UNCHANGED <<deterministic, ledger, faults, doubts>>

Next == \E t \in Transforms :
    \/ Start(t) \/ Lookup(t) \/ Similar(t) \/ Review(t)
    \/ Resolve(t) \/ Record(t) \/ Finish(t) \/ Die(t)

Spec == Init /\ [][Next]_vars

-----------------------------------------------------------------------------
(* Properties *)

\* The nodes that finished transforms have for one key have one canonical id,
\* however the transforms overlapped and whatever was similar to what, unless
\* an entry appeared between a lookup and the record (or the lookup failed),
\* a record failed, or entity resolution left a new key on two nodes.
OneIdPerEntity ==
    doubts = {} => \A t, u \in Transforms :
        pc[t] = "done" /\ pc[u] = "done" =>
            \A m \in nodes[t], n \in nodes[u] : KeyOf[m] = KeyOf[n] => cid[t][m] = cid[u][n]

\* A canonical id always names a key that has an entry, and linking never makes
\* chains: that entry carries the same id.
IdsNameRoots ==
    \A k \in Keys : ledger[k] # None =>
        /\ ledger[ledger[k]] # None
        /\ doubts = {} => ledger[ledger[k]] = ledger[k]
=============================================================================
