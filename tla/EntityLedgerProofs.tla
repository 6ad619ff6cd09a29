-------------------------- MODULE EntityLedgerProofs --------------------------
(***************************************************************************)
(* Proofs about EntityLedger, for any number of transforms, keys, types    *)
(* and mentions.                                                           *)
(*                                                                         *)
(* What makes both properties inductive is what a transform carries from   *)
(* its lookup to its record: ids it has copied out of the ledger still     *)
(* name entries, and as long as nothing doubtful has happened those        *)
(* entries are roots, entries once found have not changed, and nodes that  *)
(* are recorded have the id of their entry.                                *)
(***************************************************************************)
EXTENDS EntityLedger, PairLabels, TLAPS

LEMMA TypeInit == Init => TypeOK
  BY ConstantsAssumption DEF Init, TypeOK, PCs, NoMatch

LEMMA TypesAreTypes == \A ms \in SUBSET Mentions : TypesOf(ms) \in SUBSET Types
  BY ConstantsAssumption DEF TypesOf, Types

\* A failure counts, and nothing else does.
LEMMA FaultType == TypeOK /\ (Fault \/ UNCHANGED faults) => faults' \in 0..MaxFaults
  BY ConstantsAssumption DEF Fault, TypeOK

\* What a lookup has found is a set of nodes of the transform without an entry
\* missing.
LEMMA LookupHits ==
  ASSUME TypeOK, NEW t \in Transforms, Lookup(t)
  PROVE  \/ UNCHANGED <<found, cid>>
         \/ \E hits \in SUBSET nodes[t] :
              /\ \A m \in hits : ledger[KeyOf[m]] # None
              /\ found' = [found EXCEPT ![t] = @ \cup hits]
              /\ cid' = [cid EXCEPT ![t] = [m \in Mentions |->
                     IF m \in hits THEN ledger[KeyOf[m]] ELSE @[m]]]
  <1>1. CASE UNCHANGED <<found, cid>>
    BY <1>1
  <1>2. ASSUME NEW ty \in todo[t], NEW hits,
               hits = {m \in OfType(nodes[t], ty) : ledger[KeyOf[m]] # None},
               found' = [found EXCEPT ![t] = @ \cup hits],
               cid' = [cid EXCEPT ![t] = [m \in Mentions |->
                          IF m \in hits THEN ledger[KeyOf[m]] ELSE @[m]]]
        PROVE  \E h \in SUBSET nodes[t] :
              /\ \A m \in h : ledger[KeyOf[m]] # None
              /\ found' = [found EXCEPT ![t] = @ \cup h]
              /\ cid' = [cid EXCEPT ![t] = [m \in Mentions |->
                     IF m \in h THEN ledger[KeyOf[m]] ELSE @[m]]]
    <2>1. hits \in SUBSET nodes[t] /\ \A m \in hits : ledger[KeyOf[m]] # None
      BY <1>2 DEF OfType
    <2> QED BY <1>2, <2>1
  <1> QED BY <1>1, <1>2 DEF Lookup

LEMMA TypeNext == TypeOK /\ [Next]_vars => TypeOK'
<1> SUFFICES ASSUME TypeOK, [Next]_vars PROVE TypeOK'
  OBVIOUS
<1> USE ConstantsAssumption
<1>1. ASSUME NEW t \in Transforms, Start(t) PROVE TypeOK'
  BY <1>1 DEF Start, TypeOK, PCs, NoMatch, TypesOf, Types
<1>2. ASSUME NEW t \in Transforms, Lookup(t) PROVE TypeOK'
  <2>1. \A unmatched \in SUBSET Mentions : \A tys : LookedUp(t, tys, unmatched) =>
            pc' \in [Transforms -> PCs] /\ todo' \in [Transforms -> SUBSET Types]
    <3> SUFFICES ASSUME NEW unmatched \in SUBSET Mentions, NEW tys, LookedUp(t, tys, unmatched)
                 PROVE pc' \in [Transforms -> PCs] /\ todo' \in [Transforms -> SUBSET Types]
      OBVIOUS
    <3>1. CASE todo[t] \subseteq tys
      <4>1. (IF unmatched = {} THEN "resolve" ELSE "similar") \in PCs
        BY DEF PCs
      <4>2. /\ pc' = [pc EXCEPT ![t] = IF unmatched = {} THEN "resolve" ELSE "similar"]
            /\ todo' = [todo EXCEPT ![t] = TypesOf(unmatched)]
        BY <3>1 DEF LookedUp
      <4>3. TypesOf(unmatched) \in SUBSET Types
        BY TypesAreTypes
      <4> QED BY <4>1, <4>2, <4>3 DEF TypeOK
    <3>2. CASE ~(todo[t] \subseteq tys)
      <4>1. todo[t] \ tys \in SUBSET Types
        BY DEF TypeOK
      <4> QED BY <3>2, <4>1 DEF LookedUp, TypeOK
    <3> QED BY <3>1, <3>2
  <2>2. pc' \in [Transforms -> PCs] /\ todo' \in [Transforms -> SUBSET Types]
    <3>1. \A s : Without(t, s) \in SUBSET Mentions
      BY DEF Without, TypeOK
    <3> QED BY <1>2, <2>1, <3>1 DEF Lookup, Unmatched
  <2>3. faults' \in 0..MaxFaults
    <3>1. Fault \/ UNCHANGED faults
      BY <1>2 DEF Lookup
    <3> QED BY <3>1, FaultType
  <2>4. found' \in [Transforms -> SUBSET Mentions] /\ cid' \in [Transforms -> [Mentions -> Keys]]
    <3>1. CASE UNCHANGED <<found, cid>>
      BY <3>1 DEF TypeOK
    <3>2. CASE \E hits \in SUBSET nodes[t] :
              /\ \A m \in hits : ledger[KeyOf[m]] # None
              /\ found' = [found EXCEPT ![t] = @ \cup hits]
              /\ cid' = [cid EXCEPT ![t] = [m \in Mentions |->
                     IF m \in hits THEN ledger[KeyOf[m]] ELSE @[m]]]
      <4> PICK hits \in SUBSET nodes[t] :
              /\ \A m \in hits : ledger[KeyOf[m]] # None
              /\ found' = [found EXCEPT ![t] = @ \cup hits]
              /\ cid' = [cid EXCEPT ![t] = [m \in Mentions |->
                     IF m \in hits THEN ledger[KeyOf[m]] ELSE @[m]]]
        BY <3>2
      <4>1. \A m \in Mentions : KeyOf[m] \in Keys /\ cid[t][m] \in Keys
        BY DEF TypeOK
      <4>2. \A m \in hits : ledger[KeyOf[m]] \in Keys
        BY <4>1 DEF TypeOK
      <4>3. [m \in Mentions |-> IF m \in hits THEN ledger[KeyOf[m]] ELSE cid[t][m]] \in [Mentions -> Keys]
        BY <4>1, <4>2
      <4>4. found[t] \cup hits \in SUBSET Mentions
        BY DEF TypeOK
      <4> QED BY <4>3, <4>4 DEF TypeOK
    <3> QED BY <1>2, <3>1, <3>2, LookupHits
  <2> QED BY <1>2, <2>2, <2>3, <2>4 DEF Lookup, TypeOK
<1>3. ASSUME NEW t \in Transforms, Similar(t) PROVE TypeOK'
  <2>1. pc' \in [Transforms -> PCs] /\ todo' \in [Transforms -> SUBSET Types]
    <3>1. PICK tys : ComparedTypes(t, tys)
      BY <1>3 DEF Similar
    <3>2. (IF todo[t] \subseteq tys THEN "review" ELSE pc[t]) \in PCs
      BY DEF PCs, TypeOK
    <3>3. todo[t] \ tys \in SUBSET Types
      BY DEF TypeOK
    <3> QED BY <3>1, <3>2, <3>3 DEF ComparedTypes, TypeOK
  <2>2. faults' \in 0..MaxFaults
    <3>1. Fault \/ UNCHANGED faults
      BY <1>3 DEF Similar
    <3> QED BY <3>1, FaultType
  <2>3. \A ty : \A a \in Answers(t, ty) : \A m \in DOMAIN a : a[m] \in Matches \cup {None}
    <3> SUFFICES ASSUME NEW ty, NEW a \in Answers(t, ty), NEW m \in DOMAIN a
                 PROVE a[m] \in Matches \cup {None}
      OBVIOUS
    <3>1. a[m] \in {None} \cup {[id |-> Link(k), tier |-> tier] :
              k \in {l \in Keys : TypeOf[l] = ty /\ ledger[l] # None}, tier \in {"auto", "review"}}
      BY DEF Answers
    <3>2. CASE a[m] = None
      BY <3>2
    <3>3. CASE \E k \in Keys, tier \in {"auto", "review"} :
              ledger[k] # None /\ a[m] = [id |-> ledger[k], tier |-> tier]
      BY <3>3 DEF TypeOK, Matches
    <3> QED BY <3>1, <3>2, <3>3 DEF Link
  <2>4. match' \in [Transforms -> [Mentions -> Matches \cup {None}]]
    <3>1. CASE UNCHANGED match
      BY <3>1 DEF TypeOK
    <3>2. CASE match' = [match EXCEPT ![t] = NoMatch]
      BY <3>2 DEF NoMatch, TypeOK
    <3>3. ASSUME NEW ty, NEW a \in Answers(t, ty),
                 match' = [match EXCEPT ![t] = [m \in Mentions |->
                               IF m \in DOMAIN a THEN a[m] ELSE @[m]]]
          PROVE  match' \in [Transforms -> [Mentions -> Matches \cup {None}]]
      <4>1. [m \in Mentions |-> IF m \in DOMAIN a THEN a[m] ELSE match[t][m]]
                \in [Mentions -> Matches \cup {None}]
        BY <2>3 DEF TypeOK
      <4> QED BY <3>3, <4>1 DEF TypeOK
    <3> QED BY <1>3, <3>1, <3>2, <3>3 DEF Similar
  <2> QED BY <1>3, <2>1, <2>2, <2>4 DEF Similar, TypeOK
<1>4. ASSUME NEW t \in Transforms, Review(t) PROVE TypeOK'
  <2>1. cid' \in [Transforms -> [Mentions -> Keys]]
    <3>1. \A m \in Tier(t, "auto") : match[t][m].id \in Keys
      BY DEF Tier, TypeOK, Matches
    <3>2. \A v \in Verdicts(t) : \A m \in Tier(t, "review") : v[m] # None => v[m] \in Keys
      BY DEF Verdicts
    <3> QED BY <1>4, <3>1, <3>2 DEF Review, TypeOK
  <2> QED BY <1>4, <2>1 DEF Review, TypeOK, PCs, NoMatch
<1>5. ASSUME NEW t \in Transforms, Resolve(t) PROVE TypeOK'
  BY <1>5 DEF Resolve, TypeOK, PCs, Doubts
<1>6. ASSUME NEW t \in Transforms, Record(t) PROVE TypeOK'
  <2>1. ledger' \in [Keys -> Keys \cup {None}]
    <3>1. \A ms \in SUBSET left[t] : \A w \in Writers(ms) : \A k \in DOMAIN w : cid[t][w[k]] \in Keys
      BY DEF Writers, TypeOK
    <3>2. CASE UNCHANGED ledger
      BY <3>2 DEF TypeOK
    <3>3. ASSUME NEW ms \in SUBSET left[t], Upsert(t, ms)
          PROVE  ledger' \in [Keys -> Keys \cup {None}]
      BY <3>1, <3>3 DEF Upsert, TypeOK
    <3> QED BY <1>6, <3>2, <3>3 DEF Record
  <2>2. faults' \in 0..MaxFaults
    <3>1. Fault \/ UNCHANGED faults
      BY <1>6 DEF Record
    <3> QED BY <3>1, FaultType
  <2>3. doubts' \subseteq Doubts /\ left' \in [Transforms -> SUBSET Mentions]
    <3>1. CASE doubts' = doubts \cup {"unrecorded"} /\ left' = [left EXCEPT ![t] = {}]
      BY <3>1 DEF TypeOK, Doubts
    <3>2. ASSUME NEW ms \in SUBSET left[t], left' = [left EXCEPT ![t] = @ \ ms],
                 doubts' = doubts \cup (IF Late(t, ms) THEN {"late"} ELSE {})
          PROVE  doubts' \subseteq Doubts /\ left' \in [Transforms -> SUBSET Mentions]
      <4>1. left[t] \ ms \in SUBSET Mentions
        BY DEF TypeOK
      <4> QED BY <3>2, <4>1 DEF TypeOK, Doubts
    <3> QED BY <1>6, <3>1, <3>2 DEF Record
  <2>4. UNCHANGED <<deterministic, pc, nodes, todo, found, match, cid>>
    BY <1>6 DEF Record
  <2> QED BY <2>1, <2>2, <2>3, <2>4 DEF TypeOK
<1>7. ASSUME NEW t \in Transforms, Finish(t) PROVE TypeOK'
  BY <1>7 DEF Finish, TypeOK, PCs
<1>8. ASSUME NEW t \in Transforms, Die(t) PROVE TypeOK'
  BY <1>8 DEF Die, TypeOK, PCs, NoMatch
<1>9. CASE UNCHANGED vars
  BY <1>9 DEF vars, TypeOK
<1> QED BY <1>1, <1>2, <1>3, <1>4, <1>5, <1>6, <1>7, <1>8, <1>9 DEF Next

\* The variables keep their types: in particular every id that is looked up,
\* compared, confirmed or recorded is a canonical id made from some key.
THEOREM TypeCorrect == Spec => []TypeOK
  BY TypeInit, TypeNext, PTL DEF Spec

-----------------------------------------------------------------------------
(* The inductive invariant *)

RootsExist == \A k \in Keys : ledger[k] # None => ledger[ledger[k]] # None

RootsStay == \A k \in Keys : ledger[k] # None => ledger[ledger[k]] = ledger[k]

\* Whatever has happened, a transform carries ids that name entries, and has
\* compared only what it has not found.
Kept(t) ==
    /\ \A m \in Mentions : match[t][m] # None =>
          m \notin found[t] /\ ledger[match[t][m].id] # None /\ pc[t] # "lookup"
    /\ \A m \in Mentions : cid[t][m] = KeyOf[m] \/ ledger[cid[t][m]] # None
    /\ left[t] \subseteq nodes[t]
    /\ pc[t] # "record" => left[t] = {}
    /\ pc[t] = "done" => found[t] = {}

\* Without doubts, those entries are roots, and what is found or recorded has
\* the id of its entry.
Agrees(t) ==
    /\ \A m \in Mentions : match[t][m] # None =>
          ledger[match[t][m].id] = match[t][m].id
    /\ \A m \in Mentions : cid[t][m] = KeyOf[m] \/ ledger[cid[t][m]] = cid[t][m]
    /\ \A m \in found[t] : ledger[KeyOf[m]] = cid[t][m]
    /\ pc[t] \in {"record", "done"} =>
          \A m \in nodes[t] \ left[t] : ledger[KeyOf[m]] = cid[t][m]
    /\ pc[t] = "record" => ~SameKey(nodes[t] \ found[t])

LedgerInv ==
    /\ TypeOK
    /\ RootsExist
    /\ \A t \in Transforms : Kept(t)
    /\ doubts = {} => RootsStay /\ \A t \in Transforms : Agrees(t)

\* Transform u does nothing in this step.
Rests(u) ==
    /\ pc'[u] = pc[u] /\ nodes'[u] = nodes[u] /\ found'[u] = found[u]
    /\ match'[u] = match[u] /\ cid'[u] = cid[u] /\ left'[u] = left[u]

LEMMA KeptByOthers ==
  ASSUME TypeOK, NEW u \in Transforms, Kept(u), Rests(u),
         \A k \in Keys : ledger[k] # None => ledger'[k] # None
  PROVE  Kept(u)'
  <1>1. \A m \in Mentions : match[u][m] # None => match[u][m].id \in Keys
    BY DEF TypeOK, Matches
  <1>2. \A m \in Mentions : cid[u][m] \in Keys
    BY DEF TypeOK
  <1> QED BY <1>1, <1>2 DEF Kept, Rests

LEMMA AgreesByOthers ==
  ASSUME TypeOK, NEW u \in Transforms, Agrees(u), Rests(u),
         \A k \in Keys : ledger[k] # None => ledger'[k] = ledger[k]
  PROVE  Agrees(u)'
  <1>1. \A m \in Mentions : match[u][m] # None =>
            match[u][m].id \in Keys /\ match[u][m].id # None
    BY ConstantsAssumption DEF TypeOK, Matches
  <1>2. \A m \in Mentions : cid[u][m] \in Keys /\ cid[u][m] # None /\ KeyOf[m] \in Keys
    BY ConstantsAssumption DEF TypeOK
  <1>3. found[u] \subseteq Mentions /\ nodes[u] \subseteq Mentions
    BY DEF TypeOK
  <1>4. SameKey(nodes'[u] \ found'[u]) <=> SameKey(nodes[u] \ found[u])
    BY DEF Rests, SameKey
  <1> QED BY <1>1, <1>2, <1>3, <1>4 DEF Agrees, Rests

LEMMA LedgerInvInit == Init => LedgerInv
  <1> SUFFICES ASSUME Init PROVE LedgerInv
    OBVIOUS
  <1>1. TypeOK
    BY TypeInit
  <1>2. RootsExist /\ RootsStay
    BY DEF Init, RootsExist, RootsStay
  <1>3. \A t \in Transforms : Kept(t) /\ Agrees(t)
    BY ConstantsAssumption DEF Init, Kept, Agrees, NoMatch
  <1> QED BY <1>1, <1>2, <1>3 DEF LedgerInv

\* A step of t that leaves the ledger alone: what is to be shown is about t.
LEMMA LocalStep ==
  ASSUME LedgerInv, TypeOK', NEW t \in Transforms,
         UNCHANGED ledger, doubts \subseteq doubts',
         \A u \in Transforms \ {t} : Rests(u),
         Kept(t)', doubts' = {} => Agrees(t)'
  PROVE  LedgerInv'
  <1>1. \A u \in Transforms : Kept(u)'
    BY KeptByOthers DEF LedgerInv
  <1>2. ASSUME doubts' = {} PROVE RootsStay' /\ \A u \in Transforms : Agrees(u)'
    <2>1. doubts = {}
      BY <1>2
    <2> QED BY <1>2, <2>1, AgreesByOthers DEF LedgerInv, RootsStay
  <1>3. RootsExist'
    BY DEF LedgerInv, RootsExist
  <1> QED BY <1>1, <1>2, <1>3 DEF LedgerInv

LEMMA StartKeeps == ASSUME LedgerInv, TypeOK', NEW t \in Transforms, Start(t) PROVE LedgerInv'
  <1>1. UNCHANGED <<ledger, left, doubts>> /\ \A u \in Transforms \ {t} : Rests(u)
    BY DEF Start, Rests, LedgerInv, TypeOK
  <1>2. /\ pc'[t] = "lookup" /\ found'[t] = {} /\ match'[t] = NoMatch /\ cid'[t] = KeyOf
        /\ left'[t] = {}
    BY DEF Start, LedgerInv, TypeOK, Kept
  <1>3. Kept(t)' /\ Agrees(t)'
    BY <1>2 DEF Kept, Agrees, NoMatch
  <1> QED BY <1>1, <1>3, LocalStep

LEMMA DieKeeps == ASSUME LedgerInv, TypeOK', NEW t \in Transforms, Die(t) PROVE LedgerInv'
  <1>1. UNCHANGED <<ledger, doubts>> /\ \A u \in Transforms \ {t} : Rests(u)
    BY DEF Die, Rests, LedgerInv, TypeOK
  <1>2. /\ pc'[t] = "idle" /\ found'[t] = {} /\ match'[t] = NoMatch /\ cid'[t] = KeyOf
        /\ left'[t] = {}
    BY DEF Die, LedgerInv, TypeOK
  <1>3. Kept(t)' /\ Agrees(t)'
    BY <1>2 DEF Kept, Agrees, NoMatch
  <1> QED BY <1>1, <1>3, LocalStep

LEMMA FinishKeeps == ASSUME LedgerInv, TypeOK', NEW t \in Transforms, Finish(t) PROVE LedgerInv'
  <1>1. UNCHANGED <<ledger, doubts>> /\ \A u \in Transforms \ {t} : Rests(u)
    BY DEF Finish, Rests, LedgerInv, TypeOK
  <1>2. /\ pc[t] = "record" /\ pc'[t] = "done" /\ found'[t] = {} /\ match'[t] = match[t]
        /\ nodes'[t] = nodes[t] /\ left[t] = {} /\ left'[t] = {}
        /\ cid'[t] = [m \in Mentions |-> IF m \in nodes[t] THEN cid[t][m] ELSE KeyOf[m]]
    BY DEF Finish, LedgerInv, TypeOK
  <1>3. Kept(t) /\ (doubts = {} => Agrees(t)) /\ nodes[t] \subseteq Mentions
    BY DEF LedgerInv, TypeOK
  <1>4. Kept(t)'
    BY <1>1, <1>2, <1>3 DEF Kept
  <1>5. doubts' = {} => Agrees(t)'
    BY <1>1, <1>2, <1>3 DEF Agrees
  <1> QED BY <1>1, <1>4, <1>5, LocalStep

LEMMA LookupKeeps == ASSUME LedgerInv, TypeOK', NEW t \in Transforms, Lookup(t) PROVE LedgerInv'
  <1>1. UNCHANGED <<ledger, doubts>> /\ \A u \in Transforms \ {t} : Rests(u)
    <2>1. UNCHANGED <<ledger, doubts, nodes, match, left>>
      BY DEF Lookup
    <2>2. \A u \in Transforms \ {t} : found'[u] = found[u] /\ cid'[u] = cid[u]
      <3>1. TypeOK
        BY DEF LedgerInv
      <3>2. \/ UNCHANGED <<found, cid>>
            \/ \E x, y : found' = [found EXCEPT ![t] = x] /\ cid' = [cid EXCEPT ![t] = y]
        BY <3>1, LookupHits
      <3> QED BY <3>1, <3>2 DEF TypeOK
    <2>3. \A tys, unmatched : LookedUp(t, tys, unmatched) =>
              \A u \in Transforms \ {t} : pc'[u] = pc[u]
      <3> SUFFICES ASSUME NEW tys, NEW unmatched, LookedUp(t, tys, unmatched),
                          NEW u \in Transforms \ {t}
                   PROVE  pc'[u] = pc[u]
        OBVIOUS
      <3>1. CASE todo[t] \subseteq tys
        <4>1. pc' = [pc EXCEPT ![t] = IF unmatched = {} THEN "resolve" ELSE "similar"]
          BY <3>1 DEF LookedUp
        <4> QED BY <4>1 DEF LedgerInv, TypeOK
      <3>2. CASE ~(todo[t] \subseteq tys)
        BY <3>2 DEF LookedUp
      <3> QED BY <3>1, <3>2
    <2>4. \A u \in Transforms \ {t} : pc'[u] = pc[u]
      BY <2>3 DEF Lookup
    <2> QED BY <2>1, <2>2, <2>4 DEF Rests
  <1>2. pc[t] = "lookup" /\ pc'[t] \in {"lookup", "similar", "resolve"}
    <2>1. \A tys, unmatched : LookedUp(t, tys, unmatched) /\ pc[t] = "lookup" =>
              pc'[t] \in {"lookup", "similar", "resolve"}
      BY DEF LookedUp, LedgerInv, TypeOK
    <2> QED BY <2>1 DEF Lookup
  <1>3. UNCHANGED <<match, left, nodes>>
    BY DEF Lookup
  <1>4. Kept(t) /\ (doubts = {} => Agrees(t) /\ RootsStay) /\ RootsExist /\ TypeOK
    BY DEF LedgerInv
  <1>5. \A m \in Mentions : match[t][m] = None
    BY <1>2, <1>4 DEF Kept
  <1>6. CASE UNCHANGED <<found, cid>>
    <2>1. Kept(t)' /\ (doubts' = {} => Agrees(t)')
      BY <1>1, <1>2, <1>3, <1>4, <1>5, <1>6 DEF Kept, Agrees
    <2> QED BY <1>1, <2>1, LocalStep
  <1>7. ASSUME NEW hits \in SUBSET nodes[t],
               \A m \in hits : ledger[KeyOf[m]] # None,
               found' = [found EXCEPT ![t] = @ \cup hits],
               cid' = [cid EXCEPT ![t] = [m \in Mentions |->
                          IF m \in hits THEN ledger[KeyOf[m]] ELSE @[m]]]
        PROVE  LedgerInv'
    <2>1. /\ found'[t] = found[t] \cup hits /\ hits \subseteq Mentions /\ found[t] \subseteq Mentions
          /\ \A m \in Mentions : cid'[t][m] = IF m \in hits THEN ledger[KeyOf[m]] ELSE cid[t][m]
      BY <1>4, <1>7 DEF TypeOK
    <2>2. \A m \in hits : KeyOf[m] \in Keys
      BY <2>1, ConstantsAssumption
    <2>3. Kept(t)'
      BY <1>1, <1>2, <1>3, <1>4, <1>5, <1>7, <2>1, <2>2 DEF Kept, RootsExist
    <2>4. doubts' = {} => Agrees(t)'
      BY <1>1, <1>2, <1>3, <1>4, <1>5, <1>7, <2>1, <2>2 DEF Agrees, RootsStay
    <2> QED BY <1>1, <2>3, <2>4, LocalStep
  <1> QED BY <1>4, <1>6, <1>7, LookupHits

LEMMA ReviewKeeps == ASSUME LedgerInv, TypeOK', NEW t \in Transforms, Review(t) PROVE LedgerInv'
  <1>1. UNCHANGED <<ledger, doubts, nodes, found, left>> /\ \A u \in Transforms \ {t} : Rests(u)
    BY DEF Review, Rests, LedgerInv, TypeOK
  <1>2. Kept(t) /\ (doubts = {} => Agrees(t)) /\ TypeOK
    BY DEF LedgerInv
  <1>3. /\ pc[t] = "review" /\ pc'[t] = "resolve"
        /\ \A m \in Mentions : match'[t][m] = None
    BY <1>2 DEF Review, TypeOK, NoMatch
  <1>4. \A m \in Mentions : cid'[t][m] # cid[t][m] =>
            \E n \in Mentions : match[t][n] # None /\ cid'[t][m] = match[t][n].id
                             /\ match[t][m] # None
    <2>1. PICK v \in Verdicts(t) :
              cid' = [cid EXCEPT ![t] = [m \in Mentions |->
                  IF m \in Tier(t, "auto") THEN match[t][m].id
                  ELSE IF m \in Tier(t, "review") /\ v[m] # None /\ IsLast(t, m) THEN v[m]
                  ELSE @[m]]]
      BY DEF Review
    <2>2. \A m \in Tier(t, "review") : v[m] # None =>
              \E n \in Tier(t, "review") : match[t][n].id = v[m]
      BY DEF Verdicts
    <2>3. \A tier : \A m \in Tier(t, tier) : m \in Mentions /\ match[t][m] # None
      BY DEF Tier
    <2> QED BY <1>2, <2>1, <2>2, <2>3 DEF TypeOK
  <1>5. Kept(t)'
    BY <1>1, <1>2, <1>3, <1>4 DEF Kept
  <1>6. doubts' = {} => Agrees(t)'
    <2>1. \A m \in found[t] : cid'[t][m] = cid[t][m]
      BY <1>2, <1>4 DEF Kept, TypeOK
    <2> QED BY <1>1, <1>2, <1>3, <1>4, <2>1 DEF Agrees
  <1> QED BY <1>1, <1>5, <1>6, LocalStep

LEMMA ResolveKeeps == ASSUME LedgerInv, TypeOK', NEW t \in Transforms, Resolve(t) PROVE LedgerInv'
  <1>1. UNCHANGED <<ledger, found, match, cid>> /\ \A u \in Transforms \ {t} : Rests(u)
    BY DEF Resolve, Rests, LedgerInv, TypeOK
  <1>2. Kept(t) /\ (doubts = {} => Agrees(t)) /\ TypeOK
    BY DEF LedgerInv
  <1>3. /\ pc[t] = "resolve" /\ pc'[t] = "record" /\ nodes'[t] = left'[t]
        /\ doubts \subseteq doubts'
        /\ doubts' = {} => ~SameKey(nodes'[t] \ found[t])
    <2>1. PICK ms : /\ nodes' = [nodes EXCEPT ![t] = ms]
                    /\ left' = [left EXCEPT ![t] = ms]
                    /\ doubts' = doubts \cup (IF SameKey(ms \ found[t]) THEN {"doubled"} ELSE {})
      BY DEF Resolve
    <2>2. nodes'[t] = ms /\ left'[t] = ms
      BY <1>2, <2>1 DEF TypeOK
    <2>3. CASE SameKey(ms \ found[t])
      BY <1>2, <2>1, <2>2, <2>3 DEF Resolve, TypeOK
    <2>4. CASE ~SameKey(ms \ found[t])
      BY <1>2, <2>1, <2>2, <2>4 DEF Resolve, TypeOK
    <2> QED BY <2>3, <2>4
  <1>4. Kept(t)'
    BY <1>1, <1>2, <1>3 DEF Kept
  <1>5. doubts' = {} => Agrees(t)'
    <2>1. SameKey(nodes'[t] \ found[t]) <=> SameKey(nodes'[t] \ found'[t])
      BY <1>1 DEF SameKey
    <2>2. SameKey(nodes[t] \ found[t])' <=> SameKey(nodes'[t] \ found'[t])
      BY DEF SameKey
    <2> QED BY <1>1, <1>2, <1>3, <2>1, <2>2 DEF Agrees
  <1> QED BY <1>1, <1>3, <1>4, <1>5, LocalStep

LEMMA SimilarKeeps == ASSUME LedgerInv, TypeOK', NEW t \in Transforms, Similar(t) PROVE LedgerInv'
  <1>1. UNCHANGED <<ledger, doubts, nodes, found, cid, left>>
    BY DEF Similar
  <1>2. Kept(t) /\ (doubts = {} => Agrees(t) /\ RootsStay) /\ RootsExist /\ TypeOK
    BY DEF LedgerInv
  <1>3. pc[t] = "similar" /\ pc'[t] \in {"similar", "review"}
        /\ \A u \in Transforms \ {t} : pc'[u] = pc[u]
    <2>1. PICK tys : ComparedTypes(t, tys)
      BY DEF Similar
    <2>2. \E x \in {pc[t], "review"} : pc' = [pc EXCEPT ![t] = x]
      BY <2>1 DEF ComparedTypes
    <2>3. pc[t] = "similar"
      BY DEF Similar
    <2> QED BY <1>2, <2>2, <2>3 DEF TypeOK
  <1>4. \/ UNCHANGED match
        \/ match' = [match EXCEPT ![t] = NoMatch]
        \/ \E ty \in todo[t] : \E a \in Answers(t, ty) :
              match' = [match EXCEPT ![t] = [m \in Mentions |->
                            IF m \in DOMAIN a THEN a[m] ELSE @[m]]]
    BY DEF Similar
  <1>5. \A u \in Transforms \ {t} : match'[u] = match[u]
    <2>1. UNCHANGED match \/ \E x : match' = [match EXCEPT ![t] = x]
      BY <1>4
    <2> QED BY <1>2, <2>1 DEF TypeOK
  <1>6. \A m \in Mentions : \/ match'[t][m] \in {None, match[t][m]}
                            \/ m \notin found[t] /\ \E k \in Keys : ledger[k] # None
                                                 /\ match'[t][m].id = ledger[k]
    <2>1. CASE UNCHANGED match
      BY <2>1
    <2>2. CASE match' = [match EXCEPT ![t] = NoMatch]
      BY <1>2, <2>2 DEF TypeOK, NoMatch
    <2>3. ASSUME NEW ty, NEW a \in Answers(t, ty), NEW m \in Mentions,
                 match' = [match EXCEPT ![t] = [n \in Mentions |->
                               IF n \in DOMAIN a THEN a[n] ELSE @[n]]]
          PROVE  \/ match'[t][m] \in {None, match[t][m]}
                 \/ m \notin found[t] /\ \E k \in Keys : ledger[k] # None
                                      /\ match'[t][m].id = ledger[k]
      <3>1. match'[t][m] = IF m \in DOMAIN a THEN a[m] ELSE match[t][m]
        BY <1>2, <2>3 DEF TypeOK
      <3>2. CASE m \notin DOMAIN a
        BY <3>1, <3>2
      <3>3. CASE m \in DOMAIN a
        <4>1. m \in Compared(t, ty)
          BY <3>3 DEF Answers
        <4>2. m \notin found[t]
          BY <4>1 DEF Compared, OfType, Unmatched, Without
        <4>3. a[m] \in {None} \cup {[id |-> Link(k), tier |-> tier] :
                  k \in {l \in Keys : TypeOf[l] = ty /\ ledger[l] # None}, tier \in {"auto", "review"}}
          BY <3>3 DEF Answers
        <4>4. a[m] = None \/ \E k \in Keys : ledger[k] # None /\ a[m].id = ledger[k]
          BY <4>3 DEF Link
        <4> QED BY <3>1, <3>3, <4>2, <4>4
      <3> QED BY <3>2, <3>3
    <2> QED BY <1>4, <2>1, <2>2, <2>3
  <1>7. Kept(t)'
    BY <1>1, <1>2, <1>3, <1>6 DEF Kept, RootsExist
  <1>8. doubts' = {} => Agrees(t)'
    BY <1>1, <1>2, <1>3, <1>6 DEF Agrees, RootsStay
  <1>9. \A u \in Transforms \ {t} : Rests(u)
    BY <1>1, <1>3, <1>5 DEF Rests
  <1> QED BY <1>1, <1>7, <1>8, <1>9, LocalStep

\* A statement of record_nodes removes no entry; without doubts it changes none,
\* and gives a new one the id of a root.
LEMMA RecordKeeps == ASSUME LedgerInv, TypeOK', NEW t \in Transforms, Record(t) PROVE LedgerInv'
  <1>1. UNCHANGED <<pc, nodes, found, match, cid>> /\ pc[t] = "record"
    BY DEF Record
  <1>2. RootsExist /\ Kept(t) /\ (doubts = {} => Agrees(t) /\ RootsStay) /\ TypeOK
    BY DEF LedgerInv
  <1>3. CASE /\ left' = [left EXCEPT ![t] = {}]
             /\ doubts' = doubts \cup {"unrecorded"}
             /\ UNCHANGED ledger
    <2>1. left'[t] = {} /\ doubts' # {} /\ \A u \in Transforms \ {t} : Rests(u)
      BY <1>1, <1>2, <1>3 DEF TypeOK, Rests
    <2>2. Kept(t)'
      BY <1>1, <1>2, <1>3, <2>1 DEF Kept
    <2> QED BY <1>3, <2>1, <2>2, LocalStep
  <1>4. ASSUME NEW ms \in SUBSET left[t], Upsert(t, ms),
               left' = [left EXCEPT ![t] = @ \ ms],
               doubts' = doubts \cup (IF Late(t, ms) THEN {"late"} ELSE {})
        PROVE  LedgerInv'
    <2>1. PICK w \in Writers(ms) :
              ledger' = [k \in Keys |-> IF k \in DOMAIN w THEN cid[t][w[k]] ELSE ledger[k]]
      BY <1>4 DEF Upsert
    <2>2. /\ \A k \in DOMAIN w : w[k] \in ms /\ KeyOf[w[k]] = k
          /\ \A m \in ms : KeyOf[m] \in DOMAIN w
      BY DEF Writers
    <2>3. ms \subseteq nodes[t] /\ ms \subseteq Mentions
      BY <1>2 DEF Kept, TypeOK
    <2>4. \A k \in Keys : ledger'[k] = IF k \in DOMAIN w THEN cid[t][w[k]] ELSE ledger[k]
      BY <2>1
    <2>5. \A m \in ms : cid[t][m] \in Keys /\ cid[t][m] # None /\ KeyOf[m] \in Keys
      BY <1>2, <2>3, ConstantsAssumption DEF TypeOK
    <2>6. \A k \in Keys : ledger[k] # None => ledger'[k] # None
      BY <2>2, <2>4, <2>5
    <2>7. left'[t] = left[t] \ ms /\ \A u \in Transforms \ {t} : Rests(u)
      BY <1>1, <1>2, <1>4 DEF TypeOK, Rests
    <2>8. RootsExist'
      <3>1. \A k \in Keys : ledger[k] # None => ledger[k] \in Keys
        BY <1>2 DEF TypeOK
      <3>2. \A m \in ms : cid[t][m] = KeyOf[m] \/ ledger'[cid[t][m]] # None
        BY <1>2, <2>3, <2>5, <2>6 DEF Kept
      <3> QED BY <1>2, <2>2, <2>4, <2>5, <2>6, <3>1, <3>2 DEF RootsExist
    <2>9. \A u \in Transforms : Kept(u)'
      <3>1. left'[t] \subseteq nodes[t]
        BY <1>2, <2>7 DEF Kept
      <3>2. \A m \in Mentions : match[t][m] # None => match[t][m].id \in Keys
        BY <1>2 DEF TypeOK, Matches
      <3>3. \A m \in Mentions : cid[t][m] \in Keys
        BY <1>2 DEF TypeOK
      <3>4. Kept(t)'
        BY <1>1, <1>2, <2>6, <3>1, <3>2, <3>3 DEF Kept
      <3> QED BY <2>6, <2>7, <3>4, KeptByOthers DEF LedgerInv
    <2>10. ASSUME doubts' = {} PROVE RootsStay' /\ \A u \in Transforms : Agrees(u)'
      <3>1. doubts = {} /\ ~Late(t, ms)
        BY <1>4, <2>10
      <3>2. Agrees(t) /\ RootsStay
        BY <1>2, <3>1
      <3>3. \A m \in ms : ledger[KeyOf[m]] # None => m \in found[t]
        BY <3>1 DEF Late
      <3>4. \A k \in Keys : ledger[k] # None => ledger'[k] = ledger[k]
        BY <2>2, <2>4, <3>2, <3>3 DEF Agrees
      <3>5. RootsStay'
        <4>1. \A k \in Keys : ledger[k] # None => ledger[k] \in Keys /\ ledger[k] # None
          BY <1>2 DEF TypeOK
        <4>2. \A m \in ms : cid[t][m] = KeyOf[m] \/ ledger[cid[t][m]] = cid[t][m]
          BY <2>3, <3>2 DEF Agrees
        <4>3. \A m \in ms : cid[t][m] = KeyOf[m] \/ ledger'[cid[t][m]] = cid[t][m]
          BY <2>5, <3>4, <4>2
        <4> QED BY <2>2, <2>4, <2>5, <3>2, <3>4, <4>1, <4>3 DEF RootsStay
      <3>6. \A m \in ms : ledger'[KeyOf[m]] = cid[t][m]
        <4> SUFFICES ASSUME NEW m \in ms PROVE ledger'[KeyOf[m]] = cid[t][m]
          OBVIOUS
        <4> DEFINE n == w[KeyOf[m]]
        <4>1. n \in ms /\ KeyOf[n] = KeyOf[m] /\ ledger'[KeyOf[m]] = cid[t][n]
          BY <2>2, <2>4, <2>5
        <4>2. CASE n = m
          BY <4>1, <4>2
        <4>3. CASE m \in found[t] \/ n \in found[t]
          <5>1. ledger[KeyOf[m]] # None
            BY <2>5, <3>2, <4>1, <4>3 DEF Agrees
          <5>2. m \in found[t] /\ n \in found[t]
            BY <3>3, <4>1, <5>1
          <5> QED BY <3>2, <4>1, <5>2 DEF Agrees
        <4>4. CASE n # m /\ m \notin found[t] /\ n \notin found[t]
          BY <1>1, <2>3, <3>2, <4>1, <4>4 DEF Agrees, SameKey
        <4> QED BY <4>2, <4>3, <4>4
      <3>7. \A m \in nodes[t] \ left'[t] : ledger'[KeyOf[m]] = cid[t][m]
        <4>1. \A m \in nodes[t] \ left[t] : ledger[KeyOf[m]] = cid[t][m]
          BY <1>1, <3>2 DEF Agrees
        <4>2. \A m \in Mentions : cid[t][m] # None /\ KeyOf[m] \in Keys
          BY <1>2, ConstantsAssumption DEF TypeOK
        <4>3. nodes[t] \subseteq Mentions
          BY <1>2 DEF TypeOK
        <4> QED BY <2>7, <3>4, <3>6, <4>1, <4>2, <4>3
      <3>8. Agrees(t)'
        <4>1. \A m \in Mentions : match[t][m] # None =>
                  match[t][m].id \in Keys /\ match[t][m].id # None
          BY <1>2, ConstantsAssumption DEF TypeOK, Matches
        <4>2. \A m \in Mentions : cid[t][m] \in Keys /\ cid[t][m] # None /\ KeyOf[m] \in Keys
          BY <1>2, ConstantsAssumption DEF TypeOK
        <4>3. found[t] \subseteq Mentions
          BY <1>2 DEF TypeOK
        <4>4. SameKey(nodes[t] \ found[t])' <=> SameKey(nodes[t] \ found[t])
          BY <1>1 DEF SameKey
        <4> QED BY <1>1, <3>2, <3>4, <3>7, <4>1, <4>2, <4>3, <4>4 DEF Agrees
      <3> QED BY <2>7, <3>1, <3>4, <3>5, <3>8, AgreesByOthers DEF LedgerInv
    <2> QED BY <2>8, <2>9, <2>10 DEF LedgerInv
  <1> QED BY <1>3, <1>4 DEF Record

LEMMA LedgerInvNext == LedgerInv /\ [Next]_vars => LedgerInv'
  <1> SUFFICES ASSUME LedgerInv, [Next]_vars PROVE LedgerInv'
    OBVIOUS
  <1>1. TypeOK'
    BY TypeNext DEF LedgerInv
  <1>2. CASE Next
    BY <1>1, <1>2, StartKeeps, LookupKeeps, SimilarKeeps, ReviewKeeps, ResolveKeeps,
       RecordKeeps, FinishKeeps, DieKeeps DEF Next
  <1>3. CASE UNCHANGED vars
    BY <1>3 DEF vars, LedgerInv, TypeOK, RootsExist, RootsStay, Kept, Agrees, SameKey
  <1> QED BY <1>2, <1>3

LEMMA LedgerInvHolds == Spec => []LedgerInv
  BY LedgerInvInit, LedgerInvNext, PTL DEF Spec

\* However many transforms of a user overlap, whatever is similar to what and
\* wherever they die: the graphs that are finished give one key one canonical
\* id, unless an entry appeared between a lookup and its record, a record
\* failed or entity resolution left a new key on two nodes.
THEOREM OneIdCorrect == Spec => []OneIdPerEntity
  <1>1. LedgerInv => OneIdPerEntity
    <2> SUFFICES ASSUME LedgerInv, doubts = {}, NEW t \in Transforms, NEW u \in Transforms,
                        pc[t] = "done", pc[u] = "done",
                        NEW m \in nodes[t], NEW n \in nodes[u], KeyOf[m] = KeyOf[n]
                 PROVE  cid[t][m] = cid[u][n]
      BY DEF OneIdPerEntity
    <2>1. left[t] = {} /\ left[u] = {}
      BY DEF LedgerInv, Kept
    <2>2. ledger[KeyOf[m]] = cid[t][m] /\ ledger[KeyOf[n]] = cid[u][n]
      BY <2>1 DEF LedgerInv, Agrees
    <2> QED BY <2>2
  <1> QED BY <1>1, LedgerInvHolds, PTL

\* Every canonical id names a key that has an entry, and without doubts that
\* entry carries the id itself: links are never chained.
THEOREM RootsCorrect == Spec => []IdsNameRoots
  <1>1. LedgerInv => IdsNameRoots
    BY DEF LedgerInv, RootsExist, RootsStay, IdsNameRoots
  <1> QED BY <1>1, LedgerInvHolds, PTL

-----------------------------------------------------------------------------
(***************************************************************************)
(* The labels of disputed pairs, for any pairs, entity types, requests and *)
(* scores.                                                                 *)
(***************************************************************************)

(* The scores *)

LEMMA ContributionType == ASSUME NEW s PROVE Contribution(s) \in {-1, 0, 1}
BY DEF Contribution

LEMMA DeltaType == ASSUME NEW s, NEW t PROVE Delta(s, t) \in Int
BY ContributionType DEF Delta

LEMMA ClampedType == ASSUME NEW x \in Int PROVE Clamped(x) \in Floor..One
BY ScoresAssumption DEF Clamped

\* A label moves the average inside the clamp.
LEMMA ShiftedType ==
    ASSUME LabelsTypeOK, NEW t \in EntityTypes, NEW d \in Int
    PROVE  Shifted(t, d) \in Floor..One
<1> DEFINE from == IF ema[t] = Unseen THEN One ELSE ema[t]
<1>1. from \in Int
  BY ScoresAssumption DEF LabelsTypeOK
<1>2. d * Nudge \in Int
  BY ScoresAssumption
<1>3. from + d * Nudge \in Int
  BY <1>1, <1>2
<1> QED
  BY <1>3, ClampedType DEF Shifted

LEMMA ThresholdType ==
    ASSUME LabelsTypeOK, NEW t \in EntityTypes
    PROVE  Threshold(t) \in Floor..One
<1>1. CASE ema[t] = Unseen \/ ema[t] >= Default - Margin
  BY <1>1, ScoresAssumption DEF Threshold
<1>2. CASE ~(ema[t] = Unseen \/ ema[t] >= Default - Margin)
  <2>1. ema[t] - Margin \in Int
    BY <1>2, ScoresAssumption DEF LabelsTypeOK
  <2> QED
    BY <1>2, <2>1, ClampedType DEF Threshold
<1> QED
  BY <1>1, <1>2

\* A deduplication keeps scores at or above the threshold only, so that the
\* average, which no clamp guards here, stays at or above the floor.
LEMMA AveragedType ==
    ASSUME LabelsTypeOK, NEW t \in EntityTypes, NEW s \in Scores, s >= Threshold(t)
    PROVE  Averaged(t, s) \in Floor..One
<1>1. s \in Floor..One
  BY ThresholdType, ScoresAssumption
<1>2. CASE ema[t] = Unseen
  BY <1>1, <1>2 DEF Averaged
<1>3. CASE ema[t] # Unseen
  <2>1. ema[t] \in Floor..One
    BY <1>3 DEF LabelsTypeOK
  <2>2. (7 * ema[t] + 3 * s) \div 10 \in Floor..One
    BY <1>1, <2>1, ScoresAssumption
  <2> QED
    BY <1>3, <2>2 DEF Averaged
<1> QED
  BY <1>2, <1>3

-----------------------------------------------------------------------------
(* EntityTypes *)

LEMMA LabelsTypeInit == LabelsInit => LabelsTypeOK
BY EntityTypesAssumption DEF LabelsInit, LabelsTypeOK, Statuses, LabelPCs

LEMMA LabelsTypeNext == LabelsTypeOK /\ [LabelsNext]_labelVars => LabelsTypeOK'
<1> SUFFICES ASSUME LabelsTypeOK, [LabelsNext]_labelVars
             PROVE  LabelsTypeOK'
  OBVIOUS
<1> USE DEF LabelsTypeOK, LabelPCs, Statuses
<1>1. ASSUME NEW p \in Pairs, Enqueue(p)
      PROVE  LabelsTypeOK'
  BY <1>1 DEF Enqueue, request
<1>2. ASSUME NEW r \in Requests, NEW p \in Pairs, NEW l \in Labels, Submit(r, p, l)
      PROVE  LabelsTypeOK'
  BY <1>2 DEF Submit, Labels
<1>3. ASSUME NEW r \in Requests, Acquire(r)
      PROVE  LabelsTypeOK'
  BY <1>3 DEF Acquire
<1>4. ASSUME NEW r \in Requests, Commit(r)
      PROVE  LabelsTypeOK'
  BY <1>4 DEF Commit
<1>5. ASSUME NEW r \in Requests, NotFound(r) \/ StatementFails(r)
      PROVE  LabelsTypeOK'
  BY <1>5 DEF NotFound, StatementFails, Answered
<1>6. ASSUME NEW r \in Requests, Hook(r)
      PROVE  LabelsTypeOK'
  <2>1. pair[r] \in Pairs /\ EntityTypeOf[pair[r]] \in EntityTypes /\ Owed(r) \in Int
    BY <1>6, EntityTypesAssumption, DeltaType DEF Hook, Owed
  <2>2. ema' \in [EntityTypes -> (Floor..One) \cup {Unseen}]
    BY <1>6, <2>1, ShiftedType DEF Hook
  <2>3. nudged' \in [Pairs -> Int]
    BY <1>6, <2>1 DEF Hook
  <2> QED
    BY <1>6, <2>1, <2>2, <2>3 DEF Hook, Answered
<1>7. ASSUME NEW r \in Requests, HookMissed(r)
      PROVE  LabelsTypeOK'
  BY <1>7 DEF HookMissed, Answered
<1>8. ASSUME NEW t \in EntityTypes, NEW s \in Scores, Deduplicate(t, s)
      PROVE  LabelsTypeOK'
  <2>1. ema' \in [EntityTypes -> (Floor..One) \cup {Unseen}]
    BY <1>8, AveragedType DEF Deduplicate
  <2> QED
    BY <1>8, <2>1 DEF Deduplicate, request
<1>9. CASE Restart
  BY <1>9 DEF Restart
<1>10. CASE UNCHANGED labelVars
  BY <1>10 DEF labelVars, request
<1> QED
  BY <1>1, <1>2, <1>3, <1>4, <1>5, <1>6, <1>7, <1>8, <1>9, <1>10
     DEF LabelsNext, Proceeds, Fails

\* The variables keep their types; the part that is not plain is that the
\* average of every entity type stays between the floor and 1.0 although a
\* deduplication moves it without a clamp.
THEOREM LabelsTypeCorrect == LabelsSpec => []LabelsTypeOK
BY LabelsTypeInit, LabelsTypeNext, PTL DEF LabelsSpec

-----------------------------------------------------------------------------
(* What a label counts *)

\* One request at a time is past the lock of a pair.
OneHolder ==
    \A r, s \in Requests : Holds(r) /\ Holds(s) /\ pair[r] = pair[s] => r = s

\* A request carries a decision, and its pair has it from commit to hook.
CommittedStands ==
    \A r \in Requests :
        /\ stage[r] # "free" => label[r] \in Labels
        /\ stage[r] = "committed" => status[pair[r]] = label[r]

\* The labels of p whose hook ran add up to the contribution of the status the
\* pair had before the label in flight, and of its status if there is none.
Counted ==
    \A p \in Pairs \ adrift :
        /\ InFlight(p) = {} => nudged[p] = Contribution(status[p])
        /\ \A r \in InFlight(p) : nudged[p] = Contribution(old[r])

CountInv == LabelsTypeOK /\ OneHolder /\ CommittedStands /\ Counted

LEMMA CountInit == LabelsInit => CountInv
<1> SUFFICES ASSUME LabelsInit PROVE CountInv
  OBVIOUS
<1>1. LabelsTypeOK
  BY LabelsTypeInit
<1>2. OneHolder /\ CommittedStands
  BY DEF LabelsInit, OneHolder, CommittedStands, Holds
<1>3. Counted
  BY DEF LabelsInit, Counted, InFlight, Contribution
<1> QED
  BY <1>1, <1>2, <1>3 DEF CountInv

LEMMA CountNext == CountInv /\ [LabelsNext]_labelVars => CountInv'
<1> SUFFICES ASSUME CountInv, [LabelsNext]_labelVars
             PROVE  OneHolder' /\ CommittedStands' /\ Counted'
  BY LabelsTypeNext DEF CountInv
<1> USE DEF CountInv
<1>1. ASSUME NEW p \in Pairs, Enqueue(p)
      PROVE  OneHolder' /\ CommittedStands' /\ Counted'
  <2>1. OneHolder'
    BY <1>1 DEF Enqueue, request, OneHolder, Holds
  <2>2. \A r \in InFlight(p) : FALSE
    BY <1>1 DEF Enqueue, InFlight, CommittedStands, Labels
  <2>3. CommittedStands'
    BY <1>1, <2>2 DEF Enqueue, request, CommittedStands, InFlight, LabelsTypeOK
  <2>4. Contribution("absent") = Contribution("pending")
    BY DEF Contribution
  <2>5. Counted'
    BY <1>1, <2>2, <2>4 DEF Enqueue, request, Counted, InFlight, LabelsTypeOK
  <2> QED
    BY <2>1, <2>3, <2>5
<1>2. ASSUME NEW r \in Requests, NEW p \in Pairs, NEW l \in Labels, Submit(r, p, l)
      PROVE  OneHolder' /\ CommittedStands' /\ Counted'
  <2>1. \A s \in Requests : stage'[s] = "committed" <=> stage[s] = "committed"
    BY <1>2 DEF Submit, LabelsTypeOK
  <2>2. \A s \in Requests : stage[s] = "committed" => pair'[s] = pair[s]
    BY <1>2 DEF Submit, LabelsTypeOK
  <2>3. \A q \in Pairs : InFlight(q)' = InFlight(q)
    BY <2>1, <2>2 DEF InFlight
  <2>4. OneHolder'
    BY <1>2 DEF Submit, OneHolder, Holds, LabelsTypeOK
  <2>5. CommittedStands'
    BY <1>2 DEF Submit, CommittedStands, LabelsTypeOK
  <2>6. Counted'
    BY <1>2, <2>3 DEF Submit, Counted
  <2> QED
    BY <2>4, <2>5, <2>6
<1>3. ASSUME NEW r \in Requests, Acquire(r)
      PROVE  OneHolder' /\ CommittedStands' /\ Counted'
  <2>1. \A q \in Pairs : InFlight(q)' = InFlight(q)
    BY <1>3 DEF Acquire, InFlight, LabelsTypeOK
  <2>2. OneHolder'
    BY <1>3 DEF Acquire, OneHolder, Holds, LabelsTypeOK
  <2>3. CommittedStands'
    BY <1>3 DEF Acquire, CommittedStands, LabelsTypeOK
  <2>4. Counted'
    BY <1>3, <2>1 DEF Acquire, Counted
  <2> QED
    BY <2>2, <2>3, <2>4
<1>4. ASSUME NEW r \in Requests, Commit(r)
      PROVE  OneHolder' /\ CommittedStands' /\ Counted'
  <2>1. pair[r] \in Pairs /\ label[r] \in Labels
    BY <1>4 DEF Commit, LabelsTypeOK, CommittedStands
  <2>2. InFlight(pair[r]) = {} /\ InFlight(pair[r])' = {r}
    BY <1>4 DEF Commit, InFlight, OneHolder, Holds, LabelsTypeOK
  <2>3. \A q \in Pairs \ {pair[r]} : InFlight(q)' = InFlight(q)
    BY <1>4 DEF Commit, InFlight, LabelsTypeOK
  <2>4. OneHolder'
    BY <1>4 DEF Commit, OneHolder, Holds, LabelsTypeOK
  <2>5. CommittedStands'
    <3>1. \A s \in Requests \ {r} : stage[s] = "committed" => pair[s] # pair[r]
      BY <2>2 DEF InFlight
    <3> QED
      BY <1>4, <2>1, <3>1 DEF Commit, CommittedStands, LabelsTypeOK
  <2>6. Counted'
    <3> SUFFICES ASSUME NEW q \in Pairs \ adrift
                 PROVE  /\ InFlight(q)' = {} => nudged[q] = Contribution(status'[q])
                        /\ \A s \in InFlight(q)' : nudged[q] = Contribution(old'[s])
      BY <1>4 DEF Counted, Commit
    <3>1. CASE q = pair[r]
      BY <1>4, <2>2, <3>1 DEF Counted, Commit, LabelsTypeOK
    <3>2. CASE q # pair[r]
      BY <1>4, <2>1, <2>3, <3>2 DEF Counted, Commit, InFlight, LabelsTypeOK
    <3> QED
      BY <3>1, <3>2
  <2> QED
    BY <2>4, <2>5, <2>6
<1>5. ASSUME NEW r \in Requests, NotFound(r) \/ StatementFails(r)
      PROVE  OneHolder' /\ CommittedStands' /\ Counted'
  <2>1. \A q \in Pairs : InFlight(q)' = InFlight(q)
    BY <1>5 DEF NotFound, StatementFails, Answered, InFlight, LabelsTypeOK
  <2>2. OneHolder'
    BY <1>5 DEF NotFound, StatementFails, Answered, OneHolder, Holds, LabelsTypeOK
  <2>3. CommittedStands'
    BY <1>5 DEF NotFound, StatementFails, Answered, CommittedStands, LabelsTypeOK
  <2>4. \A q \in Pairs : \A s \in InFlight(q) : old'[s] = old[s]
    BY <1>5 DEF NotFound, StatementFails, Answered, InFlight, LabelsTypeOK
  <2>5. Counted'
    BY <1>5, <2>1, <2>4 DEF NotFound, StatementFails, Counted
  <2> QED
    BY <2>2, <2>3, <2>5
<1>6. ASSUME NEW r \in Requests, Hook(r) \/ HookMissed(r)
      PROVE  OneHolder' /\ CommittedStands' /\ Counted'
  <2>0. PICK p \in Pairs : p = pair[r]
    BY <1>6 DEF Hook, HookMissed, LabelsTypeOK
  <2>1. p = pair[r] /\ stage[r] = "committed" /\ status[p] = label[r] /\ Answered(r)
    BY <1>6, <2>0 DEF Hook, HookMissed, LabelsTypeOK, CommittedStands
  <2>2. InFlight(p) = {r} /\ InFlight(p)' = {}
    <3>1. \A s \in Requests : stage[s] = "committed" /\ pair[s] = p => s = r
      BY <2>1 DEF OneHolder, Holds
    <3>2. \A s \in Requests : stage'[s] = "committed" => s # r /\ stage[s] = "committed" /\ pair'[s] = pair[s]
      BY <2>1 DEF Answered, LabelsTypeOK
    <3>3. r \in InFlight(p) /\ (\A s \in InFlight(p) : s = r)
      BY <2>1, <3>1 DEF InFlight
    <3>4. \A s \in Requests : ~(stage'[s] = "committed" /\ pair'[s] = p)
      BY <3>1, <3>2
    <3>5. InFlight(p)' = {s \in Requests : stage'[s] = "committed" /\ pair'[s] = p}
      BY DEF InFlight
    <3> QED
      BY <3>3, <3>4, <3>5
  <2>3. \A q \in Pairs \ {p} : InFlight(q)' = InFlight(q)
    BY <2>1 DEF Answered, InFlight, LabelsTypeOK
  <2>4. \A q \in Pairs \ {p} : \A s \in InFlight(q) : old'[s] = old[s]
    BY <2>1 DEF Answered, InFlight, LabelsTypeOK
  <2>5. status' = status
    BY <1>6 DEF Hook, HookMissed
  <2>6. \A q \in Pairs \ {p} : nudged'[q] = nudged[q] /\ (q \in adrift' <=> q \in adrift)
    BY <1>6, <2>1 DEF Hook, HookMissed, LabelsTypeOK
  <2>7. p \notin adrift' => nudged'[p] = Contribution(status[p])
    <3> SUFFICES ASSUME p \notin adrift'
                 PROVE  nudged'[p] = Contribution(status[p])
      OBVIOUS
    <3>1. p \notin adrift
      BY <1>6 DEF Hook, HookMissed
    <3>2. nudged[p] = Contribution(old[r])
      BY <2>1, <2>2, <3>1 DEF Counted
    <3>3. Contribution(old[r]) \in Int /\ Contribution(label[r]) \in Int
      BY ContributionType
    <3>4. nudged'[p] = nudged[p] + Owed(r)
      <4>1. CASE Hook(r)
        BY <2>1, <3>1, <4>1 DEF Hook, LabelsTypeOK
      <4>2. CASE HookMissed(r)
        BY <4>2, <2>1, <3>2, <3>3 DEF HookMissed, LabelsTypeOK
      <4> QED
        BY <1>6, <4>1, <4>2
    <3> QED
      BY <2>1, <3>2, <3>3, <3>4 DEF Owed, Delta
  <2>8. OneHolder'
    BY <2>1 DEF Answered, OneHolder, Holds, LabelsTypeOK
  <2>9. CommittedStands'
    BY <2>1, <2>5 DEF Answered, CommittedStands, LabelsTypeOK
  <2>10. Counted'
    <3> SUFFICES ASSUME NEW q \in Pairs \ adrift'
                 PROVE  /\ InFlight(q)' = {} => nudged'[q] = Contribution(status'[q])
                        /\ \A s \in InFlight(q)' : nudged'[q] = Contribution(old'[s])
      BY DEF Counted
    <3>1. CASE q = p
      <4>1. nudged'[q] = Contribution(status[q])
        BY <2>7, <3>1
      <4>2. InFlight(q)' = {}
        BY <2>2, <3>1
      <4> QED
        BY <2>5, <4>1, <4>2
    <3>2. CASE q # p
      BY <2>3, <2>4, <2>5, <2>6, <3>2 DEF Counted
    <3> QED
      BY <3>1, <3>2
  <2> QED
    BY <2>8, <2>9, <2>10
<1>7. ASSUME NEW t \in EntityTypes, NEW s \in Scores, Deduplicate(t, s)
      PROVE  OneHolder' /\ CommittedStands' /\ Counted'
  BY <1>7 DEF Deduplicate, request, OneHolder, Holds, CommittedStands, Counted, InFlight
<1>8. CASE Restart
  <2>1. OneHolder' /\ CommittedStands'
    BY <1>8 DEF Restart, OneHolder, CommittedStands, Holds
  <2>2. \A q \in Pairs : InFlight(q)' = {}
    BY <1>8 DEF Restart, InFlight
  <2>3. \A q \in Pairs \ adrift' : nudged'[q] = Contribution(status'[q])
    BY <1>8 DEF Restart
  <2>4. Counted'
    BY <2>2, <2>3 DEF Counted
  <2> QED
    BY <2>1, <2>4
<1>9. CASE UNCHANGED labelVars
  BY <1>9 DEF labelVars, request, OneHolder, Holds, CommittedStands, Counted, InFlight
<1> QED
  BY <1>1, <1>2, <1>3, <1>4, <1>5, <1>6, <1>7, <1>8, <1>9 DEF LabelsNext, Proceeds, Fails

LEMMA CountImplies == CountInv => LabelsCountOnce
BY DEF CountInv, Counted, LabelsCountOnce

\* A label moves the threshold of its type once, for any number of pairs and of
\* concurrent, repeated and failing label requests: the lock of the pair keeps
\* at most one label between its commit and its hook, and the hook then adds
\* exactly the difference between the two statuses.
THEOREM LabelsCount == LabelsSpec => []LabelsCountOnce
BY CountInit, CountNext, CountImplies, PTL DEF LabelsSpec
=============================================================================
