-------------------------- MODULE SchemaCacheProofs --------------------------
(***************************************************************************)
(* Proofs about SchemaCache, for any number of users, workers, requests,   *)
(* versions and failures.                                                  *)
(*                                                                         *)
(* A stale entry of the owner is on its way out: as long as nothing raced  *)
(* or failed, one exists only while the request that made it stale has not *)
(* finished its invalidation (on the only worker that writes, not even the *)
(* first half of it).  What other users are shown is public wherever it    *)
(* is: in a cache, or still in the hands of a request.                     *)
(***************************************************************************)
EXTENDS SchemaCache, TLAPS

-----------------------------------------------------------------------------
(* What a step does to the record of its request *)

\* Request r is now at pc and holds value, for the worker and user given.
Now(r, pc, w, u, value) ==
    /\ req' \in [Requests -> Request]
    /\ req'[r].pc = pc /\ req'[r].worker = w /\ req'[r].user = u /\ req'[r].value = value
    /\ \A q \in Requests \ {r} : req'[q] = req[q]

LEMMA GotoNow ==
  ASSUME TypeOK, NEW r \in Requests, NEW pc \in PCs, Goto(r, pc)
  PROVE  Now(r, pc, req[r].worker, req[r].user, req[r].value)
  BY DEF Goto, Now, TypeOK, Request

LEMMA HoldingNow ==
  ASSUME TypeOK, NEW r \in Requests, NEW pc \in PCs, NEW value \in Row \cup {None},
         Holding(r, pc, value)
  PROVE  Now(r, pc, req[r].worker, req[r].user, value)
  BY DEF Holding, Now, TypeOK, Request

LEMMA AnswerNow ==
  ASSUME TypeOK, NEW r \in Requests, Answer(r)
  PROVE  Now(r, "free", None, None, None)
  BY DEF Answer, Free, Now, TypeOK, Request, PCs

LEMMA AtNow ==
  ASSUME TypeOK, NEW r \in Requests, NEW pc \in PCs, NEW w \in Workers, NEW u \in Users,
         req' = [req EXCEPT ![r] = At(pc, w, u)]
  PROVE  Now(r, pc, w, u, None)
  BY DEF At, Now, TypeOK, Request

LEMMA FaultType == TypeOK /\ (Fault \/ UNCHANGED faults) => faults' \in 0..MaxFaults
  BY ConstantsAssumption DEF Fault, TypeOK

-----------------------------------------------------------------------------
(* The inductive invariant *)

\* A request under way knows its worker and user, a write is the owner's, and
\* what is held for another user is public.
Served(r) ==
    /\ req[r].pc # "free" => req[r].worker \in Workers /\ req[r].user \in Users
    /\ req[r].pc \in {"fill", "cache", "publish"} => req[r].value # None
    /\ req[r].pc \in {"update", "invalidate", "unpublish"} => req[r].user = Owner
    /\ req[r].pc \in {"invalidate", "unpublish"} => req[r].worker \in writers
    /\ req[r].pc \in {"fetch", "fill", "publish", "unpublish"} => shared
    /\ req[r].user # Owner /\ req[r].value # None => req[r].value.public

OthersPublic ==
    \A u \in Users \ {Owner} :
        /\ redis[u] # None => redis[u].public
        /\ \A w \in Workers : memory[w][u] # None => memory[w][u].public

NoRedis == ~shared => \A u \in Users : redis[u] = None

\* What makes an entry of the owner stale is about to remove it.
OnItsWayOut ==
    (~raced /\ faults = 0) =>
        /\ Stale(redis[Owner]) => Invalidating
        /\ \A w \in Workers : writers \subseteq {w} /\ Stale(memory[w][Owner]) =>
              \E r \in Requests : req[r].pc = "invalidate"

CacheInv ==
    /\ TypeOK
    /\ \A r \in Requests : Served(r)
    /\ OthersPublic /\ NoRedis /\ OnItsWayOut

LEMMA CacheInvInit == Init => CacheInv
  <1> SUFFICES ASSUME Init PROVE CacheInv
    OBVIOUS
  <1>1. TypeOK
    <2>1. Free \in Request
      BY DEF Free, Request, PCs
    <2>2. latest \in 1..MaxVersion /\ faults \in 0..MaxFaults /\ shared \in BOOLEAN
      BY ConstantsAssumption DEF Init
    <2> QED BY <2>1, <2>2 DEF Init, TypeOK
  <1>2. \A r \in Requests : Served(r)
    BY DEF Init, Served, Free
  <1>3. OthersPublic /\ NoRedis
    BY DEF Init, OthersPublic, NoRedis
  <1>4. OnItsWayOut
    BY ConstantsAssumption DEF Init, OnItsWayOut, Stale
  <1> QED BY <1>1, <1>2, <1>3, <1>4 DEF CacheInv

\* A step that leaves the row and the caches alone keeps CacheInv if it leaves
\* the request served and under way where it was invalidating.
LEMMA QuietStep ==
  ASSUME CacheInv, NEW r \in Requests, NEW pc, NEW w, NEW u, NEW value,
         Now(r, pc, w, u, value), Served(r)',
         req[r].pc \notin {"invalidate", "unpublish"},
         UNCHANGED <<shared, row, latest, memory, redis, raced, writers>>,
         Fault \/ UNCHANGED faults
  PROVE  CacheInv'
  <1>1. TypeOK /\ \A q \in Requests : Served(q)
    BY DEF CacheInv
  <1>2. TypeOK'
    BY <1>1, FaultType DEF TypeOK, Now
  <1>3. \A q \in Requests : Served(q)'
    BY <1>1 DEF Served, Now
  <1>4. OthersPublic' /\ NoRedis'
    BY DEF CacheInv, OthersPublic, NoRedis
  <1>5. OnItsWayOut'
    <2> SUFFICES ASSUME ~raced', faults' = 0
                 PROVE  /\ Stale(redis[Owner])' => Invalidating'
                        /\ \A v \in Workers : writers' \subseteq {v} /\ Stale(memory[v][Owner])' =>
                              \E q \in Requests : req'[q].pc = "invalidate"
      BY DEF OnItsWayOut
    <2>1. faults = 0
      BY <1>1, ConstantsAssumption DEF Fault, TypeOK
    <2>2. \A q \in Requests : req[q].pc \in {"invalidate", "unpublish"} => req'[q] = req[q]
      BY DEF Now
    <2> QED BY <2>1, <2>2 DEF CacheInv, OnItsWayOut, Stale, Invalidating
  <1> QED BY <1>2, <1>3, <1>4, <1>5 DEF CacheInv

\* A quiet step of a request: reading on, or beginning to write.
QuietAct(r) ==
    \/ \E w \in Workers : Write(r, w) \/ \E u \in Users : Get(r, w, u)
    \/ Fetch(r) \/ Select(r)

LEMMA QuietActs ==
  ASSUME CacheInv, NEW r \in Requests, QuietAct(r)
  PROVE  CacheInv'
  <1>0. TypeOK /\ Served(r) /\ OthersPublic /\ NoRedis
    BY DEF CacheInv
  <1>1. ASSUME NEW w \in Workers, Write(r, w)
        PROVE  CacheInv'
    <2>1. Now(r, "update", w, Owner, None)
      BY <1>0, <1>1, AtNow, ConstantsAssumption DEF Write, PCs
    <2>2. Served(r)'
      BY <2>1, ConstantsAssumption DEF Served, Now
    <2> QED BY <1>1, <2>1, <2>2, QuietStep DEF Write
  <1>2. ASSUME NEW w \in Workers, NEW u \in Users, Get(r, w, u)
        PROVE  CacheInv'
    <2>1. CASE memory[w][u] # None
      <3>1. Now(r, "free", None, None, None)
        BY <1>0, <1>2, <2>1, AnswerNow DEF Get, Answer
      <3>2. Served(r)'
        BY <3>1 DEF Served, Now
      <3> QED BY <1>2, <3>1, <3>2, QuietStep DEF Get
    <2>2. CASE memory[w][u] = None
      <3> DEFINE pc == IF shared THEN "fetch" ELSE "select"
      <3>1. Now(r, pc, w, u, None)
        <4>1. pc \in PCs
          BY DEF PCs
        <4>2. req' = [req EXCEPT ![r] = At(pc, w, u)]
          BY <1>2, <2>2 DEF Get
        <4> HIDE DEF pc
        <4> QED BY <1>0, <4>1, <4>2, AtNow
      <3>2. Served(r)'
        BY <1>2, <3>1 DEF Served, Now, Get
      <3> HIDE DEF pc
      <3> QED BY <1>2, <3>1, <3>2, QuietStep DEF Get
    <2> QED BY <2>1, <2>2
  <1>3. ASSUME Fetch(r)
        PROVE  CacheInv'
    <2>1. req[r].user \in Users /\ req[r].worker \in Workers /\ shared
      BY <1>0, <1>3 DEF Served, Fetch
    <2>2. CASE Goto(r, "select")
      <3>1. Now(r, "select", req[r].worker, req[r].user, req[r].value)
        BY <1>0, <2>2, GotoNow DEF PCs
      <3>2. Served(r)'
        BY <1>0, <2>1, <3>1 DEF Served, Now
      <3> QED BY <1>3, <3>1, <3>2, QuietStep DEF Fetch
    <2>3. CASE redis[req[r].user] # None /\ Holding(r, "fill", redis[req[r].user])
      <3> DEFINE u == req[r].user
      <3>1. Now(r, "fill", req[r].worker, u, redis[u])
        BY <1>0, <2>1, <2>3, HoldingNow DEF PCs, TypeOK
      <3>2. Served(r)'
        BY <1>0, <1>3, <2>1, <2>3, <3>1 DEF Served, Now, OthersPublic, Fetch
      <3> QED BY <1>3, <3>1, <3>2, QuietStep DEF Fetch
    <2> QED BY <1>3, <2>2, <2>3 DEF Fetch
  <1>4. ASSUME Select(r)
        PROVE  CacheInv'
    <2>1. req[r].user \in Users /\ req[r].worker \in Workers
      BY <1>0, <1>4 DEF Served, Select
    <2>2. CASE Answer(r)
      <3>1. Now(r, "free", None, None, None)
        BY <1>0, <2>2, AnswerNow
      <3>2. Served(r)'
        BY <3>1 DEF Served, Now
      <3> QED BY <1>4, <3>1, <3>2, QuietStep DEF Select
    <2>3. CASE Visible(req[r].user) /\ Validates /\ Holding(r, "cache", row)
      <3>1. Now(r, "cache", req[r].worker, req[r].user, row)
        BY <1>0, <2>3, HoldingNow DEF PCs, TypeOK
      <3>2. Served(r)'
        BY <2>1, <2>3, <3>1 DEF Served, Now, Visible
      <3> QED BY <1>4, <3>1, <3>2, QuietStep DEF Select
    <2> QED BY <1>4, <2>2, <2>3 DEF Select
  <1> QED BY <1>1, <1>2, <1>3, <1>4 DEF QuietAct

-----------------------------------------------------------------------------
(* The steps that touch the row or a cache *)

\* While faults is still 0 after a step, no call failed in it.
LEMMA NoFault == TypeOK /\ Fault => faults' # 0
  BY ConstantsAssumption DEF Fault, TypeOK

\* What a request holds goes into an entry of memory.
LEMMA PutKeeps ==
  ASSUME CacheInv, NEW r \in Requests, req[r].pc \in {"fill", "cache"}, PutInMemory(r),
         NEW pc, NEW w, NEW u, NEW value, Now(r, pc, w, u, value), Served(r)',
         UNCHANGED <<shared, row, latest, redis, faults, writers>>
  PROVE  CacheInv'
  <1> DEFINE wr == req[r].worker
             ur == req[r].user
             v == req[r].value
  <1>1. TypeOK /\ (\A q \in Requests : Served(q)) /\ OthersPublic /\ NoRedis /\ OnItsWayOut
    BY DEF CacheInv
  <1>2. wr \in Workers /\ ur \in Users /\ v \in Row
    BY <1>1 DEF Served, TypeOK, Request
  <1>3. memory' = [memory EXCEPT ![wr][ur] = v] /\ raced' = (raced \/ v # row)
    BY DEF PutInMemory
  <1>4. \A w1 \in Workers, u1 \in Users :
           memory'[w1][u1] = IF w1 = wr /\ u1 = ur THEN v ELSE memory[w1][u1]
    BY <1>1, <1>2, <1>3 DEF TypeOK
  <1>5. TypeOK'
    <2>1. memory' \in [Workers -> [Users -> Row \cup {None}]]
      BY <1>1, <1>2, <1>3 DEF TypeOK
    <2>2. raced' \in BOOLEAN
      BY <1>3, <1>1 DEF TypeOK
    <2> QED BY <1>1, <2>1, <2>2 DEF TypeOK, Now
  <1>6. \A q \in Requests : Served(q)'
    BY <1>1 DEF Served, Now
  <1>7. ur # Owner => v.public
    BY <1>1, <1>2, ConstantsAssumption DEF Served
  <1>8. OthersPublic'
    <2> HIDE DEF v, wr, ur
    <2> QED BY <1>1, <1>4, <1>7 DEF OthersPublic
  <1>9. NoRedis'
    BY <1>1 DEF NoRedis
  <1>10. OnItsWayOut'
    <2> SUFFICES ASSUME ~raced', faults' = 0
                 PROVE  /\ Stale(redis[Owner])' => Invalidating'
                        /\ \A x \in Workers : writers' \subseteq {x} /\ Stale(memory[x][Owner])' =>
                              \E q \in Requests : req'[q].pc = "invalidate"
      BY DEF OnItsWayOut
    <2>1. ~raced /\ faults = 0 /\ v = row
      BY <1>3
    <2>2. \A q \in Requests : req[q].pc \in {"invalidate", "unpublish"} => req'[q] = req[q]
      BY DEF Now
    <2>3. Stale(redis[Owner])' => Invalidating'
      BY <1>1, <2>1, <2>2 DEF OnItsWayOut, Stale, Invalidating
    <2>4. ASSUME NEW x \in Workers, writers' \subseteq {x}, Stale(memory[x][Owner])'
          PROVE  \E q \in Requests : req'[q].pc = "invalidate"
      <3> HIDE DEF v, wr, ur
      <3>1. Stale(memory[x][Owner])
        BY <1>4, <2>1, <2>4, ConstantsAssumption DEF Stale
      <3>2. PICK q \in Requests : req[q].pc = "invalidate"
        BY <1>1, <2>1, <2>4, <3>1 DEF OnItsWayOut
      <3> QED BY <2>2, <3>2
    <2> QED BY <2>3, <2>4
  <1> QED BY <1>5, <1>6, <1>8, <1>9, <1>10 DEF CacheInv

LEMMA FillKeeps ==
  ASSUME CacheInv, NEW r \in Requests, Fill(r)
  PROVE  CacheInv'
  <1>1. Now(r, "free", None, None, None)
    BY AnswerNow DEF CacheInv, Fill
  <1>2. Served(r)'
    BY <1>1 DEF Served, Now
  <1> QED BY <1>1, <1>2, PutKeeps DEF Fill

LEMMA CacheKeeps ==
  ASSUME CacheInv, NEW r \in Requests, Cache(r)
  PROVE  CacheInv'
  <1>0. TypeOK /\ Served(r)
    BY DEF CacheInv
  <1>1. CASE shared
    <2>1. Now(r, "publish", req[r].worker, req[r].user, req[r].value)
      BY <1>0, <1>1, GotoNow DEF Cache, PCs
    <2>2. Served(r)'
      BY <1>0, <1>1, <2>1 DEF Served, Now, Cache
    <2> QED BY <2>1, <2>2, PutKeeps DEF Cache
  <1>2. CASE ~shared
    <2>1. Now(r, "free", None, None, None)
      BY <1>0, <1>2, AnswerNow DEF Cache
    <2>2. Served(r)'
      BY <2>1 DEF Served, Now
    <2> QED BY <2>1, <2>2, PutKeeps DEF Cache
  <1> QED BY <1>1, <1>2

LEMMA PublishKeeps ==
  ASSUME CacheInv, NEW r \in Requests, Publish(r)
  PROVE  CacheInv'
  <1> DEFINE u == req[r].user
             v == req[r].value
  <1>1. TypeOK /\ (\A q \in Requests : Served(q)) /\ OthersPublic /\ NoRedis /\ OnItsWayOut
    BY DEF CacheInv
  <1>2. u \in Users /\ v \in Row /\ shared
    BY <1>1 DEF Served, TypeOK, Request, Publish
  <1>3. Now(r, "free", None, None, None)
    BY <1>1, AnswerNow DEF Publish
  <1>4. Served(r)'
    BY <1>3 DEF Served, Now
  <1>5. CASE redis' = [redis EXCEPT ![u] = v] /\ raced' = (raced \/ v # row) /\ UNCHANGED faults
    <2>1. \A u1 \in Users : redis'[u1] = IF u1 = u THEN v ELSE redis[u1]
      BY <1>1, <1>2, <1>5 DEF TypeOK
    <2>2. TypeOK'
      <3>1. redis' \in [Users -> Row \cup {None}] /\ raced' \in BOOLEAN
        BY <1>1, <1>2, <1>5 DEF TypeOK
      <3> QED BY <1>1, <1>3, <1>5, <3>1 DEF TypeOK, Now, Publish
    <2>3. \A q \in Requests : Served(q)'
      BY <1>1, <1>3, <1>4 DEF Served, Now, Publish
    <2>4. u # Owner => v.public
      BY <1>1, <1>2, ConstantsAssumption DEF Served
    <2>5. OthersPublic'
      <3>1. UNCHANGED memory
        BY DEF Publish
      <3> HIDE DEF u, v
      <3> QED BY <1>1, <2>1, <2>4, <3>1 DEF OthersPublic
    <2>6. NoRedis'
      BY <1>2 DEF NoRedis, Publish
    <2>7. OnItsWayOut'
      <3> SUFFICES ASSUME ~raced', faults' = 0
                   PROVE  /\ Stale(redis[Owner])' => Invalidating'
                          /\ \A x \in Workers : writers' \subseteq {x} /\ Stale(memory[x][Owner])' =>
                                \E q \in Requests : req'[q].pc = "invalidate"
        BY DEF OnItsWayOut
      <3>1. ~raced /\ faults = 0 /\ v = row
        BY <1>5
      <3>2. UNCHANGED <<row, memory, writers>>
        BY DEF Publish
      <3>3. \A q \in Requests : req[q].pc \in {"invalidate", "unpublish"} => req'[q] = req[q]
        BY <1>3 DEF Now, Publish
      <3> HIDE DEF u, v
      <3>4. Stale(redis[Owner])' => Stale(redis[Owner])
        BY <2>1, <3>1, <3>2, ConstantsAssumption DEF Stale
      <3>5. Stale(redis[Owner])' => Invalidating'
        BY <1>1, <3>1, <3>3, <3>4 DEF OnItsWayOut, Invalidating
      <3> QED BY <1>1, <3>1, <3>2, <3>3, <3>5 DEF OnItsWayOut, Stale
    <2> QED BY <2>2, <2>3, <2>5, <2>6, <2>7 DEF CacheInv
  <1>6. CASE Fault /\ UNCHANGED <<redis, raced>>
    BY <1>3, <1>4, <1>6, QuietStep DEF Publish
  <1> QED BY <1>5, <1>6 DEF Publish

LEMMA UpdateKeeps ==
  ASSUME CacheInv, NEW r \in Requests, Update(r)
  PROVE  CacheInv'
  <1>1. TypeOK /\ (\A q \in Requests : Served(q)) /\ OthersPublic /\ NoRedis /\ OnItsWayOut
    BY DEF CacheInv
  <1>2. req[r].worker \in Workers /\ req[r].user = Owner
    BY <1>1 DEF Served, Update
  <1>3. CASE Answer(r)
    <2>1. Now(r, "free", None, None, None)
      BY <1>1, <1>3, AnswerNow
    <2>2. Served(r)'
      BY <2>1 DEF Served, Now
    <2>3. CASE Goto(r, "invalidate")
      BY <1>1, <2>1, <2>3, GotoNow DEF Now, PCs
    <2> QED BY <2>1, <2>2, <2>3, QuietStep DEF Update
  <1>4. CASE /\ latest < MaxVersion /\ row' \in NextRows /\ latest' = latest + 1
             /\ writers' = writers \cup {req[r].worker}
             /\ Goto(r, "invalidate") /\ UNCHANGED faults
    <2>1. Now(r, "invalidate", req[r].worker, Owner, req[r].value)
      BY <1>1, <1>2, <1>4, GotoNow DEF PCs
    <2>2. TypeOK'
      <3>1. latest' \in 1..MaxVersion
        BY <1>1, <1>4, ConstantsAssumption DEF TypeOK
      <3>2. row' \in Row \cup {None}
        BY <1>1, <1>4, <3>1 DEF NextRows, Row, TypeOK
      <3> QED BY <1>1, <1>2, <1>4, <2>1, <3>1, <3>2 DEF TypeOK, Now, Update
    <2>3. \A q \in Requests : Served(q)'
      <3>1. Served(r)'
        BY <1>1, <1>2, <1>4, <2>1, ConstantsAssumption DEF Served, Now
      <3>2. UNCHANGED shared
        BY DEF Update
      <3> QED BY <1>1, <1>4, <2>1, <3>1, <3>2 DEF Served, Now
    <2>4. OthersPublic' /\ NoRedis'
      BY <1>1 DEF OthersPublic, NoRedis, Update
    <2>5. OnItsWayOut'
      BY <2>1 DEF OnItsWayOut, Invalidating, Now
    <2> QED BY <2>2, <2>3, <2>4, <2>5 DEF CacheInv
  <1> QED BY <1>3, <1>4 DEF Update

\* The request is the last that invalidates in the memory of its worker, or
\* the entry of another worker was stale before and is for others to remove.
LEMMA InvalidateKeeps ==
  ASSUME CacheInv, NEW r \in Requests, Invalidate(r)
  PROVE  CacheInv'
  <1> DEFINE w == req[r].worker
  <1>1. TypeOK /\ (\A q \in Requests : Served(q)) /\ OthersPublic /\ NoRedis /\ OnItsWayOut
    BY DEF CacheInv
  <1>2. w \in Workers /\ req[r].user = Owner /\ w \in writers /\ Owner \in Users
    BY <1>1, ConstantsAssumption DEF Served, Invalidate
  <1>3. PICK pc \in PCs, x \in Workers \cup {None}, u \in Users \cup {None},
                value \in Row \cup {None} :
           /\ Now(r, pc, x, u, value) /\ Served(r)'
           /\ shared => pc = "unpublish"
    <2>1. CASE shared
      <3>1. Now(r, "unpublish", w, Owner, req[r].value)
        BY <1>1, <1>2, <2>1, GotoNow DEF Invalidate, PCs
      <3>2. Served(r)'
        BY <1>1, <1>2, <2>1, <3>1 DEF Served, Now, Invalidate
      <3>3. req[r].value \in Row \cup {None}
        BY <1>1 DEF TypeOK, Request
      <3> QED BY <1>2, <3>1, <3>2, <3>3 DEF PCs
    <2>2. CASE ~shared
      <3>1. Now(r, "free", None, None, None)
        BY <1>1, <2>2, AnswerNow DEF Invalidate
      <3>2. Served(r)'
        BY <3>1 DEF Served, Now
      <3> QED BY <2>2, <3>1, <3>2 DEF PCs
    <2> QED BY <2>1, <2>2
  <1>4. \A w1 \in Workers, u1 \in Users :
           memory'[w1][u1] = IF w1 = w /\ u1 = Owner THEN None ELSE memory[w1][u1]
    BY <1>1, <1>2 DEF TypeOK, Invalidate
  <1>5. TypeOK'
    <2>1. memory' \in [Workers -> [Users -> Row \cup {None}]]
      BY <1>1, <1>2 DEF TypeOK, Invalidate
    <2> QED BY <1>1, <1>3, <2>1 DEF TypeOK, Now, Invalidate
  <1>6. \A q \in Requests : Served(q)'
    BY <1>1, <1>3 DEF Served, Now, Invalidate
  <1>7. OthersPublic' /\ NoRedis'
    <2>1. UNCHANGED <<redis, shared>>
      BY DEF Invalidate
    <2> HIDE DEF w
    <2> QED BY <1>1, <1>4, <2>1 DEF OthersPublic, NoRedis
  <1>8. OnItsWayOut'
    <2> SUFFICES ASSUME ~raced', faults' = 0
                 PROVE  /\ Stale(redis[Owner])' => Invalidating'
                        /\ \A v \in Workers : writers' \subseteq {v} /\ Stale(memory[v][Owner])' =>
                              \E q \in Requests : req'[q].pc = "invalidate"
      BY DEF OnItsWayOut
    <2>1. UNCHANGED <<shared, row, redis, faults, raced, writers>>
      BY DEF Invalidate
    <2>2. Stale(redis[Owner])' => Invalidating'
      <3>1. CASE shared
        BY <1>3, <3>1 DEF Invalidating, Now
      <3>2. CASE ~shared
        BY <1>1, <1>2, <2>1, <3>2 DEF NoRedis, Stale
      <3> QED BY <3>1, <3>2
    <2>3. ASSUME NEW v \in Workers, writers' \subseteq {v}, Stale(memory[v][Owner])'
          PROVE  FALSE
      <3>1. v = w
        BY <1>2, <2>1, <2>3
      <3>2. memory'[v][Owner] = None
        BY <1>2, <1>4, <3>1
      <3> QED BY <2>3, <3>2 DEF Stale
    <2> QED BY <2>2, <2>3
  <1> QED BY <1>5, <1>6, <1>7, <1>8 DEF CacheInv

LEMMA UnpublishKeeps ==
  ASSUME CacheInv, NEW r \in Requests, Unpublish(r)
  PROVE  CacheInv'
  <1>1. TypeOK /\ (\A q \in Requests : Served(q)) /\ OthersPublic /\ NoRedis /\ OnItsWayOut
    BY DEF CacheInv
  <1>2. Now(r, "free", None, None, None)
    BY <1>1, AnswerNow DEF Unpublish
  <1>3. UNCHANGED <<shared, row, latest, memory, raced, writers>>
    BY DEF Unpublish
  <1>4. \/ redis' = [redis EXCEPT ![Owner] = None] /\ UNCHANGED faults
        \/ Fault /\ UNCHANGED redis
    BY DEF Unpublish
  <1>5. TypeOK'
    <2>1. redis' \in [Users -> Row \cup {None}]
      BY <1>1, <1>4, ConstantsAssumption DEF TypeOK
    <2> QED BY <1>1, <1>2, <1>3, <1>4, <2>1, FaultType DEF TypeOK, Now
  <1>6. \A q \in Requests : Served(q)'
    BY <1>1, <1>2, <1>3 DEF Served, Now
  <1>7. \A u \in Users : redis'[u] \in {redis[u], None}
    BY <1>1, <1>4 DEF TypeOK
  <1>8. OthersPublic' /\ NoRedis'
    BY <1>1, <1>3, <1>7 DEF OthersPublic, NoRedis
  <1>9. OnItsWayOut'
    <2> SUFFICES ASSUME ~raced', faults' = 0
                 PROVE  /\ Stale(redis[Owner])' => Invalidating'
                        /\ \A v \in Workers : writers' \subseteq {v} /\ Stale(memory[v][Owner])' =>
                              \E q \in Requests : req'[q].pc = "invalidate"
      BY DEF OnItsWayOut
    <2>1. faults = 0 /\ redis' = [redis EXCEPT ![Owner] = None]
      BY <1>1, <1>4, NoFault
    <2>2. redis'[Owner] = None
      BY <1>1, <2>1, ConstantsAssumption DEF TypeOK
    <2>3. \A q \in Requests : req[q].pc = "invalidate" => req'[q] = req[q]
      BY <1>2 DEF Now, Unpublish
    <2> QED BY <1>1, <1>3, <2>1, <2>2, <2>3 DEF OnItsWayOut, Stale
  <1> QED BY <1>5, <1>6, <1>8, <1>9 DEF CacheInv

\* Entries only disappear, and requests only where a worker is restarted.
LEMMA ExpireKeeps ==
  ASSUME CacheInv,
         \/ \E u \in Users : ExpireInRedis(u) \/ \E w \in Workers : Expire(w, u)
         \/ \E w \in Workers : Restart(w)
  PROVE  CacheInv'
  <1>1. TypeOK /\ (\A q \in Requests : Served(q)) /\ OthersPublic /\ NoRedis /\ OnItsWayOut
    BY DEF CacheInv
  <1>2. ASSUME NEW u \in Users, ExpireInRedis(u)
        PROVE  CacheInv'
    <2>1. TypeOK'
      BY <1>1, <1>2 DEF TypeOK, ExpireInRedis
    <2>2. \A q \in Requests : Served(q)'
      BY <1>1, <1>2 DEF Served, ExpireInRedis
    <2>3. \A u1 \in Users : redis'[u1] \in {redis[u1], None}
      BY <1>1, <1>2 DEF TypeOK, ExpireInRedis
    <2>4. OthersPublic' /\ NoRedis'
      BY <1>1, <1>2, <2>3 DEF OthersPublic, NoRedis, ExpireInRedis
    <2>5. OnItsWayOut'
      BY <1>1, <1>2, <2>3, ConstantsAssumption
         DEF OnItsWayOut, Stale, Invalidating, ExpireInRedis
    <2> QED BY <2>1, <2>2, <2>4, <2>5 DEF CacheInv
  <1>3. ASSUME NEW u \in Users, NEW w \in Workers, Expire(w, u)
        PROVE  CacheInv'
    <2>1. TypeOK'
      BY <1>1, <1>3 DEF TypeOK, Expire
    <2>2. \A q \in Requests : Served(q)'
      BY <1>1, <1>3 DEF Served, Expire
    <2>3. \A w1 \in Workers, u1 \in Users : memory'[w1][u1] \in {memory[w1][u1], None}
      BY <1>1, <1>3 DEF TypeOK, Expire
    <2>4. OthersPublic' /\ NoRedis'
      BY <1>1, <1>3, <2>3 DEF OthersPublic, NoRedis, Expire
    <2>5. OnItsWayOut'
      BY <1>1, <1>3, <2>3, ConstantsAssumption DEF OnItsWayOut, Stale, Invalidating, Expire
    <2> QED BY <2>1, <2>2, <2>4, <2>5 DEF CacheInv
  <1>4. ASSUME NEW w \in Workers, Restart(w)
        PROVE  CacheInv'
    <2>1. \A q \in Requests : req'[q] \in {req[q], Free}
      BY <1>4 DEF Restart
    <2>2. TypeOK'
      <3>1. req' \in [Requests -> Request]
        BY <1>1, <1>4, <2>1 DEF TypeOK, Restart, Request, Free, PCs
      <3>2. memory' \in [Workers -> [Users -> Row \cup {None}]]
        BY <1>1, <1>4 DEF TypeOK, Restart
      <3> QED BY <1>1, <1>4, <3>1, <3>2, FaultType DEF TypeOK, Restart
    <2>3. \A q \in Requests : Served(q)'
      BY <1>1, <1>4, <2>1 DEF Served, Free, Restart
    <2>4. \A w1 \in Workers, u1 \in Users : memory'[w1][u1] \in {memory[w1][u1], None}
      BY <1>1, <1>4 DEF TypeOK, Restart
    <2>5. OthersPublic' /\ NoRedis'
      BY <1>1, <1>4, <2>4 DEF OthersPublic, NoRedis, Restart
    <2>6. OnItsWayOut'
      BY <1>1, <1>4, NoFault DEF OnItsWayOut, Restart
    <2> QED BY <2>2, <2>3, <2>5, <2>6 DEF CacheInv
  <1> QED BY <1>2, <1>3, <1>4

LEMMA CacheInvNext == CacheInv /\ [Next]_vars => CacheInv'
  <1> SUFFICES ASSUME CacheInv, [Next]_vars PROVE CacheInv'
    OBVIOUS
  <1>1. ASSUME NEW r \in Requests,
               QuietAct(r) \/ Proceed(r)
        PROVE  CacheInv'
    BY <1>1, QuietActs, FillKeeps, CacheKeeps, PublishKeeps, UpdateKeeps, InvalidateKeeps,
       UnpublishKeeps DEF QuietAct, Proceed
  <1>2. CASE UNCHANGED vars
    BY <1>2 DEF vars, CacheInv, TypeOK, Served, OthersPublic, NoRedis, OnItsWayOut, Stale,
                Invalidating
  <1> QED BY <1>1, <1>2, ExpireKeeps DEF Next, QuietAct

-----------------------------------------------------------------------------
(* The theorems *)

LEMMA CacheCorrect == Spec => []CacheInv
  BY CacheInvInit, CacheInvNext, PTL DEF Spec

\* Every variable of the schema cache keeps its type.
THEOREM TypeCorrect == Spec => []TypeOK
  <1>1. CacheInv => TypeOK
    BY DEF CacheInv
  <1> QED BY <1>1, CacheCorrect, PTL

\* After a write the owner reads his own version from Redis, and from the memory
\* of the only worker that writes, unless something raced or failed.
THEOREM OwnerCorrect == Spec => []OwnerSeesHisWrites
  <1>1. CacheInv => OwnerSeesHisWrites
    BY DEF CacheInv, OwnerSeesHisWrites, OnItsWayOut, Invalidating
  <1> QED BY <1>1, CacheCorrect, PTL

\* What is cached for another user was public, whatever races and fails.
THEOREM OthersCorrect == Spec => []OthersSeeWhatWasPublic
  <1>1. CacheInv => OthersSeeWhatWasPublic
    BY DEF CacheInv, OthersPublic, OthersSeeWhatWasPublic
  <1> QED BY <1>1, CacheCorrect, PTL
==============================================================================
