----------------------------- MODULE SchemaCache -----------------------------
(***************************************************************************)
(* Stored schemas and the cache in front of them.  get_schema looks into   *)
(* the memory of its worker process, then into Redis (if there is one,     *)
(* shared by the workers), then into the database, and puts what it finds  *)
(* where it was missing.  Whoever writes a schema, its owner, writes the   *)
(* row first and then takes the entry out of his worker's memory and out   *)
(* of Redis.  Entries are kept per user, and other users read a schema     *)
(* while it is public.                                                     *)
(*                                                                         *)
(* One schema; every await on Redis or the database is a point where other *)
(* requests come in between, while an operation on a worker's memory is    *)
(* never interrupted.  Contents (title, text, tags, visibility) are        *)
(* version numbers; usage_count and updated_at, which every view of the    *)
(* schema changes without any invalidation, are no part of them.  Time is  *)
(* left out: an entry may expire, or be evicted from memory for another    *)
(* one, at any moment.                                                     *)
(***************************************************************************)
EXTENDS Integers

CONSTANTS
    Users, Owner,
    Workers,       \* server processes
    TextIds,       \* the driver returns the id column as text, as StoredSchema wants it
    Redis,         \* subset of BOOLEAN: whether LLM_CACHE_URL is set
    Routes,        \* <<worker, user>>: whose requests reach which worker
    Requests,      \* requests under way
    MaxVersion,    \* bound: versions of the schema
    MaxFaults,     \* bound: failing calls and restarts
    None           \* no entry, no row

Row == [version : 1..MaxVersion, public : BOOLEAN]

ASSUME ConstantsAssumption ==
    /\ TextIds \in BOOLEAN
    /\ Owner \in Users /\ Redis \subseteq BOOLEAN /\ Routes \subseteq Workers \X Users
    /\ MaxVersion \in Nat \ {0} /\ MaxFaults \in Nat
    /\ None \notin Row \cup Users \cup Workers

VARIABLES
    shared,     \* there is a Redis
    row,        \* the schema in the database
    latest,     \* its newest version; a deleted row keeps the number
    memory,     \* worker -> user -> entry
    redis,      \* user -> entry
    req,        \* request -> where it stands, for whom, and what it has read
    faults,     \* calls that failed, and restarts, so far
    raced,      \* history: an entry was filled with what the row no longer was
    writers     \* history: workers that have written the schema

vars == <<shared, row, latest, memory, redis, req, faults, raced, writers>>

PCs == {"free", "fetch", "fill", "select", "cache", "publish", "update",
        "invalidate", "unpublish"}

Request == [pc : PCs, worker : Workers \cup {None}, user : Users \cup {None},
            value : Row \cup {None}]
Free == [pc |-> "free", worker |-> None, user |-> None, value |-> None]
At(pc, w, u) == [pc |-> pc, worker |-> w, user |-> u, value |-> None]

TypeOK ==
    /\ shared \in BOOLEAN
    /\ row \in Row \cup {None} /\ latest \in 1..MaxVersion
    /\ memory \in [Workers -> [Users -> Row \cup {None}]]
    /\ redis \in [Users -> Row \cup {None}]
    /\ req \in [Requests -> Request]
    /\ faults \in 0..MaxFaults
    /\ raced \in BOOLEAN /\ writers \subseteq Workers

\* The schema has been created (create_schema, store_generated_schema): nothing is cached.
Init ==
    /\ shared \in Redis
    /\ row \in {r \in Row : r.version = 1} /\ latest = 1
    /\ memory = [w \in Workers |-> [u \in Users |-> None]]
    /\ redis = [u \in Users |-> None]
    /\ req = [r \in Requests |-> Free]
    /\ faults = 0 /\ raced = FALSE /\ writers = {}

Goto(r, pc) == req' = [req EXCEPT ![r].pc = pc]
Answer(r) == req' = [req EXCEPT ![r] = Free]
Holding(r, pc, value) == req' = [req EXCEPT ![r].pc = pc, ![r].value = value]

\* A call fails, is logged and swallowed.
Fault == faults < MaxFaults /\ faults' = faults + 1

-----------------------------------------------------------------------------
(* Reading *)

\* The memory of the worker answers, or the request goes on.
Get(r, w, u) ==
    /\ req[r].pc = "free" /\ <<w, u>> \in Routes
    /\ req' = [req EXCEPT ![r] =
          IF memory[w][u] # None THEN Free
          ELSE At(IF shared THEN "fetch" ELSE "select", w, u)]
    /\ UNCHANGED <<shared, row, latest, memory, redis, faults, raced, writers>>

\* A failing Redis is a miss.
Fetch(r) ==
    /\ req[r].pc = "fetch"
    /\ \/ /\ IF redis[req[r].user] # None THEN Holding(r, "fill", redis[req[r].user])
                                          ELSE Goto(r, "select")
          /\ UNCHANGED faults
       \/ Fault /\ Goto(r, "select")
    /\ UNCHANGED <<shared, row, latest, memory, redis, raced, writers>>

PutInMemory(r) ==
    /\ memory' = [memory EXCEPT ![req[r].worker][req[r].user] = req[r].value]
    /\ raced' = (raced \/ req[r].value # row)

\* What Redis had is kept in memory too, for a full lifetime of its own.
Fill(r) ==
    /\ req[r].pc = "fill"
    /\ PutInMemory(r)
    /\ Answer(r)
    /\ UNCHANGED <<shared, row, latest, redis, faults, writers>>

\* MUTATION of Visible: the schema is looked up by its id alone.
VisibleToAll(u) == row # None

Visible(u) == row # None /\ (u = Owner \/ row.public)

\* StoredSchema(**row): of an id that is no text it raises, which is swallowed.
Validates == TextIds

\* Not found, not readable or not valid is None: nothing is cached then.
Select(r) ==
    /\ req[r].pc = "select"
    /\ \/ /\ IF Visible(req[r].user) /\ Validates THEN Holding(r, "cache", row) ELSE Answer(r)
          /\ UNCHANGED faults
       \/ Fault /\ Answer(r)
    /\ UNCHANGED <<shared, row, latest, memory, redis, raced, writers>>

Cache(r) ==
    /\ req[r].pc = "cache"
    /\ PutInMemory(r)
    /\ IF shared THEN Goto(r, "publish") ELSE Answer(r)
    /\ UNCHANGED <<shared, row, latest, redis, faults, writers>>

Publish(r) ==
    /\ req[r].pc = "publish"
    /\ \/ /\ redis' = [redis EXCEPT ![req[r].user] = req[r].value]
          /\ raced' = (raced \/ req[r].value # row)
          /\ UNCHANGED faults
       \/ Fault /\ UNCHANGED <<redis, raced>>
    /\ Answer(r)
    /\ UNCHANGED <<shared, row, latest, memory, writers>>

-----------------------------------------------------------------------------
(* Writing *)

\* A PUT or DELETE of the owner, or a refinement of a generated schema.
Write(r, w) ==
    /\ req[r].pc = "free" /\ <<w, Owner>> \in Routes
    /\ req' = [req EXCEPT ![r] = At("update", w, Owner)]
    /\ UNCHANGED <<shared, row, latest, memory, redis, faults, raced, writers>>

NextRows == {[version |-> latest + 1, public |-> p] : p \in BOOLEAN} \cup {None}

\* Nothing is invalidated when the statement fails or hits no row.
Update(r) ==
    /\ req[r].pc = "update"
    /\ \/ /\ row # None /\ latest < MaxVersion
          /\ row' \in NextRows
          /\ latest' = latest + 1
          /\ writers' = writers \cup {req[r].worker}
          /\ Goto(r, "invalidate")
          /\ UNCHANGED faults
       \/ /\ row = None \/ latest = MaxVersion
          /\ Answer(r)
          /\ UNCHANGED <<row, latest, writers, faults>>
       \/ Fault /\ Answer(r) /\ UNCHANGED <<row, latest, writers>>
    /\ UNCHANGED <<shared, memory, redis, raced>>

Invalidate(r) ==
    /\ req[r].pc = "invalidate"
    /\ memory' = [memory EXCEPT ![req[r].worker][Owner] = None]
    /\ IF shared THEN Goto(r, "unpublish") ELSE Answer(r)
    /\ UNCHANGED <<shared, row, latest, redis, faults, raced, writers>>

\* MUTATION of Unpublish: the entry in Redis is left to its lifetime.
UnpublishNothing(r) ==
    /\ req[r].pc = "unpublish"
    /\ Answer(r)
    /\ UNCHANGED <<shared, row, latest, memory, redis, faults, raced, writers>>

Unpublish(r) ==
    /\ req[r].pc = "unpublish"
    /\ \/ redis' = [redis EXCEPT ![Owner] = None] /\ UNCHANGED faults
       \/ Fault /\ UNCHANGED redis
    /\ Answer(r)
    /\ UNCHANGED <<shared, row, latest, memory, raced, writers>>

-----------------------------------------------------------------------------
(* Time and failures *)

\* Past its lifetime an entry of memory is no entry; it may be evicted before.
Expire(w, u) ==
    /\ memory[w][u] # None
    /\ memory' = [memory EXCEPT ![w][u] = None]
    /\ UNCHANGED <<shared, row, latest, redis, req, faults, raced, writers>>

\* MUTATION of ExpireInRedis: the entry was set without a lifetime.
KeptInRedis(u) == FALSE /\ u \in Users /\ UNCHANGED vars

ExpireInRedis(u) ==
    /\ redis[u] # None
    /\ redis' = [redis EXCEPT ![u] = None]
    /\ UNCHANGED <<shared, row, latest, memory, req, faults, raced, writers>>

\* A worker is restarted: its requests end wherever they are, its memory is empty.
Restart(w) ==
    /\ Fault
    /\ memory' = [memory EXCEPT ![w] = [u \in Users |-> None]]
    /\ req' = [r \in Requests |->
          IF req[r].worker = w THEN Free ELSE req[r]]
    /\ UNCHANGED <<shared, row, latest, redis, raced, writers>>

Proceed(r) ==
    Fetch(r) \/ Fill(r) \/ Select(r) \/ Cache(r) \/ Publish(r)
    \/ Update(r) \/ Invalidate(r) \/ Unpublish(r)

Next ==
    \/ \E r \in Requests :
          \/ \E w \in Workers : Write(r, w) \/ \E u \in Users : Get(r, w, u)
          \/ Proceed(r)
    \/ \E u \in Users : ExpireInRedis(u) \/ \E w \in Workers : Expire(w, u)
    \/ \E w \in Workers : Restart(w)

\* Calls return or raise, and every entry has a lifetime that reads do not renew.
Fairness ==
    /\ \A r \in Requests : WF_vars(Proceed(r))
    /\ \A u \in Users : WF_vars(ExpireInRedis(u)) /\ \A w \in Workers : WF_vars(Expire(w, u))

Spec == Init /\ [][Next]_vars /\ Fairness

-----------------------------------------------------------------------------
(* Properties *)

Stale(entry) == entry # None /\ entry # row

Invalidating == \E r \in Requests : req[r].pc \in {"invalidate", "unpublish"}

\* After a write the owner is not shown the version before it, neither from
\* Redis nor from the memory of the only worker that writes, unless a read that
\* began before it fills the entry again, or a call or a worker fails.
OwnerSeesHisWrites ==
    (~raced /\ faults = 0 /\ ~Invalidating) =>
        /\ ~Stale(redis[Owner])
        /\ \A w \in Workers : writers \subseteq {w} => ~Stale(memory[w][Owner])

\* Whatever raced or failed, what is kept for another user is a version that
\* was public.
OthersSeeWhatWasPublic ==
    \A u \in Users \ {Owner} :
        /\ redis[u] # None => redis[u].public
        /\ \A w \in Workers : memory[w][u] # None => memory[w][u].public

\* What is stale does not stay for ever, wherever it was copied meanwhile: when
\* the schema is no longer written, the entries become what the row is.
StaleEntriesDie ==
    <>[](/\ \A u \in Users : ~Stale(redis[u])
         /\ \A w \in Workers, u \in Users : ~Stale(memory[w][u]))
=============================================================================
