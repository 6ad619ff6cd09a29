------------------------- MODULE MergeSessionProofs -------------------------
(***************************************************************************)
(* Proofs about MergeSession, for any staging graph, matches, runs,        *)
(* retries, failing calls and restarts.                                    *)
(***************************************************************************)
EXTENDS MergeSession, FiniteSetTheorems, TLAPS

-----------------------------------------------------------------------------
(* Least elements, ids and runs *)

\* A set of naturals with an element has a least one: of the intervals up to
\* its elements one has no other inside it.
LEMMA HasLeast ==
    ASSUME NEW T \in SUBSET Nat, T # {}
    PROVE  \E x \in T : \A y \in T : x <= y
<1> DEFINE F == {1..x : x \in T}
<1>1. F \subseteq FiniteSubsetsOf(Nat) /\ F # {}
  <2>1. \A x \in T : IsFiniteSet(1..x)
    BY FS_Interval
  <2>2. \A x \in T : 1..x \in FiniteSubsetsOf(Nat)
    BY <2>1 DEF FiniteSubsetsOf
  <2> QED
    BY <2>2
<1>2. PICK I \in F : \A J \in F : <<J, I>> \notin StrictSubsetOrdering(Nat)
  <2> HIDE DEF F
  <2> QED
    BY <1>1, FS_StrictSubsetOrderingWellFounded, WFMin
<1>3. PICK x \in T : I = 1..x
  OBVIOUS
<1>4. ASSUME NEW y \in T, y < x
      PROVE  FALSE
  <2>1. 1..y \in F /\ I \in SUBSET Nat /\ 1..y \in SUBSET Nat
    BY <1>3
  <2>2. 1..y \subseteq I /\ x \in I /\ x \notin 1..y
    BY <1>3, <1>4
  <2>3. <<1..y, I>> \in StrictSubsetOrdering(Nat)
    BY <2>1, <2>2 DEF StrictSubsetOrdering
  <2> QED
    BY <1>2, <2>1, <2>3
<1> QED
  BY <1>4

LEMMA NodesAreNumbers == Nodes \subseteq Nat
BY SizeAssumption DEF Nodes

LEMMA LeastNode ==
    ASSUME NEW T \in SUBSET Nodes, T # {}
    PROVE  Min(T) \in T /\ \A y \in T : Min(T) <= y
<1>1. \E x \in T : \A y \in T : x <= y
  BY NodesAreNumbers, HasLeast
<1> QED
  BY <1>1 DEF Min

LEMMA IdValues ==
    /\ \A n \in Nodes : /\ StagingId(n) \in Ids /\ StagingId(n).kind = "staging"
                        /\ EntityOf(StagingId(n)) = entity[n]
    /\ \A n \in Nodes : /\ ProdId(n) \in Ids /\ ProdId(n).kind = "prod" /\ ProdId(n).of = n
                        /\ EntityOf(ProdId(n)) = n
    /\ \A n \in Nodes, r \in Runs : /\ OldId(n, r) \in Ids /\ OldId(n, r).kind = "old"
                                    /\ EntityOf(OldId(n, r)) = entity[n]
    /\ NoId \notin Ids /\ NoId.kind = "none"
<1>1. ASSUME NEW n \in Nodes
      PROVE  /\ StagingId(n) \in Ids /\ StagingId(n).kind = "staging" /\ StagingId(n).of = n
             /\ ProdId(n) \in Ids /\ ProdId(n).kind = "prod" /\ ProdId(n).of = n
  <2>1. StagingId(n) \in Ids /\ ProdId(n) \in Ids
    BY DEF Ids
  <2> QED
    BY <2>1 DEF StagingId, ProdId
<1>2. ASSUME NEW n \in Nodes, NEW r \in Runs
      PROVE  OldId(n, r) \in Ids /\ OldId(n, r).kind = "old" /\ OldId(n, r).of = n
  <2>1. OldId(n, r) \in Ids
    BY DEF Ids
  <2> QED
    BY <2>1 DEF OldId
<1>3. NoId \notin Ids /\ NoId.kind = "none"
  <2>1. \A i \in Ids : i.kind # "none"
    BY <1>1, <1>2 DEF Ids
  <2>2. NoId.kind = "none"
    BY DEF NoId
  <2> QED
    BY <2>1, <2>2
<1> QED
  BY <1>1, <1>2, <1>3 DEF EntityOf

LEMMA StagingIdsDiffer == \A n, k \in Nodes : StagingId(n) = StagingId(k) => n = k
BY DEF StagingId

LEMMA ProdIds == \A i \in Ids : i.kind = "prod" => i.of \in Nodes /\ EntityOf(i) = i.of
BY DEF Ids, StagingId, ProdId, OldId, EntityOf

Entries == [id : Ids, val : Vals \ {"absent"}]

RunRecords ==
    [pc : PCs, attempt : 1..(Retries + 1), api : BOOLEAN,
     id : [Nodes -> Ids \cup {NoId}], against : [Nodes -> Ids \cup {NoId}],
     theirs : [Nodes -> Vals], todo : SUBSET Entries]

\* A run that has neither matched its nodes nor begun to write.
Quiet(R) == R \in RunRecords /\ R.pc \notin {"classify", "write", "writeReviewed"}

LEMMA TypeFacts ==
    TypeOK <=> /\ entity \in [Nodes -> Nodes] /\ byName \in ByNames
               /\ stagingDb \in BOOLEAN /\ staged \in BOOLEAN
               /\ status \in Statuses /\ logs \subseteq Log
               /\ prod \in [Ids -> Vals] /\ run \in [Runs -> RunRecords]
               /\ faults \in 0..MaxFaults
BY DEF TypeOK, RunRecords, Entries

LEMMA PCNames == PCs = {"idle", "extract", "reconcile", "map", "classify", "write", "complete",
                        "writeReviewed", "done", "failed", "lost"}
BY DEF PCs

LEMMA IdleType == Idle \in RunRecords
BY SizeAssumption DEF Idle, RunRecords, PCs, Vals, Entries

LEMMA EndedType == \A pc \in PCs : Ended(pc) \in RunRecords /\ Ended(pc).pc = pc
<1>1. \A pc \in PCs : Ended(pc) = [Idle EXCEPT !.pc = pc]
  BY DEF Ended
<1> QED
  BY <1>1, IdleType DEF RunRecords

LEMMA GotoType ==
    ASSUME run \in [Runs -> RunRecords], NEW r \in Runs, NEW pc \in PCs, Goto(r, pc)
    PROVE  /\ run' \in [Runs -> RunRecords]
           /\ run'[r].pc = pc
           /\ \A q \in Runs \ {r} : run'[q] = run[q]
BY DEF Goto, RunRecords

LEMMA BeginType ==
    ASSUME run \in [Runs -> RunRecords], NEW r \in Runs, NEW api \in BOOLEAN, Begin(r, api)
    PROVE  /\ run' \in [Runs -> RunRecords]
           /\ \A q \in Runs : run'[q] = run[q] \/ Quiet(run'[q])
<1>1. run' = [run EXCEPT ![r] = [run[r] EXCEPT !.pc = "extract", !.api = api]]
  BY DEF Begin
<1>2. [run[r] EXCEPT !.pc = "extract", !.api = api] \in RunRecords
  BY PCNames DEF RunRecords
<1>3. [run[r] EXCEPT !.pc = "extract", !.api = api].pc = "extract"
  BY DEF RunRecords
<1> QED
  BY <1>1, <1>2, <1>3 DEF Quiet

LEMMA DoneType ==
    ASSUME run \in [Runs -> RunRecords], NEW r \in Runs, Done(r)
    PROVE  /\ run' \in [Runs -> RunRecords]
           /\ \A q \in Runs : run'[q] = run[q] \/ Quiet(run'[q])
<1>1. Ended("done") \in RunRecords /\ Ended("done").pc = "done"
  BY EndedType, PCNames
<1> QED
  BY <1>1 DEF Done, Quiet

LEMMA RestartType ==
    ASSUME run \in [Runs -> RunRecords]
    PROVE  Restart \in [Runs -> RunRecords] /\ \A q \in Runs : Quiet(Restart[q])
<1>1. Ended("lost") \in RunRecords /\ Ended("lost").pc = "lost"
  BY EndedType, PCNames
<1> QED
  BY <1>1 DEF Restart, Quiet

LEMMA FaultType == TypeOK /\ Fault => faults' \in 0..MaxFaults
BY SizeAssumption DEF TypeOK, Fault

LEMMA FailsType ==
    ASSUME TypeOK, NEW r \in Runs, NEW fallback \in Statuses, AttemptFails(r, fallback)
    PROVE  /\ run' \in [Runs -> RunRecords] /\ faults' \in 0..MaxFaults
           /\ status' \in {fallback, "failed"}
           /\ \A q \in Runs : run'[q] = run[q] \/ Quiet(run'[q])
<1>1. run \in [Runs -> RunRecords] /\ faults' \in 0..MaxFaults
  BY TypeFacts, FaultType DEF AttemptFails
<1>2. CASE run[r].attempt <= Retries
  <2>1. run' = [run EXCEPT ![r] = [Idle EXCEPT !.pc = "extract", !.api = run[r].api,
                                               !.attempt = run[r].attempt + 1]]
    BY <1>2 DEF AttemptFails
  <2>2. run[r].api \in BOOLEAN /\ run[r].attempt + 1 \in 1..(Retries + 1)
    BY <1>1, <1>2, SizeAssumption DEF RunRecords
  <2>3. [Idle EXCEPT !.pc = "extract", !.api = run[r].api, !.attempt = run[r].attempt + 1] \in RunRecords
    BY <2>2, IdleType, PCNames DEF RunRecords
  <2>4. [Idle EXCEPT !.pc = "extract", !.api = run[r].api, !.attempt = run[r].attempt + 1].pc = "extract"
    BY IdleType DEF RunRecords
  <2> QED
    BY <1>1, <1>2, <2>1, <2>3, <2>4 DEF AttemptFails, Quiet
<1>3. CASE ~(run[r].attempt <= Retries)
  <2>1. Ended("failed") \in RunRecords /\ Ended("failed").pc = "failed"
    BY EndedType, PCNames
  <2> QED
    BY <1>1, <1>3, <2>1 DEF AttemptFails, Quiet
<1> QED
  BY <1>2, <1>3

-----------------------------------------------------------------------------
(* What a run knows *)

\* Nothing was matched with e by its name.
Weak(e) == \A n \in byName : entity[n] # e

\* Before the merge: a node's id is one of its entity, production's only by name,
\* and what is in conflict is a value that is not staging's.
Mapped(R) ==
    R.pc = "classify" =>
        \A n \in Nodes :
            /\ n \in Staging => R.id[n] \in Ids /\ EntityOf(R.id[n]) = entity[n]
            /\ R.id[n].kind = "prod" => ~Weak(R.id[n].of)
            /\ R.against[n] # NoId =>
                  EntityOf(R.against[n]) = entity[n] /\ R.theirs[n] \in {"prod", "llm"}

\* During it: what a weak match has in production is not written over with
\* staging's value, and an entity that is not stored yet is still to be written.
Writing(R) ==
    R.pc \in {"write", "writeReviewed"} =>
        /\ \A w \in R.todo : w.id.kind = "prod" /\ Weak(w.id.of) => w.val # "staging"
        /\ staged => \A n \in Nodes : Stored(n) \/ \E w \in R.todo : EntityOf(w.id) = entity[n]

RunsKnow == \A r \in Runs : Mapped(run[r]) /\ Writing(run[r])

SessionInv ==
    /\ TypeOK
    /\ RunsKnow
    /\ CompletedMeansStored
    /\ ReadyMeansReviewed
    /\ WeakMatchesKeepProduction

\* A run keeps what it knows if production loses nothing and staging does not
\* come back.
LEMMA KnowledgeKept ==
    ASSUME NEW q \in Runs, Mapped(run[q]), Writing(run[q]), run'[q] = run[q],
           UNCHANGED input, staged \in BOOLEAN, staged' \in {staged, FALSE},
           \A i \in Ids : prod[i] # "absent" => prod'[i] # "absent"
    PROVE  Mapped(run[q])' /\ Writing(run[q])'
<1>1. entity' = entity /\ byName' = byName
  BY DEF input
<1>2. \A e : Weak(e)' <=> Weak(e)
  BY <1>1 DEF Weak
<1>3. \A i : EntityOf(i)' = EntityOf(i)
  BY <1>1 DEF EntityOf
<1>4. \A n : n \in Staging' => n \in Staging
  <2>1. CASE staged' = staged
    BY <2>1 DEF Staging
  <2>2. CASE staged' = FALSE
    BY <2>2 DEF Staging
  <2> QED
    BY <2>1, <2>2
<1>5. \A n \in Nodes : Stored(n) => Stored(n)'
  BY <1>1, <1>3 DEF Stored
<1>6. Mapped(run[q])'
  BY <1>1, <1>4 DEF Mapped, Weak, EntityOf
<1>7. Writing(run[q])'
  BY <1>1, <1>2, <1>3, <1>5 DEF Writing
<1> QED
  BY <1>6, <1>7

LEMMA QuietKnows ==
    ASSUME NEW q \in Runs, Quiet(run'[q])
    PROVE  Mapped(run[q])' /\ Writing(run[q])'
BY DEF Quiet, Mapped, Writing

LEMMA StoredStays ==
    ASSUME UNCHANGED input, \A i \in Ids : prod[i] # "absent" => prod'[i] # "absent"
    PROVE  \A n \in Nodes : Stored(n) => Stored(n)'
BY DEF Stored, EntityOf, input

\* A step in which runs only become quiet, and production does not change.
LEMMA QuietStep ==
    ASSUME SessionInv, TypeOK', UNCHANGED <<input, prod>>, staged' \in {staged, FALSE},
           \A q \in Runs : run'[q] = run[q] \/ Quiet(run'[q]),
           status' = "completed" => status = "completed",
           status' = "ready_to_merge" => Unresolved' = {}
    PROVE  SessionInv'
<1> USE DEF SessionInv
<1>1. RunsKnow'
  BY KnowledgeKept, QuietKnows, TypeFacts DEF RunsKnow
<1>2. CompletedMeansStored'
  BY StoredStays DEF CompletedMeansStored
<1>3. ReadyMeansReviewed'
  BY DEF ReadyMeansReviewed
<1>4. WeakMatchesKeepProduction'
  BY DEF WeakMatchesKeepProduction, input
<1> QED
  BY <1>1, <1>2, <1>3, <1>4

-----------------------------------------------------------------------------
(* The beginning, the user and the failures *)

LEMMA InitKnows == Init => SessionInv
<1> SUFFICES ASSUME Init PROVE SessionInv
  OBVIOUS
<1>1. PICK known \in SUBSET {entity[n] : n \in Nodes} :
         prod = [i \in Ids |-> IF i.kind = "prod" /\ i.of \in known THEN "prod" ELSE "absent"]
  BY DEF Init
<1>2. prod \in [Ids -> Vals] /\ \A i \in Ids : prod[i] \in {"prod", "absent"}
  BY <1>1 DEF Vals
<1>3. run \in [Runs -> RunRecords] /\ \A r \in Runs : run[r].pc = "idle"
  BY IdleType DEF Init, Idle
<1>4. TypeOK
  BY <1>2, <1>3, TypeFacts, SizeAssumption DEF Init, Statuses
<1>5. RunsKnow
  BY <1>3 DEF RunsKnow, Mapped, Writing
<1>6. CompletedMeansStored /\ ReadyMeansReviewed
  BY DEF Init, CompletedMeansStored, ReadyMeansReviewed
<1>7. WeakMatchesKeepProduction
  BY <1>2, IdValues DEF WeakMatchesKeepProduction
<1> QED
  BY <1>4, <1>5, <1>6, <1>7 DEF SessionInv

LEMMA StartKeeps == ASSUME SessionInv, NEW r \in Runs, StartMerge(r) PROVE SessionInv'
<1>1. run' \in [Runs -> RunRecords] /\ \A q \in Runs : run'[q] = run[q] \/ Quiet(run'[q])
  BY BeginType, TypeFacts DEF StartMerge, SessionInv
<1>2. UNCHANGED <<input, staged, status, logs, prod, faults>>
  BY DEF StartMerge
<1>3. TypeOK'
  BY <1>1, <1>2, TypeFacts DEF SessionInv, TypeOK, RunRecords, Entries, input
<1>4. Unresolved' = Unresolved
  BY <1>2 DEF Unresolved
<1> QED
  BY <1>1, <1>2, <1>3, <1>4, QuietStep DEF SessionInv, ReadyMeansReviewed

\* A resolved log is a log that needs no review.
LEMMA ResolvedType ==
    ASSUME logs \subseteq Log, NEW l \in logs, NEW v \in Decisions
    PROVE  /\ Resolved(l, v) \subseteq Log
           /\ {k \in Resolved(l, v) : k.review} \subseteq Unresolved \ {l}
<1>1. [l EXCEPT !.review = FALSE, !.val = v] \in Log
  BY DEF Log
<1>2. [l EXCEPT !.review = FALSE, !.val = v].review = FALSE
  BY DEF Log
<1> QED
  BY <1>1, <1>2 DEF Resolved, Unresolved

LEMMA ResolveKeeps == ASSUME SessionInv, NEW l \in logs, Resolve(l) PROVE SessionInv'
<1> USE DEF SessionInv
<1>1. PICK v \in Decisions :
        /\ logs' = Resolved(l, v)
        /\ IF Unresolved \ {l} = {}
           THEN /\ \E r \in Runs : Begin(r, FALSE)
                /\ status' = "ready_to_merge"
           ELSE UNCHANGED <<run, status>>
        /\ UNCHANGED <<input, staged, prod, faults>>
  BY DEF Resolve
<1>2. run \in [Runs -> RunRecords] /\ logs \subseteq Log
  BY TypeFacts
<1>3. logs' \subseteq Log /\ Unresolved' \subseteq Unresolved \ {l}
  BY <1>1, <1>2, ResolvedType DEF Unresolved
<1>4. run' \in [Runs -> RunRecords] /\ \A q \in Runs : run'[q] = run[q] \/ Quiet(run'[q])
  BY <1>1, <1>2, BeginType
<1>5. status' \in Statuses
  BY <1>1, TypeFacts DEF Statuses
<1>6. TypeOK'
  BY <1>1, <1>3, <1>4, <1>5, TypeFacts DEF TypeOK, RunRecords, Entries, input
<1>7. status' = "completed" => status = "completed"
  BY <1>1
<1>8. status' = "ready_to_merge" => Unresolved' = {}
  BY <1>1, <1>3 DEF ReadyMeansReviewed
<1> QED
  BY <1>1, <1>4, <1>6, <1>7, <1>8, QuietStep

LEMMA CrashKeeps == ASSUME SessionInv, Crash PROVE SessionInv'
<1> USE DEF SessionInv
<1>1. run' \in [Runs -> RunRecords] /\ \A q \in Runs : Quiet(run'[q])
  BY RestartType, TypeFacts DEF Crash
<1>2. UNCHANGED <<input, status, logs, prod>> /\ staged' \in {staged, FALSE} /\ faults' \in 0..MaxFaults
  BY FaultType, TypeFacts DEF Crash
<1>3. TypeOK'
  BY <1>1, <1>2, TypeFacts DEF TypeOK, RunRecords, Entries, input
<1>4. Unresolved' = Unresolved
  BY <1>2 DEF Unresolved
<1> QED
  BY <1>1, <1>2, <1>3, <1>4, QuietStep DEF ReadyMeansReviewed

LEMMA RunFailsKeeps == ASSUME SessionInv, NEW r \in Runs, RunFails(r) PROVE SessionInv'
<1> USE DEF SessionInv
<1>1. PICK fallback \in Statuses : fallback \in {status, "failed"} /\ AttemptFails(r, fallback)
  BY TypeFacts DEF RunFails, Statuses
<1>2. /\ run' \in [Runs -> RunRecords] /\ faults' \in 0..MaxFaults
      /\ status' \in {status, "failed"}
      /\ \A q \in Runs : run'[q] = run[q] \/ Quiet(run'[q])
  BY <1>1, FailsType
<1>3. UNCHANGED <<input, staged, logs, prod>>
  BY DEF RunFails
<1>4. status' \in Statuses
  BY <1>2, TypeFacts DEF Statuses
<1>5. TypeOK'
  BY <1>2, <1>3, <1>4, TypeFacts DEF TypeOK, RunRecords, Entries, input
<1>6. Unresolved' = Unresolved
  BY <1>3 DEF Unresolved
<1> QED
  BY <1>2, <1>3, <1>5, <1>6, QuietStep DEF ReadyMeansReviewed

-----------------------------------------------------------------------------
(* Extraction and mapping *)

LEMMA ExtractKeeps ==
    ASSUME SessionInv, NEW r \in Runs, Extract(r) \/ Reconcile(r) PROVE SessionInv'
<1> USE DEF SessionInv
<1>1. PICK pc \in {"complete", "reconcile", "map"} : Goto(r, pc)
  BY DEF Extract, Reconcile
<1>2. UNCHANGED <<input, staged, logs, prod, faults>> /\ status' \in {status, "started"}
  BY DEF Extract, Reconcile
<1>3. run' \in [Runs -> RunRecords] /\ run'[r].pc = pc /\ \A q \in Runs \ {r} : run'[q] = run[q]
  BY <1>1, GotoType, TypeFacts, PCNames
<1>4. \A q \in Runs : run'[q] = run[q] \/ Quiet(run'[q])
  BY <1>3 DEF Quiet
<1>5. status' \in Statuses
  BY <1>2, TypeFacts DEF Statuses
<1>6. TypeOK'
  BY <1>2, <1>3, <1>5, TypeFacts DEF TypeOK, RunRecords, Entries, input
<1>7. Unresolved' = Unresolved
  BY <1>2 DEF Unresolved
<1> QED
  BY <1>2, <1>4, <1>6, <1>7, QuietStep DEF ReadyMeansReviewed

LEMMA CandidateFacts ==
    ASSUME TypeOK, NEW n \in Nodes, NEW i \in Candidates(n)
    PROVE  i \in Ids /\ prod[i] # "absent" /\ EntityOf(i) = entity[n]
BY DEF Candidates, Present

LEMMA MatchFacts ==
    ASSUME TypeOK, NEW match \in [Nodes -> Present \cup {NoId}],
           \A n \in Nodes : match[n] \in (IF n \in Staging THEN Matches(n) ELSE {NoId})
    PROVE  /\ \A n \in Nodes : match[n] # NoId =>
                 match[n] \in Ids /\ prod[match[n]] # "absent" /\ EntityOf(match[n]) = entity[n]
           /\ \A n \in Claims(match) : n \in byName \cap Staging /\ match[n] # NoId
<1>1. ASSUME NEW n \in Nodes, match[n] # NoId
      PROVE  match[n] \in Candidates(n)
  BY <1>1 DEF Matches
<1>2. ASSUME NEW n \in Claims(match)
      PROVE  n \in byName \cap Staging /\ match[n] # NoId
  <2>1. n \in byName \cap Staging /\ Cardinality(Candidates(n)) = 1
    BY DEF Claims, Confident
  <2>2. n \in Nodes
    BY <2>1 DEF Staging
  <2>3. match[n] \in Candidates(n)
    BY <2>1, <2>2 DEF Matches
  <2> QED
    BY <2>1, <2>2, <2>3, CandidateFacts, IdValues
<1> QED
  BY <1>1, <1>2, CandidateFacts

LEMMA RunUpdate ==
    ASSUME run \in [Runs -> RunRecords], NEW r \in Runs, NEW a, NEW b, NEW c, NEW d
    PROVE  [run EXCEPT ![r].pc = a, ![r].id = b, ![r].against = c, ![r].theirs = d]
              = [run EXCEPT ![r] = [run[r] EXCEPT !.pc = a, !.id = b, !.against = c, !.theirs = d]]
OBVIOUS

LEMMA MapKeeps == ASSUME SessionInv, NEW r \in Runs, Map(r) PROVE SessionInv'
<1> USE DEF SessionInv
<1> DEFINE Differs(match) == {n \in Compared(match) : prod[match[n]] # "staging"}
           Against(match) == [n \in Nodes |-> IF n \in Differs(match) THEN match[n] ELSE NoId]
           Theirs(match)  == [n \in Nodes |-> IF n \in Differs(match) THEN prod[match[n]] ELSE "absent"]
           After(match)   == [run[r] EXCEPT !.pc = "classify", !.id = IdsAfter(match),
                                            !.against = Against(match), !.theirs = Theirs(match)]
<1>1. PICK match \in [Nodes -> Present \cup {NoId}] :
        /\ \A n \in Nodes : match[n] \in (IF n \in Staging THEN Matches(n) ELSE {NoId})
        /\ run' = [run EXCEPT ![r] = After(match)]
  <2>1. PICK match \in [Nodes -> Present \cup {NoId}] :
          /\ \A n \in Nodes : match[n] \in (IF n \in Staging THEN Matches(n) ELSE {NoId})
          /\ run' = [run EXCEPT ![r].pc = "classify", ![r].id = IdsAfter(match),
                                ![r].against = Against(match), ![r].theirs = Theirs(match)]
    BY DEF Map
  <2>2. run' = [run EXCEPT ![r] = After(match)]
    <3> HIDE DEF Against, Theirs
    <3> QED
      BY <2>1, RunUpdate, TypeFacts
  <2> QED
    BY <2>1, <2>2
<1>2. UNCHANGED <<input, staged, status, logs, prod, faults>>
  BY DEF Map
<1>3. /\ run \in [Runs -> RunRecords] /\ prod \in [Ids -> Vals] /\ entity \in [Nodes -> Nodes]
      /\ Staging \subseteq Nodes
  BY TypeFacts DEF Staging
<1>4. \A n \in Nodes : match[n] # NoId =>
         match[n] \in Ids /\ prod[match[n]] # "absent" /\ EntityOf(match[n]) = entity[n]
  BY <1>1, MatchFacts
<1>5. \A n \in Claims(match) : n \in byName \cap Staging /\ match[n] # NoId
  BY <1>1, MatchFacts
<1>6. IdsAfter(match) \in [Nodes -> Ids \cup {NoId}]
  BY <1>3, <1>4, <1>5, IdValues DEF IdsAfter
<1>7. \A n \in Differs(match) : n \in Nodes /\ match[n] # NoId /\ prod[match[n]] # "staging"
  BY <1>3 DEF Compared
<1>8. Against(match) \in [Nodes -> Ids \cup {NoId}]
  BY <1>4, <1>7
<1>9. Theirs(match) \in [Nodes -> Vals]
  BY <1>3, <1>4, <1>7 DEF Vals
<1>10. /\ After(match) \in RunRecords
       /\ After(match).pc = "classify" /\ After(match).id = IdsAfter(match)
       /\ After(match).against = Against(match) /\ After(match).theirs = Theirs(match)
  <2>1. run[r] \in RunRecords
    BY <1>3
  <2> HIDE DEF Against, Theirs
  <2> QED
    BY <1>6, <1>8, <1>9, <2>1, PCNames DEF RunRecords
<1> HIDE DEF After
<1>11. run'[r] = After(match) /\ run' \in [Runs -> RunRecords] /\ \A q \in Runs \ {r} : run'[q] = run[q]
  BY <1>1, <1>3, <1>10
<1>12. TypeOK'
  BY <1>2, <1>11, TypeFacts DEF TypeOK, RunRecords, Entries, input
<1>13. Mapped(After(match))
  <2> SUFFICES ASSUME NEW n \in Nodes
               PROVE  /\ n \in Staging => /\ IdsAfter(match)[n] \in Ids
                                          /\ EntityOf(IdsAfter(match)[n]) = entity[n]
                      /\ IdsAfter(match)[n].kind = "prod" => ~Weak(IdsAfter(match)[n].of)
                      /\ Against(match)[n] # NoId =>
                            /\ EntityOf(Against(match)[n]) = entity[n]
                            /\ Theirs(match)[n] \in {"prod", "llm"}
    BY <1>10 DEF Mapped
  <2>0. Against(match)[n] # NoId =>
           EntityOf(Against(match)[n]) = entity[n] /\ Theirs(match)[n] \in {"prod", "llm"}
    <3> SUFFICES ASSUME Against(match)[n] # NoId
                 PROVE  EntityOf(Against(match)[n]) = entity[n] /\ Theirs(match)[n] \in {"prod", "llm"}
      OBVIOUS
    <3>1. n \in Differs(match) /\ Against(match)[n] = match[n] /\ Theirs(match)[n] = prod[match[n]]
      OBVIOUS
    <3>2. prod[match[n]] \in Vals /\ prod[match[n]] # "absent" /\ prod[match[n]] # "staging"
      BY <1>3, <1>4, <1>7, <3>1
    <3> QED
      BY <1>4, <1>7, <3>1, <3>2 DEF Vals
  <2>1. CASE n \in Claims(match)
    <3>1. IdsAfter(match)[n] = match[n] /\ n \in byName
      BY <1>5, <2>1 DEF IdsAfter
    <3>2. match[n] \in Ids /\ EntityOf(match[n]) = entity[n]
      BY <1>4, <1>5, <2>1
    <3>3. match[n].kind = "prod" => ~Weak(match[n].of)
      BY <3>1, <3>2, ProdIds DEF Weak
    <3> QED
      BY <2>0, <3>1, <3>2, <3>3
  <2>2. CASE n \in Staging \ Claims(match)
    <3>1. IdsAfter(match)[n] = StagingId(n)
      BY <2>2 DEF IdsAfter
    <3> QED
      BY <2>0, <3>1, IdValues
  <2>3. CASE n \notin Staging
    <3>1. IdsAfter(match)[n] = NoId
      BY <1>5, <2>3 DEF IdsAfter
    <3> QED
      BY <2>0, <2>3, <3>1, IdValues
  <2> QED
    BY <2>1, <2>2, <2>3
<1>14. RunsKnow'
  <2> SUFFICES ASSUME NEW q \in Runs
               PROVE  Mapped(run[q])' /\ Writing(run[q])'
    BY DEF RunsKnow
  <2>1. CASE q # r
    BY <1>2, <1>11, <2>1, KnowledgeKept, TypeFacts DEF RunsKnow
  <2>2. CASE q = r
    <3>1. run'[q] = After(match) /\ After(match).pc = "classify"
      BY <1>10, <1>11, <2>2
    <3>2. Writing(run[q])'
      BY <3>1 DEF Writing
    <3>3. Mapped(run[q])'
      BY <1>2, <1>13, <3>1 DEF Mapped, Weak, EntityOf, Staging, input
    <3> QED
      BY <3>2, <3>3
  <2> QED
    BY <2>1, <2>2
<1>15. CompletedMeansStored' /\ ReadyMeansReviewed' /\ WeakMatchesKeepProduction'
  BY <1>2 DEF CompletedMeansStored, Stored, EntityOf, ReadyMeansReviewed, Unresolved,
              WeakMatchesKeepProduction, input
<1> QED
  BY <1>12, <1>14, <1>15

-----------------------------------------------------------------------------
(* Review *)

LEMMA LogsType ==
    ASSUME TypeOK, NEW r \in Runs, NEW review \in SUBSET Conflicts(r),
           NEW auto \in SUBSET (Conflicts(r) \ review), NEW saved \in SavedUpTo(review, auto)
    PROVE  LogsOf(r, saved, review) \subseteq Log
<1>1. saved \subseteq review \cup auto
  BY DEF SavedUpTo, SaveOrder
<1>2. run[r] \in RunRecords
  BY TypeFacts
<1>3. ASSUME NEW n \in saved
      PROVE  n \in Nodes /\ run[r].against[n] \in Ids /\ run[r].attempt \in 1..(Retries + 1)
  BY <1>1, <1>2 DEF Conflicts, RunRecords
<1>4. ASSUME NEW n \in saved, NEW b \in BOOLEAN
      PROVE  [run |-> r, attempt |-> run[r].attempt, node |-> n, to |-> run[r].against[n],
              review |-> b, val |-> "staging"] \in Log
  BY <1>3 DEF Log
<1>5. \A n \in saved : (n \in review) \in BOOLEAN
  OBVIOUS
<1> QED
  BY <1>4, <1>5 DEF LogsOf

LEMMA ReviewKeeps ==
    ASSUME SessionInv, NEW r \in Runs, NEW review \in SUBSET Conflicts(r),
           NEW auto \in SUBSET (Conflicts(r) \ review), Review(r, review, auto), UNCHANGED <<input, prod>>
    PROVE  SessionInv'
<1> USE DEF SessionInv
<1>1. PICK saved \in SavedUpTo(review, auto) :
        /\ logs' = logs \cup LogsOf(r, saved, review)
        /\ \/ status' = "human_review" /\ Done(r) /\ UNCHANGED <<staged, faults>>
           \/ AttemptFails(r, "human_review") /\ UNCHANGED staged
           \/ /\ Fault /\ run' = Restart
              /\ staged' = (staged /\ stagingDb) /\ status' = "human_review"
  BY DEF Review
<1>2. logs' \subseteq Log
  BY <1>1, LogsType, TypeFacts
<1>3. /\ run' \in [Runs -> RunRecords] /\ faults' \in 0..MaxFaults
      /\ status' \in {"human_review", "failed"} /\ staged' \in {staged, FALSE}
      /\ \A q \in Runs : run'[q] = run[q] \/ Quiet(run'[q])
  <2>1. CASE status' = "human_review" /\ Done(r) /\ UNCHANGED <<staged, faults>>
    BY <2>1, DoneType, TypeFacts
  <2>2. CASE AttemptFails(r, "human_review") /\ UNCHANGED staged
    <3>1. "human_review" \in Statuses
      BY DEF Statuses
    <3> QED
      BY <2>2, <3>1, FailsType
  <2>3. CASE /\ Fault /\ run' = Restart
             /\ staged' = (staged /\ stagingDb) /\ status' = "human_review"
    BY <2>3, RestartType, FaultType, TypeFacts
  <2> QED
    BY <1>1, <2>1, <2>2, <2>3
<1>4. TypeOK'
  BY <1>2, <1>3, TypeFacts DEF TypeOK, RunRecords, Entries, input, Statuses
<1> QED
  BY <1>3, <1>4, QuietStep

-----------------------------------------------------------------------------
(* Production *)

LEMMA WriteType ==
    ASSUME run \in [Runs -> RunRecords], NEW r \in Runs, NEW pc \in PCs,
           NEW graph \in SUBSET Entries, Write(r, pc, graph)
    PROVE  /\ run' \in [Runs -> RunRecords]
           /\ run'[r].pc = pc /\ run'[r].todo = graph
           /\ \A q \in Runs \ {r} : run'[q] = run[q]
<1> DEFINE R == [Idle EXCEPT !.pc = pc, !.todo = graph, !.api = run[r].api, !.attempt = run[r].attempt]
<1>1. run[r].api \in BOOLEAN /\ run[r].attempt \in 1..(Retries + 1)
  BY DEF RunRecords
<1>2. R \in RunRecords
  BY <1>1, IdleType DEF RunRecords
<1>3. R.pc = pc /\ R.todo = graph
  BY IdleType DEF RunRecords
<1>4. run' = [run EXCEPT ![r] = R]
  BY DEF Write
<1> QED
  BY <1>2, <1>3, <1>4

\* What an automatic merge writes: a node for every staging entity, and staging's
\* value only under staging ids and those of nodes matched by name.
LEMMA MergedFacts ==
    ASSUME TypeOK, NEW r \in Runs, Mapped(run[r]), run[r].pc = "classify",
           NEW auto \in SUBSET Conflicts(r), NEW corrected \in SUBSET auto
    PROVE  /\ MergedGraph(r, auto, corrected) \subseteq Entries
           /\ \A w \in MergedGraph(r, auto, corrected) :
                 w.id.kind = "prod" /\ Weak(w.id.of) => w.val # "staging"
           /\ \A n \in Staging : \E w \in MergedGraph(r, auto, corrected) : EntityOf(w.id) = entity[n]
<1> DEFINE merged(k) == {n \in auto : run[r].id[k] = StagingId(n)}
           idOf(k)   == IF merged(k) = {} THEN run[r].id[k] ELSE run[r].against[Min(merged(k))]
           valOf(k)  == IF merged(k) = {} THEN "staging" ELSE AutoValue(r, Min(merged(k)), corrected)
           kept      == {k \in Staging : \A j \in Staging : j < k => idOf(j) # idOf(k)}
<1>1. MergedGraph(r, auto, corrected) =
         {[id |-> idOf(k), val |-> valOf(k)] : k \in kept}
            \cup {[id |-> OldId(n, r), val |-> run[r].theirs[n]] : n \in auto \cap corrected}
  BY DEF MergedGraph
<1>2. Staging \subseteq Nodes /\ auto \subseteq Nodes /\ run[r] \in RunRecords
  BY TypeFacts DEF Staging, Conflicts
<1>3. ASSUME NEW n \in auto
      PROVE  /\ run[r].against[n] \in Ids /\ EntityOf(run[r].against[n]) = entity[n]
             /\ run[r].theirs[n] \in {"prod", "llm"} /\ AutoValue(r, n, corrected) \in {"prod", "llm"}
  BY <1>2 DEF Conflicts, Mapped, RunRecords, AutoValue
<1>4. ASSUME NEW k \in Staging, merged(k) # {}
      PROVE  Min(merged(k)) \in auto /\ run[r].id[k] = StagingId(Min(merged(k)))
  <2>1. Min(merged(k)) \in merged(k)
    BY <1>2, <1>4, LeastNode
  <2> QED
    BY <2>1
<1>5. ASSUME NEW k \in Staging
      PROVE  /\ idOf(k) \in Ids /\ EntityOf(idOf(k)) = entity[k]
             /\ valOf(k) \in Vals \ {"absent"}
             /\ idOf(k).kind = "prod" /\ Weak(idOf(k).of) => valOf(k) # "staging"
  <2>1. /\ k \in Nodes /\ run[r].id[k] \in Ids /\ EntityOf(run[r].id[k]) = entity[k]
        /\ run[r].id[k].kind = "prod" => ~Weak(run[r].id[k].of)
    BY <1>2 DEF Mapped
  <2>2. CASE merged(k) = {}
    BY <2>1, <2>2 DEF Vals
  <2>3. CASE merged(k) # {}
    <3>1. PICK m \in auto : m = Min(merged(k)) /\ run[r].id[k] = StagingId(m)
      BY <1>4, <2>3
    <3>2. idOf(k) = run[r].against[m] /\ valOf(k) = AutoValue(r, m, corrected)
      BY <2>3, <3>1
    <3>3. entity[m] = entity[k]
      BY <1>2, <2>1, <3>1, IdValues
    <3> HIDE DEF idOf, valOf
    <3> QED
      BY <1>3, <3>2, <3>3 DEF Vals
  <2> QED
    BY <2>2, <2>3
<1>6. ASSUME NEW n \in Staging
      PROVE  \E k \in kept : idOf(k) = idOf(n)
  <2> HIDE DEF idOf
  <2> DEFINE T == {k \in Staging : idOf(k) = idOf(n)}
  <2>1. T \in SUBSET Nodes /\ n \in T
    BY <1>2
  <2>2. PICK k \in T : \A j \in T : k <= j
    BY <2>1, LeastNode
  <2>3. \A j \in Staging : j < k => idOf(j) # idOf(k)
    <3>1. \A j \in T : ~(j < k)
      <4> HIDE DEF T
      <4>1. T \subseteq Nat
        BY <2>1, NodesAreNumbers
      <4> QED
        BY <2>2, <4>1
    <3> QED
      BY <2>2, <3>1
  <2> QED
    BY <2>2, <2>3
<1> HIDE DEF merged, idOf, valOf
<1>7. ASSUME NEW n \in auto
      PROVE  /\ [id |-> OldId(n, r), val |-> run[r].theirs[n]] \in Entries
             /\ OldId(n, r).kind = "old"
  BY <1>2, <1>3, IdValues DEF Entries, Vals
<1>8. \A k \in kept : k \in Staging
  OBVIOUS
<1> HIDE DEF kept
<1>9. MergedGraph(r, auto, corrected) \subseteq Entries
  BY <1>1, <1>5, <1>7, <1>8 DEF Entries
<1>10. ASSUME NEW w \in MergedGraph(r, auto, corrected), w.id.kind = "prod", Weak(w.id.of)
       PROVE  w.val # "staging"
  <2>1. CASE \E k \in kept : w = [id |-> idOf(k), val |-> valOf(k)]
    <3>1. PICK k \in kept : w = [id |-> idOf(k), val |-> valOf(k)]
      BY <2>1
    <3>2. w.id = idOf(k) /\ w.val = valOf(k)
      BY <3>1
    <3> QED
      BY <1>5, <1>8, <1>10, <3>2
  <2>2. CASE \E n \in auto : w = [id |-> OldId(n, r), val |-> run[r].theirs[n]]
    <3>1. PICK n \in auto : w = [id |-> OldId(n, r), val |-> run[r].theirs[n]]
      BY <2>2
    <3>2. w.id = OldId(n, r)
      BY <3>1
    <3> QED
      BY <1>7, <1>10, <3>2
  <2> QED
    BY <1>1, <2>1, <2>2
<1>11. ASSUME NEW n \in Staging
       PROVE  \E w \in MergedGraph(r, auto, corrected) : EntityOf(w.id) = entity[n]
  <2>1. PICK k \in kept : idOf(k) = idOf(n)
    BY <1>6
  <2>2. [id |-> idOf(k), val |-> valOf(k)] \in MergedGraph(r, auto, corrected)
    BY <1>1
  <2>3. [id |-> idOf(k), val |-> valOf(k)].id = idOf(k)
    OBVIOUS
  <2>4. EntityOf(idOf(k)) = entity[n]
    BY <1>5, <2>1
  <2> QED
    BY <2>2, <2>3, <2>4
<1> QED
  BY <1>9, <1>10, <1>11

\* A run that begins to write, of a graph with a node for every staging entity.
LEMMA WriteKeeps ==
    ASSUME SessionInv, NEW r \in Runs, NEW pc \in {"write", "writeReviewed"},
           NEW graph \in SUBSET Entries, Write(r, pc, graph),
           \A w \in graph : w.id.kind = "prod" /\ Weak(w.id.of) => w.val # "staging",
           \A n \in Staging : \E w \in graph : EntityOf(w.id) = entity[n],
           UNCHANGED <<input, staged, logs, prod, faults>>,
           status' \in {status, "merge_in_progress"}
    PROVE  SessionInv'
<1> USE DEF SessionInv
<1>1. /\ run' \in [Runs -> RunRecords] /\ run'[r].pc = pc /\ run'[r].todo = graph
      /\ \A q \in Runs \ {r} : run'[q] = run[q]
  BY WriteType, TypeFacts, PCNames
<1>2. status' \in Statuses
  BY TypeFacts DEF Statuses
<1>3. TypeOK'
  BY <1>1, <1>2, TypeFacts DEF TypeOK, RunRecords, Entries, input
<1>4. RunsKnow'
  <2> SUFFICES ASSUME NEW q \in Runs
               PROVE  Mapped(run[q])' /\ Writing(run[q])'
    BY DEF RunsKnow
  <2>1. CASE q # r
    BY <1>1, <2>1, KnowledgeKept, TypeFacts DEF RunsKnow
  <2>2. CASE q = r
    <3>1. Mapped(run[q])'
      BY <1>1, <2>2 DEF Mapped
    <3>2. staged => \A n \in Nodes : \E w \in graph : EntityOf(w.id) = entity[n]
      BY DEF Staging
    <3>3. Writing(run[q])'
      BY <1>1, <2>2, <3>2 DEF Writing, Weak, EntityOf, input
    <3> QED
      BY <3>1, <3>3
  <2> QED
    BY <2>1, <2>2
<1>5. CompletedMeansStored' /\ ReadyMeansReviewed' /\ WeakMatchesKeepProduction'
  BY DEF CompletedMeansStored, Stored, EntityOf, ReadyMeansReviewed, Unresolved,
         WeakMatchesKeepProduction, input
<1> QED
  BY <1>3, <1>4, <1>5

LEMMA ClassifyKeeps == ASSUME SessionInv, NEW r \in Runs, Classify(r) PROVE SessionInv'
<1>1. PICK review \in SUBSET Conflicts(r) : \E auto \in SUBSET (Conflicts(r) \ review) :
        \/ review # {} /\ Review(r, review, auto)
        \/ /\ review = {}
           /\ \E corrected \in SUBSET auto :
                \/ /\ status' = "merge_in_progress"
                   /\ Write(r, "write", MergedGraph(r, auto, corrected))
                   /\ UNCHANGED faults
                \/ AttemptFails(r, "auto_resolve")
           /\ UNCHANGED <<logs, staged>>
  BY DEF Classify
<1>2. PICK auto \in SUBSET (Conflicts(r) \ review) :
        \/ review # {} /\ Review(r, review, auto)
        \/ /\ review = {}
           /\ \E corrected \in SUBSET auto :
                \/ /\ status' = "merge_in_progress"
                   /\ Write(r, "write", MergedGraph(r, auto, corrected))
                   /\ UNCHANGED faults
                \/ AttemptFails(r, "auto_resolve")
           /\ UNCHANGED <<logs, staged>>
  BY <1>1
<1>3. UNCHANGED <<input, prod>> /\ run[r].pc = "classify"
  BY DEF Classify
<1>4. CASE Review(r, review, auto)
  BY <1>3, <1>4, ReviewKeeps
<1>5. ASSUME NEW corrected \in SUBSET auto, status' = "merge_in_progress",
             Write(r, "write", MergedGraph(r, auto, corrected)), UNCHANGED <<faults, logs, staged>>
      PROVE  SessionInv'
  <2>1. Mapped(run[r]) /\ TypeOK /\ auto \in SUBSET Conflicts(r)
    BY DEF SessionInv, RunsKnow
  <2>2. /\ MergedGraph(r, auto, corrected) \subseteq Entries
        /\ \A w \in MergedGraph(r, auto, corrected) :
              w.id.kind = "prod" /\ Weak(w.id.of) => w.val # "staging"
        /\ \A n \in Staging : \E w \in MergedGraph(r, auto, corrected) : EntityOf(w.id) = entity[n]
    BY <1>3, <2>1, MergedFacts
  <2> QED
    BY <1>3, <1>5, <2>2, WriteKeeps
<1>6. CASE AttemptFails(r, "auto_resolve") /\ UNCHANGED <<logs, staged>>
  <2>1. "auto_resolve" \in Statuses /\ TypeOK
    BY DEF Statuses, SessionInv
  <2>2. /\ run' \in [Runs -> RunRecords] /\ faults' \in 0..MaxFaults
        /\ status' \in {"auto_resolve", "failed"}
        /\ \A q \in Runs : run'[q] = run[q] \/ Quiet(run'[q])
    BY <1>6, <2>1, FailsType
  <2>3. TypeOK'
    BY <1>3, <1>6, <2>1, <2>2, TypeFacts DEF TypeOK, RunRecords, Entries, input, Statuses
  <2> QED
    BY <1>3, <1>6, <2>2, <2>3, QuietStep
<1> QED
  BY <1>2, <1>4, <1>5, <1>6

LEMMA CompleteMergeKeeps == ASSUME SessionInv, NEW r \in Runs, CompleteMerge(r) PROVE SessionInv'
<1> DEFINE graph == {[id |-> StagingId(n), val |-> "staging"] : n \in Staging}
<1>1. Write(r, "writeReviewed", graph) /\ UNCHANGED <<input, staged, status, logs, prod, faults>>
  BY DEF CompleteMerge
<1>2. \A n \in Staging : n \in Nodes
  BY DEF Staging
<1>3. \A w \in graph : \E n \in Nodes : w.id = StagingId(n) /\ w \in Entries
  BY <1>2, IdValues DEF Entries, Vals
<1>4. graph \in SUBSET Entries
  BY <1>3
<1>5. \A w \in graph : w.id.kind # "prod"
  BY <1>3, IdValues
<1>6. ASSUME NEW n \in Staging
      PROVE  \E w \in graph : EntityOf(w.id) = entity[n]
  <2>1. [id |-> StagingId(n), val |-> "staging"] \in graph
    OBVIOUS
  <2>2. EntityOf([id |-> StagingId(n), val |-> "staging"].id) = entity[n]
    BY <1>2, IdValues
  <2> QED
    BY <2>1, <2>2
<1> HIDE DEF graph
<1> QED
  BY <1>1, <1>4, <1>5, <1>6, WriteKeeps

LEMMA WriteNodeKeeps == ASSUME SessionInv, NEW r \in Runs, WriteNode(r) PROVE SessionInv'
<1> USE DEF SessionInv
<1>1. PICK w \in run[r].todo :
        /\ prod' = [prod EXCEPT ![w.id] = w.val]
        /\ run' = [run EXCEPT ![r].todo = @ \ {w}]
  BY DEF WriteNode
<1>2. run[r].pc \in {"write", "writeReviewed"} /\ UNCHANGED <<input, staged, status, logs, faults>>
  BY DEF WriteNode
<1>3. run[r] \in RunRecords /\ prod \in [Ids -> Vals] /\ run \in [Runs -> RunRecords]
  BY TypeFacts
<1>4. w.id \in Ids /\ w.val \in Vals \ {"absent"} /\ run[r].todo \subseteq Entries
  BY <1>3 DEF RunRecords, Entries
<1>5. prod' \in [Ids -> Vals] /\ \A i \in Ids : prod[i] # "absent" => prod'[i] # "absent"
  BY <1>1, <1>3, <1>4
<1>6. /\ run' \in [Runs -> RunRecords] /\ \A q \in Runs \ {r} : run'[q] = run[q]
      /\ run'[r].pc = run[r].pc /\ run'[r].todo = run[r].todo \ {w}
  <2>1. [run[r] EXCEPT !.todo = run[r].todo \ {w}] \in RunRecords
    BY <1>3, <1>4 DEF RunRecords
  <2>2. /\ [run[r] EXCEPT !.todo = run[r].todo \ {w}].pc = run[r].pc
        /\ [run[r] EXCEPT !.todo = run[r].todo \ {w}].todo = run[r].todo \ {w}
    BY <1>3 DEF RunRecords
  <2>3. run' = [run EXCEPT ![r] = [run[r] EXCEPT !.todo = run[r].todo \ {w}]]
    BY <1>1
  <2> QED
    BY <1>3, <2>1, <2>2, <2>3
<1>7. TypeOK'
  BY <1>2, <1>5, <1>6, TypeFacts DEF TypeOK, RunRecords, Entries, input
<1>8. RunsKnow'
  <2> SUFFICES ASSUME NEW q \in Runs
               PROVE  Mapped(run[q])' /\ Writing(run[q])'
    BY DEF RunsKnow
  <2>1. CASE q # r
    BY <1>2, <1>5, <1>6, <2>1, KnowledgeKept, TypeFacts DEF RunsKnow
  <2>2. CASE q = r
    <3>1. Mapped(run[q])'
      BY <1>2, <1>6, <2>2 DEF Mapped
    <3>2. Writing(run[r])
      BY DEF RunsKnow
    <3>3. \A v \in run'[r].todo : v.id.kind = "prod" /\ Weak(v.id.of) => v.val # "staging"
      BY <1>2, <1>6, <3>2 DEF Writing
    <3>4. \A n \in Nodes : EntityOf(w.id) = entity[n] => Stored(n)'
      BY <1>1, <1>2, <1>3, <1>4 DEF Stored, EntityOf, input
    <3>5. \A n \in Nodes : Stored(n) => Stored(n)'
      BY <1>2, <1>5, StoredStays
    <3>6. staged => \A n \in Nodes : Stored(n)' \/ \E v \in run'[r].todo : EntityOf(v.id) = entity[n]
      BY <1>2, <1>6, <3>2, <3>4, <3>5 DEF Writing
    <3>7. Writing(run[q])'
      BY <1>2, <2>2, <3>3, <3>6 DEF Writing, Weak, EntityOf, input
    <3> QED
      BY <3>1, <3>7
  <2> QED
    BY <2>1, <2>2
<1>9. CompletedMeansStored'
  BY <1>2, <1>5, StoredStays DEF CompletedMeansStored
<1>10. ReadyMeansReviewed'
  BY <1>2 DEF ReadyMeansReviewed, Unresolved
<1>11. WeakMatchesKeepProduction'
  <2> SUFFICES ASSUME NEW e \in Nodes, Weak(e)
               PROVE  prod'[ProdId(e)] # "staging"
    BY <1>2 DEF WeakMatchesKeepProduction, Weak, input
  <2>1. prod[ProdId(e)] # "staging"
    BY DEF WeakMatchesKeepProduction, Weak
  <2>2. w.id = ProdId(e) => w.val # "staging"
    BY <1>2, IdValues DEF RunsKnow, Writing
  <2> QED
    BY <1>1, <1>3, <1>4, <2>1, <2>2, IdValues
<1> QED
  BY <1>7, <1>8, <1>9, <1>10, <1>11

LEMMA FinishKeeps == ASSUME SessionInv, NEW r \in Runs, Finish(r) PROVE SessionInv'
<1> USE DEF SessionInv
<1>1. /\ run[r].pc \in {"write", "writeReviewed"} /\ run[r].todo = {}
      /\ status' = "completed" /\ Done(r)
      /\ UNCHANGED <<input, staged, logs, prod, faults>>
  BY DEF Finish
<1>2. run' \in [Runs -> RunRecords] /\ \A q \in Runs : run'[q] = run[q] \/ Quiet(run'[q])
  BY <1>1, DoneType, TypeFacts
<1>3. TypeOK'
  BY <1>1, <1>2, TypeFacts DEF TypeOK, RunRecords, Entries, input, Statuses
<1>4. RunsKnow'
  BY <1>1, <1>2, KnowledgeKept, QuietKnows, TypeFacts DEF RunsKnow
<1>5. CompletedMeansStored'
  <2>1. staged => \A n \in Nodes : Stored(n)
    BY <1>1 DEF RunsKnow, Writing
  <2> QED
    BY <1>1, <2>1, StoredStays DEF CompletedMeansStored
<1>6. ReadyMeansReviewed' /\ WeakMatchesKeepProduction'
  BY <1>1 DEF ReadyMeansReviewed, WeakMatchesKeepProduction, input
<1> QED
  BY <1>3, <1>4, <1>5, <1>6

-----------------------------------------------------------------------------
(* Results *)

LEMMA SessionNext == SessionInv /\ [Next]_vars => SessionInv'
<1> SUFFICES ASSUME SessionInv, [Next]_vars
             PROVE  SessionInv'
  OBVIOUS
<1>1. CASE UNCHANGED vars
  <2>1. TypeOK'
    BY <1>1, TypeFacts DEF vars, input, SessionInv, TypeOK, RunRecords, Entries
  <2>2. Unresolved' = Unresolved
    BY <1>1 DEF vars, Unresolved
  <2> QED
    BY <1>1, <2>1, <2>2, QuietStep DEF vars, SessionInv, ReadyMeansReviewed
<1> QED
  BY <1>1, StartKeeps, ResolveKeeps, CrashKeeps, RunFailsKeeps, ExtractKeeps, MapKeeps,
     ClassifyKeeps, CompleteMergeKeeps, WriteNodeKeeps, FinishKeeps DEF Next, RunStep

LEMMA SessionAlways == Spec => []SessionInv
BY InitKnows, SessionNext, PTL DEF Spec

\* The merge's row, logs, production and runs keep their types for any staging
\* graph, matches, runs and failures; in particular a run never writes a node
\* that has no id, nor a value it has not read.
THEOREM TypeCorrect == Spec => []TypeOK
<1>1. SessionInv => TypeOK
  BY DEF SessionInv
<1> QED
  BY <1>1, SessionAlways, PTL

\* A merge reported completed has stored every staging entity, for any number of
\* nodes and of overlapping, failing and restarted runs: what a run has not
\* stored yet it still has to write, and production loses nothing.
THEOREM CompletedIsStored == Spec => []CompletedMeansStored
<1>1. SessionInv => CompletedMeansStored
  BY DEF SessionInv
<1> QED
  BY <1>1, SessionAlways, PTL

\* However many conflicts are resolved, twice or while a run saves new ones, a
\* merge that is ready has none left to review.
THEOREM ReadyIsReviewed == Spec => []ReadyMeansReviewed
<1>1. SessionInv => ReadyMeansReviewed
  BY DEF SessionInv
<1> QED
  BY <1>1, SessionAlways, PTL

\* No run, of any number and in any order, writes staging's value over a node of
\* production that was not matched by name.
THEOREM WeakMatchesKeep == Spec => []WeakMatchesKeepProduction
<1>1. SessionInv => WeakMatchesKeepProduction
  BY DEF SessionInv
<1> QED
  BY <1>1, SessionAlways, PTL
=============================================================================
