---------------------------- MODULE MergeSession ----------------------------
(***************************************************************************)
(* One merge of a transform's staging graph into the production graph: the *)
(* merge_status row, the change logs a user resolves, the production       *)
(* store, and the runs of merge_flow that work on them.  start_merge puts  *)
(* a run into the background; the resolution that leaves no log to review  *)
(* awaits another one.  Runs are coroutines of one event loop: a step here *)
(* is what a run does between two awaits.  Its database calls are          *)
(* synchronous, so nothing comes in between them, but each may raise and   *)
(* the process may die anywhere.                                           *)
(*                                                                         *)
(* A staging node and the production nodes with its name or unique         *)
(* property are the same entity.  Of a node's properties one is kept, and  *)
(* of that one the writer: it stands for every property of the ontology.   *)
(* Edges and audit rows are left out.                                      *)
(***************************************************************************)
EXTENDS Integers, FiniteSets, FiniteSetsExt

CONSTANTS
    NumNodes,     \* nodes of the staging graph
    ByNames,      \* the sets of nodes to consider as matched by name
    NumRuns,      \* bound: runs of merge_flow
    Retries,      \* retries of merge_flow
    MaxFaults,    \* bound: calls that raise, and restarts of the server
    Decisions     \* what a resolution leaves in the log: props, or none (KEEP_BOTH)

Nodes == 1..NumNodes
Runs  == 1..NumRuns

ASSUME SizeAssumption ==
    /\ NumNodes \in Nat \ {0} /\ NumRuns \in Nat \ {0}
    /\ Retries \in Nat /\ MaxFaults \in Nat
    /\ ByNames \subseteq SUBSET Nodes
    /\ Decisions \subseteq {"human", "none"}

\* Ids of production nodes: a staging node's own, an original node's, and the
\* fresh one of the previous version that merging node `of' in a run keeps.
StagingId(n) == [kind |-> "staging", of |-> n, run |-> 0]
ProdId(e)    == [kind |-> "prod", of |-> e, run |-> 0]
OldId(n, r)  == [kind |-> "old", of |-> n, run |-> r]
NoId         == [kind |-> "none", of |-> 0, run |-> 0]

Ids == {StagingId(n) : n \in Nodes} \cup {ProdId(n) : n \in Nodes}
         \cup {OldId(n, r) : n \in Nodes, r \in Runs}

Vals == {"absent", "prod", "staging", "llm"}

Statuses == {"not_found", "started", "auto_resolve", "human_review",
             "ready_to_merge", "merge_in_progress", "completed", "failed"}

PCs == {"idle", "extract", "reconcile", "map", "classify", "write", "complete",
        "writeReviewed", "done", "failed", "lost"}

VARIABLES
    entity,     \* staging node -> what it is about: the first node about it
    byName,     \* nodes matched by name; the others have a unique property
    stagingDb,  \* the user has a staging database (else staging is in memory)
    staged,     \* the staging graph is there
    status,     \* merge_status.status; "not_found" while there is no row
    logs,       \* change_logs of the merge
    prod,       \* production node -> who wrote its property
    run,        \* the runs of merge_flow
    faults      \* calls that raised, and restarts, so far

input == <<entity, byName, stagingDb>>
vars  == <<input, staged, status, logs, prod, run, faults>>

Log == [run : Runs, attempt : 1..(Retries + 1), node : Nodes, to : Ids,
        review : BOOLEAN, val : {"staging"} \cup Decisions]

Idle == [pc |-> "idle", attempt |-> 1, api |-> FALSE,
         id |-> [n \in Nodes |-> NoId], against |-> [n \in Nodes |-> NoId],
         theirs |-> [n \in Nodes |-> "absent"], todo |-> {}]

TypeOK ==
    /\ entity \in [Nodes -> Nodes] /\ byName \in ByNames
    /\ {stagingDb, staged} \subseteq BOOLEAN
    /\ status \in Statuses
    /\ logs \subseteq Log
    /\ prod \in [Ids -> Vals]
    /\ run \in [Runs -> [pc : PCs, attempt : 1..(Retries + 1), api : BOOLEAN,
                         id : [Nodes -> Ids \cup {NoId}],
                         against : [Nodes -> Ids \cup {NoId}],
                         theirs : [Nodes -> Vals],
                         todo : SUBSET [id : Ids, val : Vals \ {"absent"}]]]
    /\ faults \in 0..MaxFaults

Init ==
    /\ entity \in {f \in [Nodes -> Nodes] : \A n \in Nodes : f[n] <= n /\ f[f[n]] = f[n]}
    /\ byName \in ByNames
    /\ stagingDb \in BOOLEAN /\ staged = TRUE
    /\ status = "not_found" /\ logs = {}
    /\ \E known \in SUBSET {entity[n] : n \in Nodes} :
          prod = [i \in Ids |-> IF i.kind = "prod" /\ i.of \in known THEN "prod" ELSE "absent"]
    /\ run = [r \in Runs |-> Idle]
    /\ faults = 0

EntityOf(i) == IF i.kind = "prod" THEN i.of ELSE entity[i.of]

Staging == IF staged THEN Nodes ELSE {}

Unresolved == {l \in logs : l.review}

\* The next run that has not been used yet.
Fresh(r) == run[r].pc = "idle" /\ \A q \in Runs : q < r => run[q].pc # "idle"

Goto(r, pc) == run' = [run EXCEPT ![r].pc = pc]

Ended(pc) == [Idle EXCEPT !.pc = pc]

Done(r) == run' = [run EXCEPT ![r] = Ended("done")]

-----------------------------------------------------------------------------
(* Failures *)

Fault == faults < MaxFaults /\ faults' = faults + 1

\* merge_flow raised with the row in status `fallback'.  Prefect runs the whole
\* flow again; the last time, only start_merge's wrapper marks the row, and an
\* UPDATE marks no row that is not there.
AttemptFails(r, fallback) ==
    /\ Fault
    /\ IF run[r].attempt <= Retries
       THEN run' = [run EXCEPT ![r] = [Idle EXCEPT !.pc = "extract", !.api = run[r].api,
                                                   !.attempt = run[r].attempt + 1]]
            /\ status' = fallback
       ELSE run' = [run EXCEPT ![r] = Ended("failed")]
            /\ status' = IF run[r].api /\ fallback # "not_found" THEN "failed" ELSE fallback

\* A store, a model call or a database write raises; in _complete_prod_merge
\* the row is marked before the exception goes on.
RunFails(r) ==
    /\ run[r].pc \in {"extract", "reconcile", "map", "classify", "write",
                      "complete", "writeReviewed"}
    /\ AttemptFails(r, IF run[r].pc \in {"complete", "writeReviewed"} THEN "failed" ELSE status)
    /\ UNCHANGED <<input, staged, logs, prod>>

\* The process dies: its runs are gone, and a staging graph held in memory with them.
Restart ==
    [r \in Runs |-> IF run[r].pc \in {"idle", "done", "failed"} THEN run[r]
                    ELSE Ended("lost")]

Crash ==
    /\ Fault
    /\ run' = Restart
    /\ staged' = (staged /\ stagingDb)
    /\ UNCHANGED <<input, status, logs, prod>>

-----------------------------------------------------------------------------
(* merge_flow: extraction and mapping *)

Begin(r, api) ==
    /\ Fresh(r)
    /\ run' = [run EXCEPT ![r].pc = "extract", ![r].api = api]

\* Nothing keeps a second run of the same merge from being started.
StartMerge(r) ==
    /\ Begin(r, TRUE)
    /\ UNCHANGED <<input, staged, status, logs, prod, faults>>

\* MUTATION of Extract: a run waits while another one is merging.
ExtractWhenQuiet(r) ==
    /\ run[r].pc = "extract" /\ status # "merge_in_progress"
    /\ Goto(r, CASE status = "ready_to_merge" -> "complete"
                 [] status = "completed"      -> "reconcile"
                 [] OTHER                     -> "map")
    /\ status' = IF status = "not_found" THEN "started" ELSE status
    /\ UNCHANGED <<input, staged, logs, prod, faults>>

\* The staging graph is read, then the row: a fresh merge gets one, a reviewed
\* merge is completed, a completed one reconciled; any other is mapped again.
Extract(r) ==
    /\ run[r].pc = "extract"
    /\ Goto(r, CASE status = "ready_to_merge" -> "complete"
                 [] status = "completed"      -> "reconcile"
                 [] OTHER                     -> "map")
    /\ status' = IF status = "not_found" THEN "started" ELSE status
    /\ UNCHANGED <<input, staged, logs, prod, faults>>

\* A re-merge reads what the merge has in production: of the nodes, ids equal to
\* the staging ids are kept, which changes nothing.
Reconcile(r) ==
    /\ run[r].pc = "reconcile"
    /\ status' = "started"
    /\ Goto(r, "map")
    /\ UNCHANGED <<input, staged, logs, prod, faults>>

\* Production nodes with the node's name or unique property.  Nodes closed as
\* previous versions are found with the rest.
Present == {i \in Ids : prod[i] # "absent"}
Candidates(n) == {i \in Present : EntityOf(i) = entity[n]}

\* A single candidate is the match; among several the model may choose one.
Matches(n) == IF Cardinality(Candidates(n)) = 1 THEN Candidates(n) ELSE Candidates(n) \cup {NoId}

\* match_confidence reaches MERGE_ID_CONFIDENCE_THRESHOLD: one node of that name.
\* A unique property counts as little as similarity does.
Confident == {n \in byName \cap Staging : Cardinality(Candidates(n)) = 1}

\* Of the confident matches with one production node the first claims it.
Claims(match) ==
    {n \in Confident : \A k \in Confident : match[k] = match[n] => n <= k}

\* _apply_id_reconciliation renames; only a match whose node still goes by its
\* staging id is then compared.
IdsAfter(match) ==
    [n \in Nodes |-> CASE n \notin Staging     -> NoId
                       [] n \in Claims(match)  -> match[n]
                       [] OTHER                -> StagingId(n)]

Compared(match) ==
    {n \in Staging : match[n] # NoId /\ \E k \in Staging : IdsAfter(match)[k] = StagingId(n)}

Map(r) ==
    /\ run[r].pc = "map"
    /\ \E match \in [Nodes -> Present \cup {NoId}] :
        LET differs == {n \in Compared(match) : prod[match[n]] # "staging"} IN
        /\ \A n \in Nodes : match[n] \in (IF n \in Staging THEN Matches(n) ELSE {NoId})
        /\ run' = [run EXCEPT
              ![r].pc      = "classify",
              ![r].id      = IdsAfter(match),
              ![r].against = [n \in Nodes |-> IF n \in differs THEN match[n] ELSE NoId],
              ![r].theirs  = [n \in Nodes |-> IF n \in differs THEN prod[match[n]] ELSE "absent"]]
    /\ UNCHANGED <<input, staged, status, logs, prod, faults>>

-----------------------------------------------------------------------------
(* merge_flow: review *)

Conflicts(r) == {n \in Nodes : run[r].against[n] # NoId}

\* The change logs of `review' are saved in order, then those of `auto'.
SaveOrder(review, auto, n) ==
    IF n \in review THEN {k \in review : k < n} ELSE review \cup {k \in auto : k < n}

SavedUpTo(review, auto) ==
    {SaveOrder(review, auto, n) : n \in review \cup auto} \cup {review \cup auto}

LogsOf(r, saved, review) ==
    {[run |-> r, attempt |-> run[r].attempt, node |-> n, to |-> run[r].against[n],
      review |-> n \in review, val |-> "staging"] : n \in saved}

\* Something needs a human: the row says so and the logs follow one by one.  A
\* save that raises leaves the logs before it, under ids no retry will use again.
Review(r, review, auto) ==
    \E saved \in SavedUpTo(review, auto) :
        /\ logs' = logs \cup LogsOf(r, saved, review)
        /\ \/ /\ saved = review \cup auto
              /\ status' = "human_review" /\ Done(r)
              /\ UNCHANGED <<staged, faults>>
           \/ /\ saved # review \cup auto
              /\ AttemptFails(r, "human_review")
              /\ UNCHANGED staged
           \/ /\ saved # review \cup auto
              /\ Fault /\ run' = Restart
              /\ staged' = (staged /\ stagingDb) /\ status' = "human_review"

\* MUTATIONS of AutoValue: production's value of the first node is taken for
\* every change; the staging value stays although the change is automatic.
AutoValueOfFirst(r, n, corrected) == IF n \in corrected THEN "llm" ELSE run[r].theirs[1]
AutoValueOfStaging(r, n, corrected) == IF n \in corrected THEN "llm" ELSE "staging"

\* _apply_corrections takes the second value of the change: the model's
\* correction, or what production has.
AutoValue(r, n, corrected) == IF n \in corrected THEN "llm" ELSE run[r].theirs[n]

\* The node that goes by n's staging id is written as the production node; one
\* whose property changed leaves its previous version behind.  Of nodes with
\* one id the first is kept.
MergedGraph(r, auto, corrected) ==
    LET merged(k) == {n \in auto : run[r].id[k] = StagingId(n)}
        idOf(k)   == IF merged(k) = {} THEN run[r].id[k] ELSE run[r].against[Min(merged(k))]
        kept      == {k \in Staging : \A j \in Staging : j < k => idOf(j) # idOf(k)}
    IN  {[id |-> idOf(k),
          val |-> IF merged(k) = {} THEN "staging" ELSE AutoValue(r, Min(merged(k)), corrected)] : k \in kept}
        \cup {[id |-> OldId(n, r), val |-> run[r].theirs[n]] : n \in auto \cap corrected}

\* The attempt goes on to _persist_to_prod with the graph.
Write(r, pc, graph) ==
    run' = [run EXCEPT ![r] = [Idle EXCEPT !.pc = pc, !.todo = graph, !.api = run[r].api,
                                           !.attempt = run[r].attempt]]

\* The model sorts the changes; one it does not mention is forgotten.
Classify(r) ==
    /\ run[r].pc = "classify"
    /\ \E review \in SUBSET Conflicts(r) : \E auto \in SUBSET (Conflicts(r) \ review) :
        \/ review # {} /\ Review(r, review, auto)
        \/ /\ review = {}
           /\ \E corrected \in SUBSET auto :
                \/ /\ status' = "merge_in_progress"
                   /\ Write(r, "write", MergedGraph(r, auto, corrected))
                   /\ UNCHANGED faults
                \/ AttemptFails(r, "auto_resolve")
           /\ UNCHANGED <<logs, staged>>
    /\ UNCHANGED <<input, prod>>

-----------------------------------------------------------------------------
(* merge_flow: production *)

\* The reviewed merge: the resolutions are applied to the staging graph, and its
\* copy, made before, is what goes to production, under the staging ids.
CompleteMerge(r) ==
    /\ run[r].pc = "complete"
    /\ Write(r, "writeReviewed", {[id |-> StagingId(n), val |-> "staging"] : n \in Staging})
    /\ UNCHANGED <<input, staged, status, logs, prod, faults>>

\* One batch of _persist_to_prod.  The staging query gives the nodes in any order.
WriteNode(r) ==
    /\ run[r].pc \in {"write", "writeReviewed"}
    /\ \E w \in run[r].todo :
        /\ prod' = [prod EXCEPT ![w.id] = w.val]
        /\ run' = [run EXCEPT ![r].todo = @ \ {w}]
    /\ UNCHANGED <<input, staged, status, logs, faults>>

\* MUTATION of Finish: a batch that was not stored is not noticed.
FinishUnchecked(r) ==
    /\ run[r].pc \in {"write", "writeReviewed"} /\ Cardinality(run[r].todo) <= 1
    /\ status' = "completed"
    /\ Done(r)
    /\ UNCHANGED <<input, staged, logs, prod, faults>>

Finish(r) ==
    /\ run[r].pc \in {"write", "writeReviewed"} /\ run[r].todo = {}
    /\ status' = "completed"
    /\ Done(r)
    /\ UNCHANGED <<input, staged, logs, prod, faults>>

-----------------------------------------------------------------------------
(* The user *)

Resolved(l, v) == (logs \ {l}) \cup {[l EXCEPT !.review = FALSE, !.val = v]}

\* MUTATION of Resolve: the logs left are counted before this one is taken off.
ResolveCountedFirst(l) ==
    \E v \in Decisions :
        /\ logs' = Resolved(l, v)
        /\ IF Cardinality(Unresolved) <= 1
           THEN /\ \E r \in Runs : Begin(r, FALSE)
                /\ status' = "ready_to_merge"
           ELSE UNCHANGED <<run, status>>
        /\ UNCHANGED <<input, staged, prod, faults>>

\* apply_resolution takes any log of the merge, resolved before or not.  KEEP_BOTH
\* stores no properties.  The last one to need review starts the completion.
Resolve(l) ==
    \E v \in Decisions :
        /\ logs' = Resolved(l, v)
        /\ IF Unresolved \ {l} = {}
           THEN /\ \E r \in Runs : Begin(r, FALSE)
                /\ status' = "ready_to_merge"
           ELSE UNCHANGED <<run, status>>
        /\ UNCHANGED <<input, staged, prod, faults>>

RunStep(r) ==
    \/ Extract(r) \/ Reconcile(r) \/ Map(r) \/ Classify(r)
    \/ CompleteMerge(r) \/ WriteNode(r) \/ Finish(r)
    \/ RunFails(r)

Next ==
    \/ \E r \in Runs : StartMerge(r) \/ RunStep(r)
    \/ \E l \in logs : Resolve(l)
    \/ Crash

\* The event loop goes on with every run: calls to stores and models return or
\* time out.  Nothing makes a user start a merge or resolve a conflict.
Spec == Init /\ [][Next]_vars /\ \A r \in Runs : WF_vars(RunStep(r))

-----------------------------------------------------------------------------
(* Properties *)

Stored(n) == \E i \in Ids : EntityOf(i) = entity[n] /\ prod[i] # "absent"

\* A merge reported completed has every staging entity in production, whatever
\* runs of it overlapped, failed half way or were started again; the exception is
\* a staging graph that a restart took away (then nothing is what gets merged).
CompletedMeansStored == (status = "completed" /\ staged) => \A n \in Nodes : Stored(n)

\* A merge is only ready when nothing is left to review, whatever a user resolves
\* twice, and although a run that has yet to save its conflicts may do so after
\* the resolution that made the merge ready: it marks the row first.
ReadyMeansReviewed == status = "ready_to_merge" => Unresolved = {}

\* A node of production is overwritten with staging's value only on a confident
\* match; whatever was matched by a unique property, by similarity or by the
\* model's choice keeps production's value or gets the model's correction.
WeakMatchesKeepProduction ==
    \A e \in Nodes :
        (\A n \in byName : entity[n] # e) => prod[ProdId(e)] # "staging"

\* Every run of the flow ends, in a result, in an error or with its process: it
\* never comes to stay that one is under way.
RunsEnd == []<>(\A r \in Runs : run[r].pc \in {"idle", "done", "failed", "lost"})

\* "Complete the production merge by applying all resolved conflicts": what a
\* user decided is in production when the merge is complete.
ResolutionsReachProduction ==
    status = "completed" =>
        \A l \in logs : l.val = "human" =>
            \E i \in Ids : EntityOf(i) = entity[l.node] /\ prod[i] = "human"
=============================================================================
