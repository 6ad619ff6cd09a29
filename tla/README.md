# TLA+ models of graphora-api

Graphora turns uploaded documents into a knowledge graph: a FastAPI server takes
the files, a flow (Prefect) parses, chunks and extracts them with an LLM and
stores nodes and relationships in Neo4j, Postgres/AGE or an in-memory store.
This directory models the parts of that program in which order, failure and
repetition decide whether data is lost: upload, flow, graph construction, the entity
ledger, storage and versioning, merge, disputed pairs, scenarios, cached schemas and the
budget gate. All paths below are under `src/graphora_server/`.

TLC checks every module on a small instance; TLAPS proves the theorems listed
under *Proofs* for every value of the constants.

## The system and its parts

| part | state it keeps | operations | what is hard about it | what makes it correct |
|---|---|---|---|---|
| upload API (`api/transform.py`) | `UPLOAD_DIR/<transform_id>/`, an audit row, the handler's locals | three upload routes, `cleanup_transform` | every `await` lets other uploads and flows run in the same directory; errors at any await; a status store that fails | a failing upload cleans up itself and nothing else; the documents of an accepted one stay until its flow ended |
| transform flow (`services/transform/flows.py`) | documents left at each stage, graphs, the error | PARSE, CHUNK, TRANSFORM, LOAD, quality gate, usage rows | documents drop out silently; an exception in any stage | a terminal status and the usage rows are the outcome; nothing is stored past the gate |
| progress tracker (`services/transform/progress_tracker.py`) | one JSON status per transform in Redis | start, complete, fail stage; cleanup | read–modify–write over two awaits; the cleanup request races it | the stage shown never goes back; terminal is the truth; a cleaned status stays away |
| storage task (`services/storage/tasks.py`) | ONE checkpoint per transform, in the backend | `store_knowledge_graph` for each graph, batch by batch | Prefect retries, partial batches, lost checkpoint writes, the adapter's second checkpoint, several graphs per transform | what the checkpoint skips is stored; nothing is left out; a node is not created more often than attempted; which backends find their checkpoint again |
| storage backends (`services/storage/*.py`) | nodes, edges, versions | `store_nodes`, `store_relationships`, status, read-back, queries | UNWIND groups, MATCH that silently finds nothing, one transaction per query | one open version per relationship and scope, between any two vertices; a closed version is history |
| audit service, usage tracking (`services/*`) | rows in Postgres | open and close rows | a write may fail and is swallowed | a row closes once, with the truth |
| budgets (`services/budget_service.py`, `api/budgets.py`) | one cap per user | set, delete, preflight gate | two reads with cap changes, recorded calls and the end of the month between them | admission had room, refusal had cause, a failed read refuses |
| merge (`services/merge/`, `api/merge.py`) | a status row, change logs, the production graph | start, map, compare, resolve, complete | several runs of one merge over one row and one store; runs that raise half way and are retried; human resolutions in between | complete means stored, ready means reviewed, only confident matches are overwritten, runs end |
| graph construction and extraction (`services/transform/graph_transformer.py`, `helpers.py`, `services/extraction/`) | the lists of nodes and relationships of one transform | extract, compare, resolve groups, relate, deduplicate, orphan pass, prune | positional ids that repeat, four mergers in a row, an LLM that answers with lists of its own | relationships keep ends, and the ends the text means; nothing extracted is lost; ids are unique |
| entity ledger (`services/entity_ledger_service.py`) | key → canonical id, per user | hydrate (exact, similar, reviewed), record | nothing is locked between lookup and record; links of links | one id per key; ids name entries that carry them |
| disputed pairs and merge learning (`services/disputed_pairs_service.py`, `services/merge/learning.py`) | a row per pair; a threshold per type, in memory | enqueue, label, hook, deduplicate | commit and hook are apart; repeated and concurrent labels; lost answers | a label counts once; every request is answered |
| graph editing (`services/graph_service.py`, `api/graph.py`) | none of its own | save a batch of edits | two implementations with different ids, scopes and updates | not modelled yet |
| scenarios (`services/scenario_service.py`) | a snapshot and one accumulated difference | create, edit, delete, resolved view | read, compute, write without a version | the view is the snapshot with its edits, and closed once it is edited |
| caches and stored schemas (`services/cache/`, `services/schema_storage_service.py`) | memory of each worker, Redis, a row | get, set, invalidate, write | reads that race writes, two tiers, several workers, swallowed errors | the owner sees his writes; others see what was public; stale entries die |
| claims, decision log, chat sessions | append-only rows | insert, read | little: nothing is changed | – |
| chunking, quality rules | none | text processing and predicates per value | boundaries from regular expressions | – |
| schema generation and search, entity resolution, MCP, AI/db config, auth, bench, dashboards | rows with one writer, or none | CRUD, LLM text, protocol adapters | little | – |

How they meet: the upload handler passes the gate, opens the audit row,
initialises the status, saves the files and hands the flow to the event loop as a
background task. The flow reads the files, calls the tracker at each stage and
the storage task once for each graph. The storage task calls a backend.
`cleanup_transform` may remove status and files at any time. LLM calls made by
flows and merges append the spend that the gate of later uploads reads.

`PROJECT.json` lists every component with its status, and every hazard at the
line where it bites.

## Modules

| module | models | theorems |
|---|---|---|
| `TransformUpload` | the upload routes, the background task seen from the disk, cleanup, a server restart | `TransformUploadProofs` |
| `TransformFlow` | one transform from PARSE to LOAD, tracker and usage rows | `TransformFlowProofs` |
| `LoadStage` | abstract: what the LOAD stage promises to the flow | – |
| `StorageTask` | `store_knowledge_graph` under Prefect retries, on three backends; implements `LoadStage` | `StorageTaskProofs` |
| `RelVersions` | edge versions written by `Neo4jStorage.store_relationships` | `RelVersionsProofs` |
| `GraphBuild` | both extraction paths, from mentions to the pruned graph | `TransformFlowProofs` |
| `EntityLedger` | lookup, similarity, review and record of canonical ids by overlapping transforms | `EntityLedgerProofs` |
| `PairLabels` | disputed pairs, labels, the threshold they move | `EntityLedgerProofs` |
| `MergeSession` | one merge: status, change logs, production and the runs that work on them | `MergeSessionProofs` |
| `Scenarios` | one scenario under concurrent edits; `_compute_diff` and its inverse | `ScenariosProofs` |
| `SchemaCache` | a stored schema behind the memory of each worker and Redis | `SchemaCacheProofs` |
| `BudgetGate` | the cap, the gate and the spend | `TransformUploadProofs` |
| `MC...` | the instances TLC checks | – |

Two proof modules extend two components each: the gate stands in front of the upload, and the
ledger and the labels are the two memories of entity resolution. So that they can be extended
together, `BudgetGate` and `PairLabels` name their initial states, steps and types after
themselves (`GateSpec`, `GateTypeOK`; `LabelsSpec`, `LabelsTypeOK`).

`TransformUpload`, `TransformFlow` and `StorageTask` are layers over one another,
each with the layer below as one step: `TransformUpload` sees a flow as prepare,
chunk, end; `TransformFlow` has its stages and sees `store_knowledge_graph` as one
step; `StorageTask` has the inside of that step. `LoadStage` is the interface of the
last two: it knows graphs, attempts and what is stored, and nothing of batches,
checkpoints, backends or failures. `StorageTask!Load` maps one to the other; TLC checks
`Load!Spec` with its liveness, TLAPS proves `Load!Safety`. `GraphBuild` is the inside of
the TRANSFORM stage, with the ledger's calls in its middle and at its end
(`EntityLedger`) and the pairs it rejects going to review (`PairLabels`).

### StorageTask

`pc` is the place in the task; `startFrom`, `batchIdx`, `pending` and `tally` are
its locals `start_from`, `batch_idx`, `items_processed` and the counters of its
result; `checkpoint` is the row or node the backend keeps for the transform.
`copies[g][k]` counts the vertices with node k's id, because `store_nodes` runs
with `merge=False` and a repeated CREATE makes another vertex.
One action is one call on the backend with what the task does until the next one:
`GetStatus`, `StoreNodes`, `CheckpointNodes`, `BeginRelationships`,
`StoreRelationships`, `CheckpointRelationships`, `ReturnResult` (which is also the
flow's loop going on to the next graph), and a failing twin for each call that can
fail. A failing `StoreNodes` may have written some UNWIND groups, the failing one
included, if only its answer was lost. A checkpoint write that fails is ignored, as in the
code. `Findable` says where a checkpoint is found again: the Neo4j adapter MERGEs it under
`transform_id` (`storage/neo4j.py:1627`) and looks for it under `__tid` (`:1582`,
`utils/constants.py:6`), so that on Neo4j every attempt at every graph begins at index 0, and
what the adapter writes as checkpoints of its own is never read either. On Postgres and in
memory tasks do resume. Postgres counts as processed what it did not skip for the type of an
end, the in-memory store what it could connect (`Processed`). The slicing of the batches is
kept exactly (`enumerate(..., start=start_from)` over `items[start_from:]`, and an index of
`batch_idx * size + n`): that is where resuming goes wrong. `Fresh(g)` is when the properties promise a whole graph: always
where no checkpoint is found, else for the first graph until an attempt resumes mid-list.

### TransformUpload

One handler per upload; `tempDir` tells whether its local `temp_dir` is still
`UPLOAD_DIR` or already the transform's own directory, which decides what the
error branch removes. Two things fail before it is narrowed and reach the broad `except`
with the whole directory: a `chunking_config` that is JSON but no object (or has unknown
keys: `ParseConfigFails`) and a status store that refuses; `unscoped` records that one of
them did. A flow ends in two steps, the status first (`FlowCompletes`, `FlowFails`), the
completion row after the usage rows (`CloseSuccess`, `CloseFailure`). Two uploads by different
routes interleave at every await with their flows, cleanup requests, failing audit writes, a
failing Redis and a restart, which loses handlers and flows and keeps disk, audit and Redis.

### TransformFlow

`pc` walks through the stages; `prepared`, `toChunk`, `split`, `chunked` and
`graphs` are the flow's collections; text documents get a graph each and all PDFs
together get one. Every tracker call is two steps, its read and its write of the status,
so that a cleanup (from a worker thread) can come between; so is `update_stage_progress`,
with which each turn of a loop ends (`ReportReads`, `ReportWrites`): it changes nothing the model
keeps, but it writes back the whole document it has read. Each document may fail
in each stage, an exception may end each stage, and `fail_stage` names the stage
the flow's handler guesses from the exception.

### RelVersions

All calls for one (type, source, target). A call is the lookup of the open edge,
one MERGE for relationships without one, and a close and a CREATE for those whose
properties changed; each query is its own transaction and one that fails may have
taken effect. The ends are matched by id, and ids have several vertices once a nodes stage
has repeated its CREATE (`CopyVertex`): a query then writes one edge for each pair of them
(`Written`, `pairs`), all of one version, and `at` tells which pair an edge joins. In the loop an
id has its turn at its last position in the batch (`Turns`: `rel_id_to_index` keeps the last
index) and is written with the properties of its first (`FirstAt`). `torn` records a call that
stopped between close and CREATE; `unseen` a MERGE that took effect with its answer lost, when
another relationship of the batch has its turn before the one it wrote (`Overtaken`): the next
version is then opened beside it.

### GraphBuild

A document is a list of mentions with the chunk, the positional id the LLM gives
them there, a type, a natural key and a content. `nodes` is the code's list, in its
order; `of` says, as history, which mentions a node stands for. Each step is one of
the pipeline: `ExtractNodes` of a chunk (with the three ways `Insert` compares a node with
the list), `CompareById`, `ResolveGroup` (any candidate group, any answer of the
LLM: lists that overlap, forget or are empty), `RelateChunk`, `Refine`, `Deduplicate`
(heuristics, then Splink with any matches, and the rewriting of relationship ends),
the orphan pass and `PruneOrphans`. Positional ids are distinct among what one call of the LLM
finds in a chunk and nowhere else: a refinement pass (the multi-pass path makes one,
`max_passes` = 2) may give a mention an id that its chunk has for another, and a relationship of
that mention then goes to the other (`Renumbered`, a finding). A key stands for all the
signatures the heuristics compare. Four history variables record what makes the code go
wrong (see the findings), so that the properties say what holds without them: `mixed` (a
node stands for mentions of several chunks, or has lost a positional id), `overlap` (the LLM
put a node into two groups), `chained` (a representative was itself mapped on) and `emptied`
(mentions whose properties a merger has dropped). A part of a list is made by `List` from the
positions that stay, and the list that nodes are put into one by one is a recursive function
(`Inserting`), so that both can be reasoned about.

### EntityLedger

A canonical id is a function of the key it was first made from, and is that key in
the model. `Lookup` (one statement for a type), `Similar` (any entry of the type,
or none), `Review` (the LLM's verdict), `Resolve` (merges inside the transform), `Record`
(chunks of an upsert); each statement may fail and be swallowed, and a transform may die
anywhere. `doubts` names what may give a key two ids.

### PairLabels

One API process and tenant. A label waits for the pair's lock, commits a statement and runs its
hook when the answer is back; the answer may be lost, the hook may raise, the process may
restart. `nudged` is the sum of what a pair's labels have moved.

### MergeSession

A run of `merge_flow` is what it does between two awaits: extract, reconcile, map,
classify, then node by node into production; `StartMerge` puts a run into the
background, the last `Resolve` awaits one. Database calls are synchronous in this part
of the code, so nothing comes between them, but each may raise; Prefect's retry starts the
flow from its top. A production node is who wrote its property last.

### Scenarios

Graphs are functions from ids to properties (or `Gone`). A snapshot need not be closed: the
in-memory store deletes a node without the edges the request does not name
(`storage/memory.py:866-877`), and they come with the transform's graph. An edit is accepted only
if every edge of its result has its ends, also those that had none before, so what is shown
dangles at most as long as the scenario is its snapshot. `Create`, `ReadForEdit`,
`WriteDiff`, `Reread`, `Delete` are the statements. `expected` is, as history, the snapshot with every
written edit applied, and `clashed` an edit written over one it had not read.
The in-memory backend runs the same code without a suspension between read and write,
which is one of the interleavings; a row of another tenant is an absent one.

### SchemaCache

`TextIds` says whether the driver returns the id column as text: `StoredSchema` takes no
`uuid.UUID`, and a row with one is answered as not found and never cached (a finding). The
count of uses, which every view raises without an invalidation, is no part of a
version: nothing here is promised about it. Every await on Redis or the database is a step;
an operation on a worker's memory is not interrupted. Time is left out: an entry may expire whenever it exists. A request goes through
`Get`, `Fetch`, `Fill`, `Select`, `Cache`, `Publish`; a write through `Update`, `Invalidate`,
`Unpublish`. `raced` records a fill with what the row no longer was.

### BudgetGate

A request reads the cap, then the spend. Cap changes, recorded calls and the end of
the month are steps of their own. `room`, `over`, `capMoved` and `rolled` are history:
what held at some instant of the request's check.

## Runs

| run | states | question, and the answer |
|---|---|---|
| `storage_pass` | 10 k | What do batches, checkpoints and retries guarantee? On Neo4j every attempt begins at the beginning and every graph whose task returned is stored. Elsewhere the checkpoint is behind the write head as long as no attempt began mid-list; a task that never resumed mid-list stored all of the first graph; the first retry never loses nodes; vertices of a node ≤ attempts; and the task implements `LoadStage`, liveness included. |
| `upload_pass` | 580 k | What do concurrent uploads guarantee each other? Documents go only with a cause of their own (or with an upload that failed before its directory was narrowed), errors leave no tail, audit rows and terminal statuses are true and final, every upload settles. |
| `flow_pass` | 173 k | Does what is told about a flow agree with what it did? Yes: status, usage rows, the gate, cleanup; and the status settles. |
| `relversions_pass` | 1.4 M | Do versions survive failures and repetition? One open version (but for a lost MERGE that was overtaken), nothing lost, nothing closed by others; closed versions stay, unless a call stopped between close and CREATE. |
| `graph_pass` | 594 k | Do relationships survive four mergers? In the single-pass path they keep two ends, and in both the ends the text means, no mention is lost and no id is doubled, but for the named exceptions. |
| `ledger_pass` | 1.6 M | Does a key get one id, whatever overlaps? Yes unless a doubt arose; and ids never form chains. |
| `labels_pass` | 131 k | Does a label count once? Yes, unless its hook was missed; and every request is answered. |
| `merge_pass` | 590 k | What does a merge guarantee when runs overlap, raise and restart? Complete means stored, ready means reviewed, weak matches keep production's value, runs end. |
| `merge_lost` | – | *violated*, without any fault: the user's resolution reaches no production node. |
| `scenarios_pass` | 1.5 M | Is the view the sum of its edits? Yes, unless an edit was written over one it had not read; and once edited it is closed. |
| `cache_pass` | 970 k | What may caches still show? The owner sees his writes in Redis and on the only writing worker, unless a fill raced or a call failed; others only what was public; stale entries die. |
| `budget_pass` | 457 k | Is the gate right although it reads twice? Admission had room unless month and cap both moved between the reads; refusal was over unless the cap moved. |

The violated property states what a docstring of the code says. `PROJECT.json`
"findings" quotes it, and the other disagreements between the code and its comments,
which appear in the passing runs as the premises and history variables of the
properties (`resumed`, `torn`, `unseen`, `unscoped`, `mixed`, `overlap`, `chained`, `emptied`,
`clashed`, `raced`, `adrift`, `doubts`) or as an exception with a name (`Renumbered`).

Each property of a passing run has a mutant: a plausible bug of one definition (the
operators under a `MUTATION` comment) under which the run must fail.

### Bounds, and why they are enough

* `StorageTask`: four nodes of two kinds in batches of two (two batches, an UNWIND
  group in the middle, one node whose name may be refused), three relationships (a
  full and a partial batch, one with a missing end), two graphs (a first and a
  later one), two retries (first and second resumption), three faults (one for each
  attempt). A fourth attempt meets no checkpoint the third cannot meet.
* `TransformUpload`: two uploads, of two documents and of one, by the auto-schema
  and the schemaless route (the steps of the third, with a given ontology, are among
  theirs); one restart; audit writes may fail for one of them. Interference is
  pairwise: what one handler removes, another has.
* `TransformFlow`: two text documents around a PDF, so that graphs, splits and
  documents differ in number and order; one failed write to Redis or the usage
  table at any place (a second one finds the same guards).
* `RelVersions`: two transforms with equal ids, two calls each, batches with a
  change, a second id for the pair, an id that comes again with other properties around it, and
  none at all; one pair of vertices or two; two failing queries (close and CREATE of one call, or
  a lost MERGE and one more).
* `BudgetGate`: two requests, caps 0, 2 and 5 (blocked, small, large), calls of 1 and
  4, two months; spend up to 6, past every cap. Requests are symmetric.
* `GraphBuild`: five documents of four or five mentions in one or two chunks: one repeats
  positional ids and a key over three types; one is of a single type with two keys twice, with
  a mention only a refinement pass finds and (a document of its own) without; one has two such
  mentions in the first of its two chunks, one of them numbered like a mention found there
  before; in the last two, mentions without properties share a key. Candidate groups of up to
  three nodes (two groups can overlap, and forget a node); Splink runs from two records
  (`SplinkMin`; three in the code), so that both sides of the threshold occur with few nodes.
* `EntityLedger`: two transforms, each again and again, over three keys of one type, one
  of them extracted twice; statements of one record (50 in the code), so that a failure comes
  between two of them; one failure. A second type only adds an independent copy; the proof
  covers any.
* `PairLabels`: two pairs of one type (the threshold is shared), two requests at a time,
  again and again. Floor, margin and nudge are scaled so that both clamps come into play.
* `MergeSession`: two nodes (of one entity or two, matched by name or by a property), two runs with a
  retry each and one failure anywhere. Three runs need one staging node to fit, and have
  shown nothing further.
* `Scenarios`: two requests, two nodes and an edge, eight batches that create, change,
  delete and bring back; one of the three snapshots dangles. Requests are symmetric. Two scenarios, so that one is deleted and replaced under a pending edit.
* `SchemaCache`: the owner on two workers, a reader on one (`Routes`), two requests at a
  time, two versions and a deletion, one failure or restart; ids are text, without which no cache is
  ever filled (the proofs are for both).

### Fairness

`StorageTask`, `LoadStage` and `TransformFlow` ask for weak fairness of a running
task's own steps: the event loop and Prefect's engine run a ready coroutine, and every
backend call returns or raises; `MergeSession` asks the same of each run.
`TransformUpload` asks for it of each handler, each
flow and each cleanup that has been scheduled (a background task of the response);
nobody is obliged to request a cleanup, to restart the server or to fail.
`PairLabels` asks for weak fairness of a request that holds the lock, and strong fairness of
taking it: the lock is free again and again between two holders, and `asyncio.Lock` serves
waiters in turn. `SchemaCache` asks it of calls and of the expiry of each entry: entries have
a lifetime that reads do not renew. Faults are never
fair. The other modules state no liveness and have no fairness. Liveness of uploads is
claimed only where the server does not restart in the middle: a restart loses
background tasks, and nothing in the code picks them up.

## Proofs

Assumptions are only those named in the modules: sizes are naturals, batches and chunks have at
least one item, backends are among the three, relationships end in nodes,
documents are what `IsDocument` says, marker values (`None`, `Gone`, `NoCap`, ...) are none of
the values they stand beside.

* `StorageTaskProofs!TypeCorrect`. Inductive with `StageOfIndex`: an index other
  than 0 comes with a stage. Without it `GetStatus` could record that an attempt resumed
  in stage "none". `NeverFound`: where no checkpoint is found, none resumes.
* `StorageTaskProofs!CopiesBounded` : `[]CopiesBoundedByAttempts`. The bound alone is
  not inductive: in the middle of an attempt nothing says which nodes it has still to
  write. `CopiesInv` gives each node after the write head (`Unwritten`) one copy of slack;
  `CreatedBound` shows that a batch uses up the slack of its own nodes only, and
  `BatchStartAdvances` that batches do not overlap.
* `StorageTaskProofs!CheckpointIsBehind` : `[]CheckpointBehindWriteHead`. `HeadInv`
  adds the write head: in an attempt that began at index 0 everything before
  `BatchStart` is stored, and everything before the next batch once the batch is. A
  batch has at most `BATCH_SIZE` nodes (`BatchIsBounded`), so the index the task computes
  from `items_processed` is no further than the batch (`BatchStartFromZero`).
* `RelVersionsProofs!TypeCorrect`, `OneOpenEdge` : `[]AtMostOneOpenEdge`. Edges between
  copies of the ends are told from versions by `OpenIn`, the open edges but for the pair they join:
  one query leaves one of them however many pairs there are (`WrittenIsOne`). That one version is
  open is not enough to know that the next query leaves one open: `Remembered` adds that
  the edge `existing_lookup` holds across the queries is the open one, or, where it holds
  none, that the relationship about to be written is the one a failed MERGE may have left, which
  is so as long as nothing has its turn before it (`Overtaken`); `CallInv` and `Single` add that
  nothing is open where a first version or a new one is written.
* `RelVersionsProofs!SuccessShows` : `[]SuccessIsVisible`, `ClosedStay` : `[]ClosedVersionsKept`.
  `StoryInv` follows one call. `Told`: the stored ids are those of the turns behind the loop and
  of the batched MERGE (`Counted`), and what `existing_lookup` holds is an open edge with its
  properties (`Match`), so that a new version is written over what it was made of. `History`: where
  a MERGE comes next the transform has no closed edge, unless a call broke off. `Carried`: the
  open version, or the one in change, has the properties of all the others.
* `StorageTaskProofs!FirstRetryIsSafe` : `[]FirstRetryKeepsNodes`. `RetryInv`: the index the first
  retry reads is one of nodes and is not past the write head of the first attempt, and a retry
  from there leaves no gap, because its batches start where the computed index points.
* `TransformUploadProofs!TypeCorrect`, `DocumentsStay`, `FailureLeavesNothing`, `TrailIsTrue`.
  `UploadInv` says of each upload where it stands (`Standing`: which directory its error branch
  would remove; `UPLOAD_DIR` itself only after one of the two failures before it is narrowed), what it has saved as long as nothing
  may have removed it (`Saves`), and that its rows and its status are no further than its handler
  and its flow (`Trail`). A step of one upload may disturb another, so each lemma is about a step of
  `t` and the invariant of `u`.
* `TransformFlowProofs!TypeCorrect`, `StatusIsTrue`, `RowsAreTrue`, `CleanedStays`, and the action
  property `StageAdvances` : `Spec => StageShownNeverGoesBack`. `FlowInv` says what is behind each
  place of the flow (`Behind`), what a tracker call or a report has read relative to what it overwrites
  (`Tracked`), which rows are closed (`Accounted`) and what a cleanup left (`Cleaned`). `Reach` is
  the last stage a status can show at each place; that what a call will write is neither ahead of it
  nor behind the status is what makes the action property hold. `HasLeast` (a set of naturals with
  an element has a least one, by the well-founded order of finite sets) gives the graph the gate
  stands for; `MergeSessionProofs` uses it for the node a run writes next.
* `MergeSessionProofs!TypeCorrect`, `CompletedIsStored`, `ReadyIsReviewed`, `WeakMatchesKeep`.
  `SessionInv` says of each run what it has mapped and classified (`Mapped`) and, while it
  writes, that a node behind it is stored (`Writing`). Runs overlap, so each lemma about a step
  of one says that it takes nothing away from the others.
* `TransformUploadProofs!GateTypeCorrect`, `AdmissionIsEarned`, `RefusalIsEarned`. `GateInv`
  is what a check knows between its reads (`BetweenReads`): a cap not moved is still the
  cap it read, spend only grows within a month, and the present is observed. One lemma,
  `WorldMoves`, covers everything that happens around the gate.
* `StorageTaskProofs!FreshIsComplete` : `[]FreshResultIsComplete`, and `LoadStageSafety` :
  `Spec => Load!Safety`. `EdgeHeadInv` is `HeadInv` for the relationships: what lies before
  the batch of an attempt that began at 0 is stored, if its ends are. With it the guard of
  `Load!Return` holds, for every graph where no checkpoint is found (`anew`) and for the first
  elsewhere; every other action maps to `Write`, `Stray`, `Retry`, `GiveUp` or a stutter.
* `EntityLedgerProofs!LabelsTypeCorrect`, `LabelsCount`. `CountInv` adds that at most one request per
  pair is between its lock and its hook, and that what it has replaced is what it owes the
  difference to.
* `ScenariosProofs!DiffRoundTrip`: `_compute_diff` and `resolved_graph` are inverse, for all
  graphs, closed or not. `ViewIsTold` : `[]ViewTellsTheEdits` rests on it: a writer's difference is made of the
  view it has read, so what it writes is the edited view, or has clashed. `TypeCorrect`.
* `EntityLedgerProofs!TypeCorrect`, `OneIdCorrect`, `RootsCorrect`. `LedgerInv`: ids a
  transform carries name entries (`RootsExist`), which are roots as long as there is no doubt
  (`RootsStay`); what it has found has not changed since (`Kept`); what is finished agrees
  with the ledger (`Agrees`). Either property alone says nothing about what a transform still
  carries.
* `SchemaCacheProofs!TypeCorrect`, `OwnerCorrect`, `OthersCorrect`. `CacheInv`: a stale
  entry of the owner exists only while the request that made it stale has not finished
  (`OnItsWayOut`), and what a request holds for another user is public (`Served`).

* `TransformFlowProofs!BuildTypeCorrect`, `EndsExist`, `NothingIsLost`, `EndsAreNamed`,
  `IdsStayUnique`: the invariants of `GraphBuild`, for any documents, candidate groups, answers of
  the LLM and matches. They stand beside the flow's because graph construction is the inside of
  its TRANSFORM stage. The inductive invariant is `BuildInv`:
  - `TypesHold`: `IsNode` says that a node has the type, the key and the content of mentions it
    stands for; without it two nodes that are merged could be of two types. `PhasesHold`: what
    is empty, and what has not happened, in which step.
  - `CoverHolds` (for `NothingExtractedIsLost`): who stands for the mentions in the middle of a
    resolution, when half of the nodes are in `resolved` and half still in `nodes`, and that a node
    pruning may take has no mention with properties but the emptied.
  - `UniqueHolds` (for `IdsAreUnique`): a resolved node is of a group, so the nodes passed through,
    which are of none, have other ids. `FreshHolds`: what a refinement pass has found is of late
    mentions of earlier chunks, which no node of the list stands for.
  - `NamesHold` and `EndsHold` (for `EndsAreThoseNamed`, `EndsExistUntilPruned`): a relationship's
    ends carry the mentions it was made for; a node that is merged away hands its mentions to the
    node its id is mapped to, and the relationship moves with them (`MatchFits`,
    `DeduplicateBuild`). Where a positional id is resolved, the nodes extracted first come first
    (`EarlyFirst`), so that only a mention that uses an id again can miss (`Meant`).
  What the mergers keep is proved once, of lists: `Filled` (every mention that went in comes out,
  and nothing else) and `Settled` (a new id stays with its mentions) for nodes put into a list,
  `ListNodes` for a part of one, `ReducedReplaces` for nodes replaced by their representatives, and
  `OrderedList` for the numbering they rest on. Where the list is built by recursion, the first
  number of nodes that breaks the claim (`HasLeast`) takes the place of the induction.

Only model-checked:

* liveness (`EveryUploadSettles` and its like, `Load!Spec` as a whole) and anything that needs
  ENABLED, which are out of the prover's reach;
* what holds of relationships on a backend that resumes, and the violated property.

## Not modelled

* The values: what the LLM extracts, how text is chunked, scored, formatted or priced.
* `get_status`, listing, search, preview and dashboard reads.
* Two flows of one transform id at a time: ids are fresh uuids and nothing restarts a flow.
* Prefect's own persistence: a server restart during a storage task is a lost flow
  (`TransformUpload`), not a resumed one.
* Postgres/AGE and in-memory versioning of edges: only Neo4j closes and re-creates them.
* Edges and audit rows of a merge; a merge's staging graph that changes under it.
* Components with status `not_modelled` in `PROJECT.json`, each with its reason.

Much of the repository's volume has no state to model: `baml_client/` is a
generated client (some 20 000 lines), `prototyping/` a notebook, the prompts, parsers and
normalisers of `helpers.py` and `llm/` text processing, and the reporting services
SQL aggregation. The modules cover the code in which control, order and failure decide.

## Plan

1. Done: the modules and theorems above.
2. Next theorems: what a resumed attempt leaves of relationships, and the safety part of
   `TransformUpload` and `TransformFlow` taken together.
3. Next models: the in-memory and Postgres writers of edges beside Neo4j's; edges in
   `MergeSession`; the two graph editors; the schema-learning flow; the response cache of
  the LLM client.
