--------------------------- MODULE TransformFlow ---------------------------
(***************************************************************************)
(* document_transformation_flow for one transform: the stages PARSE,       *)
(* CHUNK, TRANSFORM and LOAD with the documents that fall out of each, the *)
(* status document the progress tracker keeps in Redis, and the usage rows *)
(* of the documents.  A cleanup request may remove the status at any time, *)
(* from a worker thread.                                                   *)
(*                                                                         *)
(* store_knowledge_graph is one step here; StorageTask has its inside.     *)
(* Percentages, timings and resource metrics of the status are left out;   *)
(* update_stage_progress, which changes only those, is kept as the read    *)
(* and the write of the whole document that it is.                         *)
(***************************************************************************)
EXTENDS Integers, FiniteSets

CONSTANTS
    NumDocs,    \* number of uploaded documents
    Pdfs,       \* those that are PDFs
    MaxFaults   \* bound: writes to Redis or to the usage table that fail

Docs == 1..NumDocs

ASSUME DocsAssumption == NumDocs \in Nat \ {0} /\ Pdfs \subseteq Docs
ASSUME FaultsAssumption == MaxFaults \in Nat

\* The graphs of a flow: one for each text document, one for all PDFs together,
\* which is last and is called NumDocs + 1.
PdfGraph == NumDocs + 1
Graphs   == (Docs \cup {PdfGraph})

\* TransformationStage in the order of a transform, FAILED last.
Stages == 1..6
Upload == 1   Parse == 2   Chunk == 3   Transform == 4   Load == 5   Failed == 6

VARIABLES
    pc,        \* where the flow stands
    next,      \* document or graph the loop at pc has come to
    textOnly,  \* the provider cannot read PDFs (_should_pre_extract_pdfs)
    prepared,  \* processed_paths
    toChunk,   \* doc_paths_to_chunk
    split,     \* PDFs in pdf_files
    chunked,   \* doc_chunk_results
    graphs,    \* graphs
    passed,    \* the graph the quality gate has let through, 0 for none
    stored,    \* graphs store_knowledge_graph has returned for
    nonEmpty,  \* nodes_stored + relationships_stored > 0
    error,     \* kind of the exception the flow raised, "none" without one
    status,    \* the tracker's document, as long as there is one
    draft,     \* what the tracker call under way has read and changed
    rows,      \* document_usage rows
    faults,    \* writes that failed
    cleaned,   \* history: cleanup_transform has run
    raced      \* history: it ran inside a tracker call

docs    == <<textOnly, prepared, toChunk, split, chunked, graphs>>
load    == <<passed, stored, nonEmpty>>
tracker == <<status, draft>>
history == <<cleaned, raced>>
vars    == <<pc, next, docs, load, error, tracker, rows, faults, history>>

Absent == [overall |-> "absent", current |-> Upload, stage |-> [s \in Stages |-> "pending"]]

\* What initialize_transform and complete_stage(UPLOAD) leave for the flow.
Uploaded == [overall |-> "initializing", current |-> Upload,
             stage |-> [s \in Stages |-> IF s = Upload THEN "completed" ELSE "pending"]]

StatusDocs ==
    [overall : {"absent", "initializing", "completed", "failed"}, current : Stages,
     stage : [Stages -> {"pending", "in_progress", "completed", "failed"}]]

\* The tracker calls of the flow, the stage of each, and what follows it.
Starts == [startParse |-> Parse, startChunk |-> Chunk,
           startTransform |-> Transform, startLoad |-> Load]
Completes == [endParse |-> Parse, endChunk |-> Chunk,
              endTransform |-> Transform, endLoad |-> Load]
Then == [startParse |-> "parse", endParse |-> "startChunk", startChunk |-> "collect",
         endChunk |-> "startTransform", startTransform |-> "extract",
         endTransform |-> "startLoad", startLoad |-> "gate",
         endLoad |-> "closeRows", fail |-> "closeRows"]
Calls == DOMAIN Then

\* The loops whose turns report their progress to the tracker.
Reporting == {"parse", "chunk", "extract", "store"}

Loops == {"openRows", "parse", "chunk", "extract", "store", "closeRows"}
Ends  == {"returned", "raised"}
Errors == {"none", "split", "gate", "storage", "empty"}
Rows == {"none", "in_progress", "success", "failed"}

TypeOK ==
    /\ pc \in Calls \cup Loops \cup {"collect", "gate"} \cup Ends
    /\ next \in 1..(NumDocs + 2)
    /\ textOnly \in BOOLEAN
    /\ prepared \subseteq Docs /\ toChunk \subseteq prepared
    /\ split \subseteq Pdfs /\ chunked \subseteq toChunk
    /\ graphs \subseteq chunked \cup {PdfGraph}
    /\ passed \in graphs \cup {0} /\ stored \subseteq graphs /\ nonEmpty \in BOOLEAN
    /\ error \in Errors
    /\ status \in StatusDocs /\ draft \in StatusDocs
    /\ rows \in [Docs -> Rows]
    /\ faults \in 0..MaxFaults
    /\ cleaned \in BOOLEAN /\ raced \in BOOLEAN

Init ==
    /\ pc = "openRows" /\ next = 1
    /\ textOnly \in BOOLEAN
    /\ prepared = {} /\ toChunk = {} /\ split = {} /\ chunked = {} /\ graphs = {}
    /\ passed = 0 /\ stored = {} /\ nonEmpty = FALSE
    /\ error = "none"
    /\ status = Uploaded /\ draft = Absent
    /\ rows = [d \in Docs |-> "none"]
    /\ faults = 0
    /\ cleaned = FALSE /\ raced = FALSE

Goto(label) == pc' = label /\ next' = 1

Fault == faults < MaxFaults /\ faults' = faults + 1

\* The exception reaches the handler of the flow, whose first await is fail_stage.
Raise(kind) == error' = kind /\ Goto("fail")

-----------------------------------------------------------------------------
(* The progress tracker *)

\* The handler guesses the failed stage from the words of the message, PARSE
\* where there is no known word.  A split fails over a path with "pdf" in it,
\* or "chunk" in the file's name; the gate's own messages have no known word,
\* those of its task and of a storage driver may; the last says "stored".
GuessedStages(kind) ==
    CASE kind = "split" -> {Parse, Chunk}
      [] kind \in {"gate", "storage"} -> {Parse, Load}
      [] OTHER -> {Load}

\* MUTATION of Changed: every stage that completes completes the transform.
ChangedTooSoon(call, s) ==
    IF call \in DOMAIN Starts THEN
        [s EXCEPT !.stage[Starts[call]] = "in_progress", !.current = Starts[call]]
    ELSE [s EXCEPT !.stage[Completes[call]] = "completed", !.overall = "completed"]

\* The status document with the change a call makes to it.
Changed(call, s) ==
    IF call \in DOMAIN Starts THEN
        [s EXCEPT !.stage[Starts[call]] = "in_progress", !.current = Starts[call]]
    ELSE [s EXCEPT !.stage[Completes[call]] = "completed",
                   !.overall = IF call = "endLoad" THEN "completed" ELSE @]

\* MUTATION of MarkedFailed: the stages are marked, the overall status is not.
MarkedStageOnly(s, guess) ==
    [s EXCEPT !.stage[guess] = "failed", !.current = Failed]

\* MUTATION of MarkedFailed: current_stage is set to the guessed stage.
MarkedAtGuess(s, guess) ==
    [s EXCEPT !.stage[guess] = "failed", !.current = guess, !.overall = "failed"]

MarkedFailed(s, guess) ==
    [s EXCEPT !.stage[guess] = "failed", !.current = Failed, !.overall = "failed"]

CallUnderWay == draft.overall # "absent"

\* MUTATION of CallReads: a status that is gone is made anew.
CallReadsOrCreates ==
    /\ pc \in Calls /\ ~CallUnderWay
    /\ LET s == IF status.overall = "absent" THEN Uploaded ELSE status IN
       IF pc = "fail"
       THEN \E guess \in GuessedStages(error) : draft' = MarkedFailed(s, guess)
       ELSE draft' = Changed(pc, s)
    /\ UNCHANGED <<pc, next, docs, load, error, status, rows, faults, history>>

\* redis.get, then the change in memory.  start_stage awaits Prefect after it,
\* which knows no flow run of that name and leaves the status alone.
CallReads ==
    /\ pc \in Calls /\ ~CallUnderWay /\ status.overall # "absent"
    /\ IF pc = "fail"
       THEN \E guess \in GuessedStages(error) : draft' = MarkedFailed(status, guess)
       ELSE draft' = Changed(pc, status)
    /\ UNCHANGED <<pc, next, docs, load, error, status, rows, faults, history>>

\* redis.set of what the call read, whatever has happened to it since.
CallWrites ==
    /\ pc \in Calls /\ CallUnderWay
    /\ status' = draft
    /\ draft' = Absent
    /\ Goto(Then[pc])
    /\ UNCHANGED <<docs, load, error, rows, faults, history>>

\* There is no status any more, or Redis fails: the call returns all the same.
CallGivesUp ==
    /\ pc \in Calls
    /\ IF status.overall = "absent" /\ ~CallUnderWay THEN UNCHANGED faults ELSE Fault
    /\ draft' = Absent
    /\ Goto(Then[pc])
    /\ UNCHANGED <<docs, load, error, status, rows, history>>

\* update_stage_progress reads the status as the last thing a turn of a loop
\* does; without a status it returns.  What it changes is not kept here.
ReportReads == draft' = status

\* It writes back what it read, or Redis fails and it returns all the same.
\* Read and write have no await between them: only another thread gets there.
ReportWrites ==
    /\ pc \in Reporting /\ CallUnderWay
    /\ \/ status' = draft /\ UNCHANGED faults
       \/ Fault /\ UNCHANGED status
    /\ draft' = Absent
    /\ UNCHANGED <<pc, next, docs, load, error, rows, history>>

\* cleanup_transform, in a worker thread; the directory is TransformUpload's.
CleanupTransform ==
    /\ ~cleaned
    /\ cleaned' = TRUE
    /\ raced' = CallUnderWay
    /\ status' = Absent
    /\ UNCHANGED <<pc, next, docs, load, error, draft, rows, faults>>

-----------------------------------------------------------------------------
(* The stages *)

\* One usage row per document; an error is swallowed and there is no row.
OpenRow ==
    /\ pc = "openRows" /\ next <= NumDocs
    /\ \/ rows' = [rows EXCEPT ![next] = "in_progress"] /\ UNCHANGED faults
       \/ Fault /\ UNCHANGED rows
    /\ next' = next + 1
    /\ UNCHANGED <<pc, docs, load, error, tracker, history>>

RowsOpened ==
    /\ pc = "openRows" /\ next > NumDocs
    /\ Goto("startParse")
    /\ UNCHANGED <<docs, load, error, tracker, rows, faults, history>>

\* validate_document and store_document; whatever goes wrong, the loop reports
\* and goes on.
PrepareDoc ==
    /\ pc = "parse" /\ ~CallUnderWay /\ next <= NumDocs
    /\ \/ prepared' = prepared \cup {next}
       \/ UNCHANGED prepared
    /\ ReportReads
    /\ next' = next + 1
    /\ UNCHANGED <<pc, textOnly, toChunk, split, chunked, graphs, load, error, status, rows, faults, history>>

Prepared ==
    /\ pc = "parse" /\ ~CallUnderWay /\ next > NumDocs
    /\ Goto("endParse")
    /\ UNCHANGED <<docs, load, error, tracker, rows, faults, history>>

\* PDFs are split, or turned into text files, those without text left out.
CollectPaths ==
    /\ pc = "collect"
    /\ IF textOnly
       THEN /\ \E readable \in SUBSET (prepared \cap Pdfs) :
                  toChunk' = (prepared \ Pdfs) \cup readable
            /\ UNCHANGED split
       ELSE toChunk' = prepared \ Pdfs /\ split' = prepared \cap Pdfs
    /\ Goto("chunk")
    /\ UNCHANGED <<textOnly, prepared, chunked, graphs, load, error, tracker, rows, faults, history>>

\* mkdir or split_pdf raises: nothing in the stage catches it.
CollectFails ==
    /\ pc = "collect"
    /\ Raise("split")
    /\ UNCHANGED <<docs, load, tracker, rows, faults, history>>

\* MUTATION of ChunkDoc: a PDF that goes to the binary path is chunked as well.
ChunkPrepared ==
    /\ pc = "chunk" /\ ~CallUnderWay /\ next <= NumDocs
    /\ \E C \in SUBSET ({next} \cap prepared) : chunked' = chunked \cup C
    /\ IF next \in prepared THEN ReportReads ELSE UNCHANGED draft
    /\ next' = next + 1
    /\ UNCHANGED <<pc, textOnly, prepared, toChunk, split, graphs, load, error, status, rows, faults, history>>

\* A document whose chunking fails or gives no chunks is left out.
ChunkDoc ==
    /\ pc = "chunk" /\ ~CallUnderWay /\ next <= NumDocs
    /\ \E C \in SUBSET ({next} \cap toChunk) : chunked' = chunked \cup C
    /\ IF next \in toChunk THEN ReportReads ELSE UNCHANGED draft
    /\ next' = next + 1
    /\ UNCHANGED <<pc, textOnly, prepared, toChunk, split, graphs, load, error, status, rows, faults, history>>

Chunked ==
    /\ pc = "chunk" /\ ~CallUnderWay /\ next > NumDocs
    /\ Goto("endChunk")
    /\ UNCHANGED <<docs, load, error, tracker, rows, faults, history>>

\* construct_knowledge_graph for a chunked document, at the end for the split
\* PDFs; an extraction that fails for good leaves the graph out.  It reports, if
\* it gets so far, in tasks of the event loop that run before its own end does.
ExtractGraph ==
    /\ pc = "extract" /\ ~CallUnderWay /\ next <= PdfGraph
    /\ LET there == chunked \cup (IF split = {} THEN {} ELSE {PdfGraph}) IN
       /\ \E G \in SUBSET ({next} \cap there) : graphs' = graphs \cup G
       /\ \/ next \in there /\ ReportReads
          \/ UNCHANGED draft
    /\ next' = next + 1
    /\ UNCHANGED <<pc, textOnly, prepared, toChunk, split, chunked, load, error, status, rows, faults, history>>

Extracted ==
    /\ pc = "extract" /\ ~CallUnderWay /\ next > PdfGraph
    /\ Goto("endTransform")
    /\ UNCHANGED <<docs, load, error, tracker, rows, faults, history>>

\* The gate looks at the first graph.
GatePasses ==
    /\ pc = "gate" /\ graphs # {}
    /\ passed' = CHOOSE g \in graphs : \A h \in graphs : g <= h
    /\ Goto("store")
    /\ UNCHANGED <<docs, stored, nonEmpty, error, tracker, rows, faults, history>>

\* No graph, no ontology, or a score, a violation or a gate that says no.
GateFails ==
    /\ pc = "gate"
    /\ Raise("gate")
    /\ UNCHANGED <<docs, load, tracker, rows, faults, history>>

StoreGraph ==
    /\ pc = "store" /\ ~CallUnderWay /\ next <= PdfGraph
    /\ stored' = stored \cup ({next} \cap graphs)
    /\ IF next \in graphs THEN nonEmpty' \in {nonEmpty, TRUE} ELSE UNCHANGED nonEmpty
    /\ IF next \in graphs THEN ReportReads ELSE UNCHANGED draft
    /\ next' = next + 1
    /\ UNCHANGED <<pc, docs, passed, error, status, rows, faults, history>>

StoreFails ==
    /\ pc = "store" /\ ~CallUnderWay /\ next \in graphs
    /\ Raise("storage")
    /\ UNCHANGED <<docs, load, tracker, rows, faults, history>>

Stored ==
    /\ pc = "store" /\ ~CallUnderWay /\ next > PdfGraph
    /\ IF nonEmpty THEN Goto("endLoad") /\ UNCHANGED error ELSE Raise("empty")
    /\ UNCHANGED <<docs, load, tracker, rows, faults, history>>

\* MUTATION of Outcome: the handler has no outcome of its own for the rows.
OutcomeSuccess == "success"

\* processing_status of the rows, on the way out of the flow or of its handler.
Outcome == IF error = "none" THEN "success" ELSE "failed"

CloseRow ==
    /\ pc = "closeRows" /\ next <= NumDocs
    /\ IF rows[next] = "none" THEN UNCHANGED <<rows, faults>>
       ELSE \/ rows' = [rows EXCEPT ![next] = Outcome] /\ UNCHANGED faults
            \/ Fault /\ UNCHANGED rows
    /\ next' = next + 1
    /\ UNCHANGED <<pc, docs, load, error, tracker, history>>

RowsClosed ==
    /\ pc = "closeRows" /\ next > NumDocs
    /\ Goto(IF error = "none" THEN "returned" ELSE "raised")
    /\ UNCHANGED <<docs, load, error, tracker, rows, faults, history>>

FlowStep ==
    \/ CallReads \/ CallWrites \/ CallGivesUp \/ ReportWrites
    \/ OpenRow \/ RowsOpened \/ PrepareDoc \/ Prepared
    \/ CollectPaths \/ CollectFails \/ ChunkDoc \/ Chunked
    \/ ExtractGraph \/ Extracted \/ GatePasses \/ GateFails
    \/ StoreGraph \/ StoreFails \/ Stored \/ CloseRow \/ RowsClosed

Next == FlowStep \/ CleanupTransform

\* The event loop keeps the flow going; nobody has to ask for a cleanup.
Spec == Init /\ [][Next]_vars /\ WF_vars(FlowStep)

-----------------------------------------------------------------------------
(* Properties *)

\* A terminal status is the outcome of the flow: completed only if the gate has
\* let a graph through and every graph was stored, something among them.
StatusTellsTheTruth ==
    /\ status.overall = "completed" =>
          /\ error = "none" /\ pc \in {"closeRows", "returned"}
          /\ passed # 0 /\ stored = graphs /\ nonEmpty
    /\ status.overall = "failed" => error # "none" /\ pc \in {"closeRows", "raised"}

\* A usage row is closed with the outcome of the flow and not before it is
\* known; none stays open unless a write has failed.
RowsTellTheTruth ==
    \A d \in Docs :
        /\ rows[d] = "success" => error = "none" /\ stored # {} /\ nonEmpty
        /\ rows[d] = "failed" => error # "none"
        /\ (pc \in Ends /\ faults = 0) => rows[d] \in {"success", "failed"}

\* Once cleaned up, the status does not come back, except out of a call, of a
\* stage or of a progress report, that had read it before.
CleanedStaysClean == (cleaned /\ ~raced) => status.overall = "absent"

\* The stage shown to the user never goes back.
StageShownNeverGoesBack ==
    [][status'.overall # "absent" => status'.current >= status.current]_vars

\* The flow ends, and then, if no write failed and nobody cleaned up, the
\* status is terminal.
StatusSettles ==
    <>[](/\ pc \in Ends
         /\ (faults = 0 /\ ~cleaned) => status.overall \in {"completed", "failed"})
=============================================================================
