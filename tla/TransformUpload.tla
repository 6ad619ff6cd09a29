-------------------------- MODULE TransformUpload --------------------------
(***************************************************************************)
(* The three upload endpoints of api/transform.py, the background task     *)
(* each accepted request starts, and the upload directory they share.      *)
(* Several transforms are in flight at a time: every await of a handler is *)
(* a point where the others, the flow tasks and the cleanup requests run.  *)
(*                                                                         *)
(* The flow is modelled here by what it does to the shared state (prepare, *)
(* chunk, end); TransformFlow has its stages.                              *)
(***************************************************************************)
EXTENDS Integers, FiniteSets

CONSTANTS
    Transforms,    \* upload requests, each with the transform_id it creates
    Endpoint,      \* the route each request came in by
    NumDocs,       \* number of files of each request
    FlakyAudit,    \* bound: requests whose writes to the audit trail may fail
    MaxRestarts    \* bound: restarts of the server

ASSUME DocsAssumption == NumDocs \in [Transforms -> Nat \ {0}]
ASSUME EndpointAssumption == Endpoint \in [Transforms -> {"ontology", "auto", "schemaless"}]
ASSUME BoundsAssumption == FlakyAudit \subseteq Transforms /\ MaxRestarts \in Nat

Docs(t) == 1..NumDocs[t]

VARIABLES
    pc,         \* where its handler stands
    tempDir,    \* temp_dir of the handler: "root" (UPLOAD_DIR) or "own"
    nextDoc,    \* the file the handler, then the flow, works on
    audit,      \* the TRANSFORM_STARTED row
    auditDone,  \* the TRANSFORM_COMPLETED row
    status,     \* overall_status in Redis, "absent" without a status
    dirs,       \* transforms that have a directory under UPLOAD_DIR
    files,      \* the documents in it
    flow,       \* where the background task stands
    prepared,   \* processed_paths of the flow
    chunked,    \* documents with chunks
    cleanup,    \* cleanup_transform: "no", "scheduled", "done"
    restarts,
    saveFailed, \* history: transforms whose flow failed to store a document
    unscoped    \* history: an upload has failed before temp_dir was its own

disk    == <<dirs, files>>
history == <<saveFailed, unscoped>>
handler == <<pc, tempDir>>
work    == <<flow, prepared, chunked, auditDone>>
vars == <<handler, nextDoc, audit, status, disk, work, cleanup, restarts, history>>

HandlerPCs == {"preflight", "auditStart", "initialise", "saving", "failing",
               "refused", "rejected", "failed", "accepted", "lost"}
Answered == {"refused", "rejected", "failed", "accepted"}
FlowPCs  == {"none", "queued", "preparing", "chunking", "closing", "raising",
             "done", "failed", "lost"}
Rows     == {"none", "in_progress", "success", "failed"}

TypeOK ==
    /\ pc \in [Transforms -> HandlerPCs]
    /\ tempDir \in [Transforms -> {"root", "own"}]
    /\ nextDoc \in [Transforms -> Nat]
    /\ audit \in [Transforms -> Rows] /\ auditDone \in [Transforms -> Rows]
    /\ status \in [Transforms -> {"absent", "initializing", "completed", "failed"}]
    /\ dirs \subseteq Transforms
    /\ DOMAIN files = Transforms /\ DOMAIN prepared = Transforms /\ DOMAIN chunked = Transforms
    /\ \A t \in Transforms :
          /\ nextDoc[t] \in 1..(NumDocs[t] + 1)
          /\ files[t] \subseteq Docs(t) /\ prepared[t] \subseteq Docs(t) /\ chunked[t] \subseteq Docs(t)
    /\ flow \in [Transforms -> FlowPCs]
    /\ cleanup \in [Transforms -> {"no", "scheduled", "done"}]
    /\ restarts \in 0..MaxRestarts
    /\ saveFailed \subseteq Transforms /\ unscoped \in BOOLEAN

Init ==
    /\ pc = [t \in Transforms |-> "preflight"]
    /\ tempDir = [t \in Transforms |-> "root"]
    /\ nextDoc = [t \in Transforms |-> 1]
    /\ audit = [t \in Transforms |-> "none"]
    /\ auditDone = [t \in Transforms |-> "none"]
    /\ status = [t \in Transforms |-> "absent"]
    /\ dirs = {} /\ files = [t \in Transforms |-> {}]
    /\ flow = [t \in Transforms |-> "none"]
    /\ prepared = [t \in Transforms |-> {}]
    /\ chunked = [t \in Transforms |-> {}]
    /\ cleanup = [t \in Transforms |-> "no"]
    /\ restarts = 0
    /\ saveFailed = {} /\ unscoped = FALSE

-----------------------------------------------------------------------------
(* Helpers *)

\* log_operation_start swallows its errors and then returns "" for the row.
AuditStarts(rows, rows2, t) ==
    \/ rows2 = [rows EXCEPT ![t] = "in_progress"]
    \/ t \in FlakyAudit /\ rows2 = rows

\* log_operation_success / _failure, called if there is a row; errors are swallowed.
AuditEnds(rows, rows2, t, outcome) ==
    IF rows[t] = "none" THEN rows2 = rows
    ELSE \/ rows2 = [rows EXCEPT ![t] = outcome]
         \/ t \in FlakyAudit /\ rows2 = rows

\* The handler goes on with another outcome or await.
Goto(t, next) == pc' = [pc EXCEPT ![t] = next]

\* shutil.rmtree of the directories of D, whoever works in them.
RemoveDirs(D) ==
    /\ dirs' = dirs \ D
    /\ files' = [t \in Transforms |-> IF t \in D THEN {} ELSE files[t]]

-----------------------------------------------------------------------------
(* The upload handlers *)

\* enforce_budget_preflight lets the request through.
PreflightAllows(t) ==
    /\ pc[t] = "preflight"
    /\ Goto(t, "auditStart")
    /\ UNCHANGED <<tempDir, nextDoc, audit, status, disk, work, cleanup, restarts, history>>

\* MUTATION of PreflightRefuses: without "except HTTPException: raise" the 402
\* and the 503 reach the branch that removes temp_dir.
PreflightRefusalUnguarded(t) ==
    /\ pc[t] = "preflight"
    /\ Goto(t, "failing")
    /\ UNCHANGED <<tempDir, nextDoc, audit, status, disk, work, cleanup, restarts, history>>

\* 402 over budget, 503 budget database unreadable: HTTPException, re-raised.
PreflightRefuses(t) ==
    /\ pc[t] = "preflight"
    /\ Goto(t, "refused")
    /\ UNCHANGED <<tempDir, nextDoc, audit, status, disk, work, cleanup, restarts, history>>

\* chunking_config is JSON, but no object: ChunkingConfig(**...) raises TypeError,
\* which the except clause does not name, with temp_dir still UPLOAD_DIR.
ParseConfigFails(t) ==
    /\ pc[t] = "auditStart"
    /\ unscoped' = TRUE
    /\ Goto(t, "failing")
    /\ UNCHANGED <<tempDir, nextDoc, audit, status, disk, work, cleanup, restarts, saveFailed>>

\* The configuration is read, or replaced by the defaults; then the audit row.
StartAudit(t) ==
    /\ pc[t] = "auditStart"
    /\ AuditStarts(audit, audit', t)
    /\ Goto(t, "initialise")
    /\ UNCHANGED <<tempDir, nextDoc, status, disk, work, cleanup, restarts, history>>

\* initialize_transform and mkdir, with no await between them.
Initialise(t) ==
    /\ pc[t] = "initialise"
    /\ status' = [status EXCEPT ![t] = "initializing"]
    /\ tempDir' = [tempDir EXCEPT ![t] = "own"]
    /\ dirs' = dirs \cup {t}
    /\ Goto(t, "saving")
    /\ UNCHANGED <<nextDoc, audit, files, work, cleanup, restarts, history>>

\* redis.set raises (temp_dir is still UPLOAD_DIR), or mkdir does (temp_dir is its own).
InitialiseFails(t) ==
    /\ pc[t] = "initialise"
    /\ \/ /\ unscoped' = TRUE
          /\ UNCHANGED <<status, tempDir>>
       \/ /\ UNCHANGED unscoped
          /\ status' = [status EXCEPT ![t] = "initializing"]
          /\ tempDir' = [tempDir EXCEPT ![t] = "own"]
    /\ Goto(t, "failing")
    /\ UNCHANGED <<nextDoc, audit, disk, work, cleanup, restarts, saveFailed>>

\* MUTATION of SaveFile: one turn too many of the loop over the files.
SaveFileOnceMore(t) ==
    /\ pc[t] = "saving" /\ nextDoc[t] <= NumDocs[t] + 1 /\ t \in dirs
    /\ files' = [files EXCEPT ![t] = @ \cup {nextDoc[t]}]
    /\ nextDoc' = [nextDoc EXCEPT ![t] = @ + 1]
    /\ UNCHANGED <<handler, audit, status, dirs, work, cleanup, restarts, history>>

SaveFile(t) ==
    /\ pc[t] = "saving" /\ nextDoc[t] <= NumDocs[t] /\ t \in dirs
    /\ files' = [files EXCEPT ![t] = @ \cup {nextDoc[t]}]
    /\ nextDoc' = [nextDoc EXCEPT ![t] = @ + 1]
    /\ UNCHANGED <<handler, audit, status, dirs, work, cleanup, restarts, history>>

\* sanitize_filename or the validator refuses the file: 400, re-raised as it is.
RejectFile(t) ==
    /\ pc[t] = "saving" /\ nextDoc[t] <= NumDocs[t]
    /\ Goto(t, "rejected")
    /\ UNCHANGED <<tempDir, nextDoc, audit, status, disk, work, cleanup, restarts, history>>

\* The file cannot be opened or written, for one because the directory is gone.
SaveFileFails(t) ==
    /\ pc[t] = "saving" /\ nextDoc[t] <= NumDocs[t]
    /\ Goto(t, "failing")
    /\ UNCHANGED <<tempDir, nextDoc, audit, status, disk, work, cleanup, restarts, history>>

\* All files are saved and complete_stage(UPLOAD), which swallows its errors, is done.
Saved(t) == pc[t] = "saving" /\ nextDoc[t] = NumDocs[t] + 1

\* MUTATION of Accept: the row is closed, the task is not added.
AcceptWithoutTask(t) ==
    /\ Saved(t)
    /\ AuditEnds(audit, audit', t, "success")
    /\ Goto(t, "accepted")
    /\ nextDoc' = [nextDoc EXCEPT ![t] = 1]
    /\ UNCHANGED <<tempDir, status, disk, work, cleanup, restarts, history>>

\* The ontology is there (given, generic, or inferred from no text): add_task,
\* close the audit row, answer.  The task runs once the answer has been sent.
Accept(t) ==
    /\ Saved(t)
    /\ AuditEnds(audit, audit', t, "success")
    /\ Goto(t, "accepted")
    /\ flow' = [flow EXCEPT ![t] = "queued"]
    /\ nextDoc' = [nextDoc EXCEPT ![t] = 1]
    /\ UNCHANGED <<tempDir, status, disk, prepared, chunked, auditDone, cleanup, restarts, history>>

\* auto_schema=False without an ontology: 400 once everything is saved.
RejectWithoutSchema(t) ==
    /\ Saved(t) /\ Endpoint[t] = "auto"
    /\ Goto(t, "rejected")
    /\ UNCHANGED <<tempDir, nextDoc, audit, status, disk, work, cleanup, restarts, history>>

\* store_ontology raises; on the auto route, any document text leads to
\* TransformationStage.PARSING, which the enum does not have.
FinishFails(t) ==
    /\ Saved(t) /\ Endpoint[t] \in {"auto", "schemaless"}
    /\ Goto(t, "failing")
    /\ UNCHANGED <<tempDir, nextDoc, audit, status, disk, work, cleanup, restarts, history>>

\* MUTATION of HandleFailure: temp_dir is left behind.
HandleFailureKeepingFiles(t) ==
    /\ pc[t] = "failing"
    /\ AuditEnds(audit, audit', t, "failed")
    /\ Goto(t, "failed")
    /\ UNCHANGED <<tempDir, nextDoc, status, disk, work, cleanup, restarts, history>>

\* except Exception: close the audit row as failed and remove temp_dir, whatever it is.
HandleFailure(t) ==
    /\ pc[t] = "failing"
    /\ AuditEnds(audit, audit', t, "failed")
    /\ RemoveDirs(IF tempDir[t] = "own" THEN {t} ELSE Transforms)
    /\ Goto(t, "failed")
    /\ UNCHANGED <<tempDir, nextDoc, status, work, cleanup, restarts, history>>

-----------------------------------------------------------------------------
(* The background task: run_transform_flow around document_transformation_flow *)

FlowGoto(t, next) == flow' = [flow EXCEPT ![t] = next]

StartFlow(t) ==
    /\ flow[t] = "queued"
    /\ AuditStarts(auditDone, auditDone', t)
    /\ FlowGoto(t, "preparing")
    /\ UNCHANGED <<handler, nextDoc, audit, status, disk, prepared, chunked, cleanup, restarts, history>>

\* validate_document and store_document of one file; one that is found invalid,
\* or is gone and stays gone over the retries, is left out.
PrepareDoc(t) ==
    /\ flow[t] = "preparing" /\ nextDoc[t] <= NumDocs[t]
    /\ \E P \in SUBSET ({nextDoc[t]} \cap files[t]) :
          prepared' = [prepared EXCEPT ![t] = @ \cup P]
    /\ nextDoc' = [nextDoc EXCEPT ![t] = @ + 1]
    /\ UNCHANGED <<handler, audit, status, disk, flow, chunked, auditDone, cleanup, restarts, history>>

\* save_document fails and removes the whole directory; its retries find no
\* source file and remove the directory they have just made again.
PrepareDocFails(t) ==
    /\ flow[t] = "preparing" /\ nextDoc[t] <= NumDocs[t]
    /\ nextDoc[t] \in files[t]
    /\ RemoveDirs({t})
    /\ saveFailed' = saveFailed \cup {t}
    /\ nextDoc' = [nextDoc EXCEPT ![t] = @ + 1]
    /\ UNCHANGED <<handler, audit, status, work, cleanup, restarts, unscoped>>

\* The PARSE stage ends; the CHUNK stage makes the directory for PDF splits.
StartChunking(t) ==
    /\ flow[t] = "preparing" /\ nextDoc[t] = NumDocs[t] + 1
    /\ FlowGoto(t, "chunking")
    /\ dirs' = dirs \cup {t}
    /\ nextDoc' = [nextDoc EXCEPT ![t] = 1]
    /\ UNCHANGED <<handler, audit, status, files, prepared, chunked, auditDone, cleanup, restarts, history>>

\* chunk_document reads the stored file; a failure leaves the document out.
ChunkDoc(t) ==
    /\ flow[t] = "chunking" /\ nextDoc[t] <= NumDocs[t]
    /\ \E C \in SUBSET ({nextDoc[t]} \cap prepared[t] \cap files[t]) :
          chunked' = [chunked EXCEPT ![t] = @ \cup C]
    /\ nextDoc' = [nextDoc EXCEPT ![t] = @ + 1]
    /\ UNCHANGED <<handler, audit, status, disk, flow, prepared, auditDone, cleanup, restarts, history>>

\* All that could be chunked is; what follows extracts, gates and stores it.
Chunked(t) == flow[t] = "chunking" /\ nextDoc[t] = NumDocs[t] + 1

\* Later stages only write a status that is there; Redis errors are swallowed.
SetStatus(t, outcome) ==
    \/ status' = [status EXCEPT ![t] = IF @ = "absent" THEN @ ELSE outcome]
    \/ UNCHANGED status

\* Something was extracted and stored: complete_stage(LOAD); the usage rows and
\* the return to run_transform_flow follow.
FlowCompletes(t) ==
    /\ Chunked(t) /\ chunked[t] # {}
    /\ SetStatus(t, "completed")
    /\ FlowGoto(t, "closing")
    /\ UNCHANGED <<handler, nextDoc, audit, disk, prepared, chunked, auditDone, cleanup, restarts, history>>

\* A PDF cannot be split, nothing was extracted, the quality gate, storage:
\* fail_stage, the usage rows, and the exception goes on.
FlowFails(t) ==
    /\ flow[t] = "chunking"
    /\ SetStatus(t, "failed")
    /\ FlowGoto(t, "raising")
    /\ UNCHANGED <<handler, nextDoc, audit, disk, prepared, chunked, auditDone, cleanup, restarts, history>>

CloseSuccess(t) ==
    /\ flow[t] = "closing"
    /\ AuditEnds(auditDone, auditDone', t, "success")
    /\ FlowGoto(t, "done")
    /\ UNCHANGED <<handler, nextDoc, audit, status, disk, prepared, chunked, cleanup, restarts, history>>

\* MUTATION of CloseFailure: audit_id is closed in place of completion_audit_id.
CloseUploadRow(t) ==
    /\ flow[t] = "raising"
    /\ AuditEnds(audit, audit', t, "failed")
    /\ FlowGoto(t, "failed")
    /\ UNCHANGED <<handler, nextDoc, auditDone, status, disk, prepared, chunked, cleanup, restarts, history>>

CloseFailure(t) ==
    /\ flow[t] = "raising"
    /\ AuditEnds(auditDone, auditDone', t, "failed")
    /\ FlowGoto(t, "failed")
    /\ UNCHANGED <<handler, nextDoc, audit, status, disk, prepared, chunked, cleanup, restarts, history>>

-----------------------------------------------------------------------------
(* Cleanup and restarts *)

\* POST /transform/status/{id}/cleanup, whether or not the flow still runs.
RequestCleanup(t) ==
    /\ pc[t] = "accepted" /\ cleanup[t] = "no"
    /\ cleanup' = [cleanup EXCEPT ![t] = "scheduled"]
    /\ UNCHANGED <<handler, nextDoc, audit, status, disk, work, restarts, history>>

CleanupTransform(t) ==
    /\ cleanup[t] = "scheduled"
    /\ cleanup' = [cleanup EXCEPT ![t] = "done"]
    /\ status' = [status EXCEPT ![t] = "absent"]
    /\ RemoveDirs({t})
    /\ UNCHANGED <<handler, nextDoc, audit, work, restarts, history>>

\* The server restarts.  Handlers and background tasks are gone with their local
\* variables and nothing takes them up again; the status survives in Redis and is gone from the
\* in-memory fallback; startup removes the directories older than a day.
Restart ==
    /\ restarts < MaxRestarts
    /\ restarts' = restarts + 1
    /\ pc' = [t \in Transforms |-> IF pc[t] \in Answered THEN pc[t] ELSE "lost"]
    /\ flow' = [t \in Transforms |->
                  IF flow[t] \in {"none", "done", "failed"} THEN flow[t] ELSE "lost"]
    /\ cleanup' = [t \in Transforms |-> IF cleanup[t] = "scheduled" THEN "no" ELSE cleanup[t]]
    /\ \/ UNCHANGED status
       \/ status' = [t \in Transforms |-> "absent"]
    /\ \E old \in SUBSET dirs : RemoveDirs(old)
    /\ tempDir' = [t \in Transforms |-> "root"]
    /\ nextDoc' = [t \in Transforms |-> 1]
    /\ prepared' = [t \in Transforms |-> {}]
    /\ UNCHANGED <<audit, chunked, auditDone, history>>

\* A handler.  The three have these steps, in this order; the schemaless one has
\* no way to miss a schema.
HandlerStep(t) ==
    \/ PreflightAllows(t) \/ PreflightRefuses(t) \/ ParseConfigFails(t) \/ StartAudit(t)
    \/ Initialise(t) \/ InitialiseFails(t)
    \/ SaveFile(t) \/ SaveFileFails(t) \/ RejectFile(t)
    \/ Accept(t) \/ RejectWithoutSchema(t) \/ FinishFails(t)
    \/ HandleFailure(t)

FlowStep(t) ==
    \/ StartFlow(t) \/ PrepareDoc(t) \/ PrepareDocFails(t) \/ StartChunking(t)
    \/ ChunkDoc(t) \/ FlowCompletes(t) \/ FlowFails(t)
    \/ CloseSuccess(t) \/ CloseFailure(t)

Next ==
    \/ \E t \in Transforms :
          HandlerStep(t) \/ FlowStep(t) \/ RequestCleanup(t) \/ CleanupTransform(t)
    \/ Restart

\* The event loop resumes every handler, task and scheduled cleanup; requests
\* and restarts come when they come.
Spec ==
    /\ Init /\ [][Next]_vars
    /\ \A t \in Transforms :
          WF_vars(HandlerStep(t)) /\ WF_vars(FlowStep(t)) /\ WF_vars(CleanupTransform(t))

-----------------------------------------------------------------------------
(* Properties *)

\* An accepted transform keeps every uploaded document while its flow can run,
\* whatever happens to other uploads: only its own cleanup, its own failure to
\* store a document, or an upload that failed between its budget check and the
\* narrowing of temp_dir (malformed configuration, status store down) removes them.
DocumentsLostOnlyWithCause ==
    \A t \in Transforms :
        (pc[t] = "accepted" /\ flow[t] # "lost" /\ restarts = 0 /\ files[t] # Docs(t)) =>
            cleanup[t] = "done" \/ t \in saveFailed \/ unscoped

\* A request answered with a server error leaves no directory and no flow.
FailedUploadCleansItself ==
    \A t \in Transforms : pc[t] = "failed" => t \notin dirs /\ flow[t] = "none"

\* Neither the audit trail nor the status says more than happened: the upload
\* row succeeds only with an accepted request, whose flow has been handed over,
\* the status is closed only when all the work of the flow is done or has failed,
\* the completion row after it, and both as a success only with something chunked.
TrailTellsTheTruth ==
    \A t \in Transforms :
        /\ audit[t] = "success" => pc[t] = "accepted" /\ flow[t] # "none"
        /\ audit[t] = "failed" => pc[t] = "failed"
        /\ auditDone[t] = "success" => flow[t] = "done" /\ chunked[t] # {}
        /\ status[t] = "completed" => flow[t] \in {"closing", "done", "lost"} /\ chunked[t] # {}
        /\ auditDone[t] = "failed" => flow[t] = "failed"
        /\ status[t] = "failed" => flow[t] \in {"raising", "failed", "lost"}

\* Every request is answered and every accepted transform comes to an end,
\* unless the server restarts in the middle.
EveryUploadSettles ==
    \A t \in Transforms :
        <>[](pc[t] \in Answered \cup {"lost"}
             /\ (pc[t] = "accepted" => flow[t] \in {"done", "failed", "lost"}))
=============================================================================
