----------------------- MODULE TransformUploadProofs -----------------------
(***************************************************************************)
(* Proofs about TransformUpload, for any number of uploads in flight, any  *)
(* number of documents each, any set of failing audit writes and any       *)
(* number of restarts.                                                     *)
(***************************************************************************)
EXTENDS TransformUpload, BudgetGate, TLAPS

-----------------------------------------------------------------------------
(* Types *)

LEMMA DocsOf ==
    ASSUME NEW t \in Transforms
    PROVE  /\ NumDocs[t] \in Nat /\ NumDocs[t] > 0
           /\ Docs(t) = 1..NumDocs[t]
BY DocsAssumption DEF Docs

LEMMA TypeInit == Init => TypeOK
<1> SUFFICES ASSUME Init PROVE TypeOK
  OBVIOUS
<1>1. \A t \in Transforms : 1 \in Nat /\ 1 \in 1..(NumDocs[t] + 1)
  BY DocsOf
<1>2. 0 \in 0..MaxRestarts
  BY BoundsAssumption
<1> QED
  BY <1>1, <1>2 DEF Init, TypeOK, HandlerPCs, FlowPCs, Rows

\* Removing directories leaves fewer of them, and fewer files.
LEMMA RemoveDirsType ==
    ASSUME TypeOK, NEW D, RemoveDirs(D)
    PROVE  /\ dirs' \subseteq Transforms
           /\ DOMAIN files' = Transforms
           /\ \A t \in Transforms : files'[t] \subseteq Docs(t)
BY DEF TypeOK, RemoveDirs

LEMMA RemoveDirsKeeps ==
    ASSUME TypeOK, NEW D, RemoveDirs(D), NEW t \in Transforms
    PROVE  /\ t \in D => t \notin dirs' /\ files'[t] = {}
           /\ t \notin D => (t \in dirs' <=> t \in dirs) /\ files'[t] = files[t]
BY DEF TypeOK, RemoveDirs

LEMMA HandlerType ==
    ASSUME TypeOK, NEW t \in Transforms, HandlerStep(t)
    PROVE  TypeOK'
<1> USE DocsOf DEF TypeOK, HandlerPCs, Rows, handler, disk, work, history
<1>1. CASE PreflightAllows(t) \/ PreflightRefuses(t)
  BY <1>1 DEF PreflightAllows, PreflightRefuses, Goto
<1>2. CASE ParseConfigFails(t) \/ StartAudit(t)
  BY <1>2 DEF ParseConfigFails, StartAudit, AuditStarts, Goto
<1>3. CASE Initialise(t)
  BY <1>3 DEF Initialise, Goto
<1>4. CASE InitialiseFails(t)
  BY <1>4 DEF InitialiseFails, Goto
<1>5. CASE SaveFile(t)
  BY <1>5 DEF SaveFile
<1>6. CASE SaveFileFails(t) \/ RejectFile(t) \/ RejectWithoutSchema(t) \/ FinishFails(t)
  BY <1>6 DEF SaveFileFails, RejectFile, RejectWithoutSchema, FinishFails, Goto
<1>7. CASE Accept(t)
  BY <1>7 DEF Accept, AuditEnds, Goto, FlowPCs
<1>8. CASE HandleFailure(t)
  <2>1. /\ pc' \in [Transforms -> HandlerPCs] /\ audit' \in [Transforms -> Rows]
    BY <1>8 DEF HandleFailure, AuditEnds, Goto
  <2>2. /\ dirs' \subseteq Transforms /\ DOMAIN files' = Transforms
        /\ \A u \in Transforms : files'[u] \subseteq Docs(u)
    BY <1>8, RemoveDirsType DEF HandleFailure
  <2> QED
    BY <1>8, <2>1, <2>2 DEF HandleFailure
<1> QED
  BY <1>1, <1>2, <1>3, <1>4, <1>5, <1>6, <1>7, <1>8 DEF HandlerStep

LEMMA FlowType ==
    ASSUME TypeOK, NEW t \in Transforms, FlowStep(t)
    PROVE  TypeOK'
<1> USE DocsOf DEF TypeOK, FlowPCs, Rows, handler, disk, work, history
<1>1. CASE StartFlow(t)
  BY <1>1 DEF StartFlow, AuditStarts, FlowGoto
<1>2. CASE PrepareDoc(t)
  <2>1. PICK D \in SUBSET ({nextDoc[t]} \cap files[t]) :
              prepared' = [prepared EXCEPT ![t] = @ \cup D]
    BY <1>2 DEF PrepareDoc
  <2>2. DOMAIN prepared' = Transforms /\ \A u \in Transforms : prepared'[u] \subseteq Docs(u)
    BY <2>1
  <2>3. /\ nextDoc' \in [Transforms -> Nat]
        /\ \A u \in Transforms : nextDoc'[u] \in 1..(NumDocs[u] + 1)
    BY <1>2 DEF PrepareDoc
  <2> QED
    BY <1>2, <2>2, <2>3 DEF PrepareDoc
<1>3. CASE PrepareDocFails(t)
  <2>1. /\ dirs' \subseteq Transforms /\ DOMAIN files' = Transforms
        /\ \A u \in Transforms : files'[u] \subseteq Docs(u)
    BY <1>3, RemoveDirsType DEF PrepareDocFails
  <2> QED
    BY <1>3, <2>1 DEF PrepareDocFails
<1>4. CASE StartChunking(t)
  BY <1>4 DEF StartChunking, FlowGoto
<1>5. CASE ChunkDoc(t)
  <2>1. PICK D \in SUBSET ({nextDoc[t]} \cap prepared[t] \cap files[t]) :
              chunked' = [chunked EXCEPT ![t] = @ \cup D]
    BY <1>5 DEF ChunkDoc
  <2>2. DOMAIN chunked' = Transforms /\ \A u \in Transforms : chunked'[u] \subseteq Docs(u)
    BY <2>1
  <2>3. /\ nextDoc' \in [Transforms -> Nat]
        /\ \A u \in Transforms : nextDoc'[u] \in 1..(NumDocs[u] + 1)
    BY <1>5 DEF ChunkDoc
  <2> QED
    BY <1>5, <2>2, <2>3 DEF ChunkDoc
<1>6. CASE FlowCompletes(t)
  BY <1>6 DEF FlowCompletes, SetStatus, FlowGoto
<1>7. CASE FlowFails(t)
  BY <1>7 DEF FlowFails, SetStatus, FlowGoto
<1>8. CASE CloseSuccess(t)
  BY <1>8 DEF CloseSuccess, AuditEnds, FlowGoto
<1>9. CASE CloseFailure(t)
  BY <1>9 DEF CloseFailure, AuditEnds, FlowGoto
<1> QED
  BY <1>1, <1>2, <1>3, <1>4, <1>5, <1>6, <1>7, <1>8, <1>9 DEF FlowStep

LEMMA CleanupType ==
    ASSUME TypeOK, NEW t \in Transforms, RequestCleanup(t) \/ CleanupTransform(t)
    PROVE  TypeOK'
<1> USE DocsOf DEF TypeOK, handler, disk, work, history
<1>1. CASE RequestCleanup(t)
  BY <1>1 DEF RequestCleanup
<1>2. CASE CleanupTransform(t)
  <2>1. /\ dirs' \subseteq Transforms /\ DOMAIN files' = Transforms
        /\ \A u \in Transforms : files'[u] \subseteq Docs(u)
    BY <1>2, RemoveDirsType DEF CleanupTransform
  <2> QED
    BY <1>2, <2>1 DEF CleanupTransform
<1> QED
  BY <1>1, <1>2

LEMMA RestartType ==
    ASSUME TypeOK, Restart
    PROVE  TypeOK'
<1>1. PICK old \in SUBSET dirs : RemoveDirs(old)
  BY DEF Restart
<1>2. /\ dirs' \subseteq Transforms /\ DOMAIN files' = Transforms
      /\ \A u \in Transforms : files'[u] \subseteq Docs(u)
  BY <1>1, RemoveDirsType
<1>3. restarts' \in 0..MaxRestarts
  BY BoundsAssumption DEF Restart, TypeOK
<1>4. /\ pc' \in [Transforms -> HandlerPCs] /\ flow' \in [Transforms -> FlowPCs]
      /\ cleanup' \in [Transforms -> {"no", "scheduled", "done"}]
      /\ status' \in [Transforms -> {"absent", "initializing", "completed", "failed"}]
  BY DEF Restart, TypeOK, HandlerPCs, FlowPCs
<1>5. /\ tempDir' \in [Transforms -> {"root", "own"}]
      /\ nextDoc' \in [Transforms -> Nat] /\ DOMAIN prepared' = Transforms
      /\ \A t \in Transforms : nextDoc'[t] \in 1..(NumDocs[t] + 1) /\ prepared'[t] \subseteq Docs(t)
  BY DocsOf DEF Restart
<1> QED
  BY <1>2, <1>3, <1>4, <1>5 DEF Restart, TypeOK, history

LEMMA TypeNext == TypeOK /\ [Next]_vars => TypeOK'
<1> SUFFICES ASSUME TypeOK, [Next]_vars PROVE TypeOK'
  OBVIOUS
<1>1. CASE Next
  BY <1>1, HandlerType, FlowType, CleanupType, RestartType DEF Next
<1>2. CASE UNCHANGED vars
  BY <1>2 DEF TypeOK, vars, handler, disk, work, history
<1> QED
  BY <1>1, <1>2

\* Whatever uploads, flows, cleanups and restarts interleave, the handlers, their
\* rows and directories keep their types; no list of documents outgrows the upload.
THEOREM TypeCorrect == Spec => []TypeOK
BY TypeInit, TypeNext, PTL DEF Spec

-----------------------------------------------------------------------------
(* What an upload leaves behind, and what may take its documents away *)

\* What the place of the handler says about its flow, and about the directory
\* its error branch would remove: UPLOAD_DIR itself only after a failure before the narrowing.
Standing(t) ==
    /\ flow[t] # "none" <=> pc[t] = "accepted"
    /\ pc[t] = "saving" => tempDir[t] = "own"
    /\ pc[t] = "failing" /\ tempDir[t] = "root" => unscoped
    /\ pc[t] = "failed" => t \notin dirs

\* Nothing has happened that may remove the documents of t.
Uninjured(t) == restarts = 0 /\ ~unscoped /\ cleanup[t] # "done" /\ t \notin saveFailed

\* The documents saved so far, as long as nothing may have removed them.
Saves(t) ==
    Uninjured(t) =>
        /\ pc[t] \in {"preflight", "auditStart", "initialise"} => nextDoc[t] = 1 /\ files[t] = {}
        /\ pc[t] = "saving" => files[t] = 1..(nextDoc[t] - 1)
        /\ pc[t] = "accepted" => files[t] = Docs(t)

\* The rows and the status of t are no further than its handler and its flow.
Trail(t) ==
    /\ audit[t] = "success" => pc[t] = "accepted"
    /\ audit[t] = "failed" => pc[t] = "failed"
    /\ auditDone[t] = "success" => flow[t] = "done" /\ chunked[t] # {}
    /\ status[t] = "completed" => flow[t] \in {"closing", "done", "lost"} /\ chunked[t] # {}
    /\ auditDone[t] = "failed" => flow[t] = "failed"
    /\ status[t] = "failed" => flow[t] \in {"raising", "failed", "lost"}
    /\ flow[t] = "closing" => chunked[t] # {}
    /\ flow[t] \in {"none", "queued", "preparing", "chunking", "closing", "raising", "lost"} =>
          auditDone[t] \notin {"success", "failed"}

UploadInv == \A t \in Transforms : Standing(t) /\ Saves(t) /\ Trail(t)

LEMMA UploadInit == Init => UploadInv
BY DEF Init, UploadInv, Standing, Saves, Trail

LEMMA HandlerKeepsStanding ==
    ASSUME TypeOK, UploadInv, NEW t \in Transforms, HandlerStep(t), NEW u \in Transforms
    PROVE  Standing(u)' /\ Trail(u)'
<1> USE DEF TypeOK, UploadInv, Standing, Trail, handler, disk, work, history
<1>1. CASE PreflightAllows(t) \/ PreflightRefuses(t)
  BY <1>1 DEF PreflightAllows, PreflightRefuses, Goto
<1>2. CASE ParseConfigFails(t) \/ StartAudit(t)
  BY <1>2 DEF ParseConfigFails, StartAudit, AuditStarts, Goto
<1>3. CASE Initialise(t)
  BY <1>3 DEF Initialise, Goto
<1>4. CASE InitialiseFails(t)
  BY <1>4 DEF InitialiseFails, Goto
<1>5. CASE SaveFile(t)
  BY <1>5 DEF SaveFile
<1>6. CASE SaveFileFails(t) \/ RejectFile(t) \/ RejectWithoutSchema(t) \/ FinishFails(t)
  BY <1>6 DEF SaveFileFails, RejectFile, RejectWithoutSchema, FinishFails, Saved, Goto
<1>7. CASE Accept(t)
  BY <1>7 DEF Accept, Saved, AuditEnds, Goto
<1>8. CASE HandleFailure(t)
  <2>1. Standing(u)'
    BY <1>8 DEF HandleFailure, RemoveDirs, Goto
  <2>2. Trail(u)'
    BY <1>8 DEF HandleFailure, AuditEnds, Goto
  <2> QED
    BY <2>1, <2>2
<1> QED
  BY <1>1, <1>2, <1>3, <1>4, <1>5, <1>6, <1>7, <1>8 DEF HandlerStep

LEMMA FlowKeepsStanding ==
    ASSUME TypeOK, UploadInv, NEW t \in Transforms, FlowStep(t), NEW u \in Transforms
    PROVE  Standing(u)' /\ Trail(u)'
<1> USE DEF TypeOK, UploadInv, Standing, Trail, handler, disk, work, history
<1>1. CASE StartFlow(t)
  BY <1>1 DEF StartFlow, AuditStarts, FlowGoto
<1>2. CASE PrepareDoc(t)
  BY <1>2 DEF PrepareDoc
<1>3. CASE PrepareDocFails(t)
  BY <1>3 DEF PrepareDocFails, RemoveDirs
<1>4. CASE StartChunking(t)
  BY <1>4 DEF StartChunking, FlowGoto
<1>5. CASE ChunkDoc(t)
  BY <1>5 DEF ChunkDoc
<1>6. CASE FlowCompletes(t)
  BY <1>6 DEF FlowCompletes, Chunked, SetStatus, FlowGoto
<1>7. CASE FlowFails(t)
  BY <1>7 DEF FlowFails, SetStatus, FlowGoto
<1>8. CASE CloseSuccess(t)
  BY <1>8 DEF CloseSuccess, AuditEnds, FlowGoto
<1>9. CASE CloseFailure(t)
  BY <1>9 DEF CloseFailure, AuditEnds, FlowGoto
<1> QED
  BY <1>1, <1>2, <1>3, <1>4, <1>5, <1>6, <1>7, <1>8, <1>9 DEF FlowStep

LEMMA OthersKeepStanding ==
    ASSUME TypeOK, UploadInv, NEW u \in Transforms,
           \/ \E t \in Transforms : RequestCleanup(t) \/ CleanupTransform(t)
           \/ Restart
    PROVE  Standing(u)' /\ Trail(u)'
<1> USE DEF TypeOK, UploadInv, Standing, Trail, handler, disk, work, history
<1>1. CASE \E t \in Transforms : RequestCleanup(t)
  BY <1>1 DEF RequestCleanup
<1>2. CASE \E t \in Transforms : CleanupTransform(t)
  BY <1>2 DEF CleanupTransform, RemoveDirs
<1>3. CASE Restart
  BY <1>3 DEF Restart, RemoveDirs, Answered
<1> QED
  BY <1>1, <1>2, <1>3
\* A step that leaves u's handler, its documents and its cleanup as they are.
LEMMA SavesKept ==
    ASSUME NEW u \in Transforms, Saves(u), Uninjured(u)' => Uninjured(u),
           pc'[u] = pc[u], nextDoc'[u] = nextDoc[u] \/ pc[u] = "accepted", files'[u] = files[u]
    PROVE  Saves(u)'
BY DEF Saves, Docs

LEMMA HandlerKeepsSaves ==
    ASSUME TypeOK, UploadInv, NEW t \in Transforms, HandlerStep(t), NEW u \in Transforms
    PROVE  Saves(u)'
<1> USE DEF TypeOK, UploadInv, handler, disk, work, history
<1>1. CASE \/ PreflightAllows(t) \/ PreflightRefuses(t) \/ ParseConfigFails(t) \/ StartAudit(t)
           \/ SaveFileFails(t) \/ RejectFile(t) \/ RejectWithoutSchema(t) \/ FinishFails(t)
  <2>1. /\ Uninjured(u)' => Uninjured(u)
        /\ nextDoc'[u] = nextDoc[u] /\ files'[u] = files[u]
        /\ pc'[u] = pc[u] \/ (pc[u] = "preflight" /\ pc'[u] = "auditStart")
              \/ (pc[u] = "auditStart" /\ pc'[u] = "initialise")
              \/ pc'[u] \in {"refused", "rejected", "failing"}
    BY <1>1 DEF PreflightAllows, PreflightRefuses, ParseConfigFails, StartAudit, SaveFileFails, RejectFile,
                RejectWithoutSchema, FinishFails, Goto, Uninjured
  <2> QED
    BY <2>1 DEF Saves, Docs
<1>2. CASE Initialise(t)
  <2>1. /\ Uninjured(u)' => Uninjured(u)
        /\ nextDoc'[u] = nextDoc[u] /\ files'[u] = files[u]
        /\ pc'[u] = pc[u] \/ (pc[u] = "initialise" /\ pc'[u] = "saving")
    BY <1>2 DEF Initialise, Goto, Uninjured
  <2>2. CASE pc'[u] = pc[u]
    BY <2>1, <2>2, SavesKept
  <2>3. CASE pc[u] = "initialise" /\ pc'[u] = "saving"
    <3>1. 1..(1 - 1) = {}
      OBVIOUS
    <3>2. Uninjured(u)' => nextDoc'[u] = 1 /\ files'[u] = {}
      BY <2>1, <2>3 DEF Saves
    <3> QED
      BY <2>3, <3>1, <3>2 DEF Saves
  <2> QED
    BY <2>1, <2>2, <2>3
<1>3. CASE InitialiseFails(t)
  <2>1. /\ Uninjured(u)' => Uninjured(u)
        /\ nextDoc'[u] = nextDoc[u] /\ files'[u] = files[u]
        /\ pc'[u] = pc[u] \/ pc'[u] = "failing"
    BY <1>3 DEF InitialiseFails, Goto, Uninjured
  <2> QED
    BY <2>1 DEF Saves, Docs
<1>4. CASE SaveFile(t)
  <2>1. CASE u = t
    <3>1. /\ Uninjured(t)' => Uninjured(t)
          /\ nextDoc'[t] = nextDoc[t] + 1 /\ files'[t] = files[t] \cup {nextDoc[t]}
          /\ pc[t] = "saving" /\ pc'[t] = "saving" /\ nextDoc[t] \in Nat /\ nextDoc[t] > 0
      BY <1>4, DocsOf DEF SaveFile, Uninjured
    <3>2. (1..(nextDoc[t] - 1)) \cup {nextDoc[t]} = 1..(nextDoc[t] + 1 - 1)
      BY <3>1
    <3>3. Uninjured(t)' => files'[t] = 1..(nextDoc'[t] - 1)
      BY <3>1, <3>2 DEF Saves
    <3> QED
      BY <2>1, <3>1, <3>3 DEF Saves
  <2>2. CASE u # t
    BY <1>4, <2>2, SavesKept DEF SaveFile, Uninjured
  <2> QED
    BY <2>1, <2>2
<1>5. CASE Accept(t)
  <2>1. CASE u = t
    BY <1>5, <2>1, DocsOf DEF Accept, Saved, Goto, Saves, Uninjured
  <2>2. CASE u # t
    BY <1>5, <2>2, SavesKept DEF Accept, Goto, Uninjured
  <2> QED
    BY <2>1, <2>2
<1>6. CASE HandleFailure(t)
  <2>1. CASE u = t
    BY <1>6, <2>1 DEF HandleFailure, Goto, Saves
  <2>2. CASE u # t
    <3>1. tempDir[t] # "own" => unscoped'
      BY <1>6 DEF HandleFailure, Standing
    <3>2. tempDir[t] = "own" => files'[u] = files[u]
      BY <1>6, <2>2 DEF HandleFailure, RemoveDirs
    <3> QED
      BY <1>6, <2>2, <3>1, <3>2, SavesKept DEF HandleFailure, Goto, Uninjured, Saves
  <2> QED
    BY <2>1, <2>2
<1> QED
  BY <1>1, <1>2, <1>3, <1>4, <1>5, <1>6 DEF HandlerStep

LEMMA FlowKeepsSaves ==
    ASSUME TypeOK, UploadInv, NEW t \in Transforms, FlowStep(t), NEW u \in Transforms
    PROVE  Saves(u)'
<1> USE DEF TypeOK, UploadInv, handler, disk, work, history
<1>1. pc' = pc /\ (t # u => nextDoc'[u] = nextDoc[u])
  BY DEF FlowStep, StartFlow, PrepareDoc, PrepareDocFails, StartChunking, ChunkDoc,
         FlowCompletes, FlowFails, CloseSuccess, CloseFailure
<1>2. pc[t] = "accepted"
  BY DEF FlowStep, StartFlow, PrepareDoc, PrepareDocFails, StartChunking, ChunkDoc,
         FlowCompletes, FlowFails, CloseSuccess, CloseFailure, Chunked, Standing
<1>3. Uninjured(u)' => Uninjured(u)
  BY DEF FlowStep, StartFlow, PrepareDoc, PrepareDocFails, StartChunking, ChunkDoc,
         FlowCompletes, FlowFails, CloseSuccess, CloseFailure, Uninjured
<1>4. files'[u] = files[u] \/ (u = t /\ t \in saveFailed')
  BY DEF FlowStep, StartFlow, PrepareDoc, PrepareDocFails, RemoveDirs, StartChunking, ChunkDoc,
         FlowCompletes, FlowFails, CloseSuccess, CloseFailure
<1>5. CASE files'[u] = files[u]
  BY <1>1, <1>2, <1>3, <1>5, SavesKept
<1>6. CASE u = t /\ t \in saveFailed'
  BY <1>6 DEF Saves, Uninjured
<1> QED
  BY <1>4, <1>5, <1>6

LEMMA OthersKeepSaves ==
    ASSUME TypeOK, UploadInv, NEW u \in Transforms,
           \/ \E t \in Transforms : RequestCleanup(t) \/ CleanupTransform(t)
           \/ Restart
    PROVE  Saves(u)'
<1> USE DEF TypeOK, UploadInv, handler, disk, work, history
<1>1. CASE \E t \in Transforms : RequestCleanup(t)
  BY <1>1, SavesKept DEF RequestCleanup, Uninjured
<1>2. CASE \E t \in Transforms : CleanupTransform(t)
  <2>1. PICK t \in Transforms : CleanupTransform(t)
    BY <1>2
  <2>2. CASE u = t
    BY <2>1, <2>2 DEF CleanupTransform, Saves, Uninjured
  <2>3. CASE u # t
    BY <2>1, <2>3, SavesKept DEF CleanupTransform, RemoveDirs, Uninjured
  <2> QED
    BY <2>2, <2>3
<1>3. CASE Restart
  <2>1. restarts' # 0
    BY <1>3 DEF Restart
  <2> QED
    BY <2>1 DEF Saves, Uninjured
<1> QED
  BY <1>1, <1>2, <1>3

LEMMA UploadNext == TypeOK /\ UploadInv /\ [Next]_vars => UploadInv'
<1> SUFFICES ASSUME TypeOK, UploadInv, [Next]_vars, NEW u \in Transforms
             PROVE  Standing(u)' /\ Saves(u)' /\ Trail(u)'
  BY DEF UploadInv
<1>1. CASE \E t \in Transforms : HandlerStep(t)
  BY <1>1, HandlerKeepsStanding, HandlerKeepsSaves
<1>2. CASE \E t \in Transforms : FlowStep(t)
  BY <1>2, FlowKeepsStanding, FlowKeepsSaves
<1>3. CASE \/ \E t \in Transforms : RequestCleanup(t) \/ CleanupTransform(t)
           \/ Restart
  BY <1>3, OthersKeepStanding, OthersKeepSaves
<1>4. CASE UNCHANGED vars
  BY <1>4 DEF UploadInv, Standing, Saves, Uninjured, Docs, Trail, vars, handler, disk, work, history
<1> QED
  BY <1>1, <1>2, <1>3, <1>4 DEF Next

LEMMA UploadAlways == Spec => [](TypeOK /\ UploadInv)
BY TypeInit, TypeNext, UploadInit, UploadNext, PTL DEF Spec

\* However many uploads fail or succeed around it, the documents of an accepted
\* transform stay until its own cleanup, its own failure to store one of them, a
\* restart, or an upload that failed before temp_dir was its own (api/transform.py
\* removes temp_dir, whatever it is at that point).
THEOREM DocumentsStay == Spec => []DocumentsLostOnlyWithCause
<1>1. UploadInv => DocumentsLostOnlyWithCause
  BY DEF UploadInv, Saves, Uninjured, DocumentsLostOnlyWithCause
<1> QED
  BY <1>1, UploadAlways, PTL

\* An upload answered with a server error has no directory and no flow left, and
\* neither a flow, a restart nor another upload brings one back.
THEOREM FailureLeavesNothing == Spec => []FailedUploadCleansItself
<1>1. UploadInv => FailedUploadCleansItself
  BY DEF UploadInv, Standing, FailedUploadCleansItself
<1> QED
  BY <1>1, UploadAlways, PTL

\* With any audit writes failing and any number of restarts, no audit row and no
\* status says that a handler or a flow got further than it did.
THEOREM TrailIsTrue == Spec => []TrailTellsTheTruth
<1>1. UploadInv => TrailTellsTheTruth
  BY DEF UploadInv, Standing, Trail, TrailTellsTheTruth
<1> QED
  BY <1>1, UploadAlways, PTL

-----------------------------------------------------------------------------
(***************************************************************************)
(* The gate in front of the upload, for any set of requests, caps and      *)
(* costs and any number of months.                                         *)
(***************************************************************************)

(* Types *)

LEMMA MarkedType ==
    ASSUME NEW h \in [Requests -> BOOLEAN], NEW b \in BOOLEAN
    PROVE  Marked(h, b) \in [Requests -> BOOLEAN]
BY DEF Marked, Checking

LEMMA ObserveType ==
    ASSUME GateTypeOK, Observe
    PROVE  room' \in [Requests -> BOOLEAN] /\ over' \in [Requests -> BOOLEAN]
BY DEF GateTypeOK, Observe, Marked, Checking, HasRoom

LEMMA GateTypeInit == GateInit => GateTypeOK
BY CapAssumption, CostAssumption DEF GateInit, GateTypeOK, Months, PCs

LEMMA GateTypeNext == GateTypeOK /\ [GateNext]_gateVars => GateTypeOK'
<1> SUFFICES ASSUME GateTypeOK, [GateNext]_gateVars
             PROVE  GateTypeOK'
  OBVIOUS
<1>1. ASSUME NEW r \in Requests, ReadBudget(r)
      PROVE  GateTypeOK'
  BY <1>1 DEF ReadBudget, GateTypeOK, PCs, HasRoom
<1>2. ASSUME NEW r \in Requests, ReadBudgetFails(r)
      PROVE  GateTypeOK'
  BY <1>2 DEF ReadBudgetFails, GateTypeOK, PCs, checkHistory
<1>3. ASSUME NEW r \in Requests, ReadSpend(r)
      PROVE  GateTypeOK'
  BY <1>3 DEF ReadSpend, GateTypeOK, PCs, checkHistory
<1>4. ASSUME NEW r \in Requests, ReadSpendFails(r)
      PROVE  GateTypeOK'
  BY <1>4 DEF ReadSpendFails, GateTypeOK, PCs, checkHistory
<1>5. ASSUME CapChanges, cap' \in Caps \cup {NoCap}
      PROVE  GateTypeOK'
  <2>1. capMoved' \in [Requests -> BOOLEAN]
    BY <1>5, MarkedType DEF CapChanges, GateTypeOK
  <2> QED
    BY <1>5, <2>1, ObserveType DEF CapChanges, GateTypeOK, request
<1>6. ASSUME NEW c \in Costs, RecordCall(c)
      PROVE  GateTypeOK'
  <2>1. spend' \in [Months -> Nat]
    BY <1>6, CostAssumption DEF RecordCall, GateTypeOK
  <2> QED
    BY <1>6, <2>1, ObserveType DEF RecordCall, GateTypeOK, request
<1>7. CASE MonthEnds
  <2>1. month' \in Months
    BY <1>7, CostAssumption DEF MonthEnds, GateTypeOK, Months
  <2>2. rolled' \in [Requests -> BOOLEAN]
    BY <1>7, MarkedType DEF MonthEnds, GateTypeOK
  <2> QED
    BY <1>7, <2>1, <2>2, ObserveType DEF MonthEnds, GateTypeOK, request
<1>8. CASE UNCHANGED gateVars
  BY <1>8 DEF gateVars, request, checkHistory, GateTypeOK
<1> QED
  BY <1>1, <1>2, <1>3, <1>4, <1>5, <1>6, <1>7, <1>8 DEF GateNext, SetBudget, DeleteBudget

-----------------------------------------------------------------------------
(* The two reads *)

\* What a check knows between its two reads: a cap that was not moved is still
\* the cap; within the month the spend only grows, so a check that has seen no
\* room at all is over the cap it has read; the present instant is observed.
BetweenReads(r) ==
    /\ seenCap[r] \in Nat
    /\ ~capMoved[r] => cap = seenCap[r]
    /\ (~rolled[r] /\ ~room[r]) => spend[month] >= seenCap[r]
    /\ HasRoom => room[r]
    /\ ~HasRoom => over[r]

GateInv ==
    /\ \A r \in Requests : gate[r] = "spend" => BetweenReads(r)
    /\ AdmittedHadRoom
    /\ RefusedWasOver

LEMMA GateInvInit == GateInit => GateInv
BY DEF GateInit, GateInv, AdmittedHadRoom, RefusedWasOver

\* A step of the world around the gate: the requests stand where they stood and
\* every check under way sees the new state.
LEMMA WorldMoves ==
    ASSUME GateTypeOK, GateTypeOK', GateInv, Observe, UNCHANGED request,
           \A r \in Requests :
              /\ gate[r] = "spend" =>
                    /\ capMoved'[r] \/ cap' = cap
                    /\ rolled'[r] \/ (month' = month /\ spend'[month] >= spend[month])
              /\ capMoved[r] => capMoved'[r]
              /\ rolled[r] => rolled'[r]
    PROVE  GateInv'
<1>1. \A r \in Requests : /\ room'[r] = (room[r] \/ (gate[r] = "spend" /\ HasRoom'))
                          /\ over'[r] = (over[r] \/ (gate[r] = "spend" /\ ~HasRoom'))
  BY DEF Observe, Marked, Checking
<1>2. gate' = gate /\ seenCap' = seenCap
  BY DEF request
<1>3. ASSUME NEW r \in Requests, gate'[r] = "spend"
      PROVE  BetweenReads(r)'
  <2>1. BetweenReads(r)
    BY <1>2, <1>3 DEF GateInv
  <2>2. spend[month] \in Nat /\ spend'[month'] \in Nat /\ month' \in Months
    BY DEF GateTypeOK
  <2>3. ASSUME ~rolled'[r], ~room'[r]
        PROVE  spend'[month'] >= seenCap'[r]
    <3>1. gate[r] = "spend" /\ ~rolled[r]
      BY <1>2, <1>3, <2>3
    <3>2. ~room[r]
      BY <1>1, <2>3
    <3>3. spend[month] >= seenCap[r] /\ seenCap[r] \in Nat
      BY <2>1, <3>1, <3>2 DEF BetweenReads
    <3>4. month' = month /\ spend'[month] >= spend[month]
      BY <2>3, <3>1
    <3> QED
      BY <1>2, <2>2, <3>3, <3>4
  <2>4. ~capMoved'[r] => cap' = seenCap'[r]
    BY <1>2, <1>3, <2>1 DEF BetweenReads
  <2> QED
    BY <1>1, <1>2, <1>3, <2>1, <2>3, <2>4 DEF BetweenReads
<1>4. AdmittedHadRoom'
  BY <1>1, <1>2 DEF GateInv, AdmittedHadRoom
<1>5. RefusedWasOver'
  BY <1>1, <1>2 DEF GateInv, RefusedWasOver
<1> QED
  BY <1>3, <1>4, <1>5 DEF GateInv

LEMMA GateInvNext == GateTypeOK /\ GateTypeOK' /\ GateInv /\ [GateNext]_gateVars => GateInv'
<1> SUFFICES ASSUME GateTypeOK, GateTypeOK', GateInv, [GateNext]_gateVars
             PROVE  GateInv'
  OBVIOUS
<1>1. ASSUME NEW r \in Requests, ReadBudget(r)
      PROVE  GateInv'
  <2>1. \A q \in Requests \ {r} :
           /\ gate'[q] = gate[q] /\ seenCap'[q] = seenCap[q]
           /\ room'[q] = room[q] /\ over'[q] = over[q]
    BY <1>1 DEF ReadBudget, GateTypeOK
  <2>2. UNCHANGED <<month, spend, cap, capMoved, rolled>>
    BY <1>1 DEF ReadBudget
  <2>3. /\ seenCap'[r] = cap /\ room'[r] = HasRoom /\ over'[r] = ~HasRoom
        /\ gate'[r] = IF cap = NoCap THEN "admitted" ELSE "spend"
    BY <1>1 DEF ReadBudget, GateTypeOK
  <2>4. HasRoom' = HasRoom
    BY <2>2 DEF HasRoom
  <2>5. \A q \in Requests \ {r} : gate'[q] = "spend" => BetweenReads(q)'
    BY <2>1, <2>2, <2>4 DEF GateInv, BetweenReads
  <2>6. ASSUME gate'[r] = "spend"
        PROVE  BetweenReads(r)'
    <3>1. cap \in Nat /\ cap # NoCap /\ spend[month] \in Nat
      BY <2>3, <2>6, CapAssumption DEF GateTypeOK
    <3>2. ~HasRoom => spend[month] >= cap
      BY <3>1 DEF HasRoom
    <3> QED
      BY <2>2, <2>3, <2>4, <3>1, <3>2 DEF BetweenReads
  <2>7. gate'[r] = "admitted" => room'[r]
    BY <2>3 DEF HasRoom
  <2>8. gate'[r] # "refused"
    BY <2>3
  <2>9. AdmittedHadRoom' /\ RefusedWasOver'
    BY <2>1, <2>2, <2>7, <2>8 DEF GateInv, AdmittedHadRoom, RefusedWasOver
  <2> QED
    BY <2>5, <2>6, <2>9 DEF GateInv
<1>2. ASSUME NEW r \in Requests, ReadSpend(r)
      PROVE  GateInv'
  <2>1. /\ gate[r] = "spend" /\ UNCHANGED <<month, spend, cap, seenCap, checkHistory>>
        /\ \A q \in Requests \ {r} : gate'[q] = gate[q]
        /\ gate'[r] = IF Affordable(r) THEN "admitted" ELSE "refused"
    BY <1>2 DEF ReadSpend, GateTypeOK
  <2>2. BetweenReads(r) /\ spend[month] \in Nat
    BY <2>1 DEF GateInv, GateTypeOK
  <2>3. Affordable(r) => room[r] \/ (rolled[r] /\ capMoved[r])
    <3>1. ASSUME Affordable(r), ~rolled[r]
          PROVE  room[r]
      BY <2>2, <3>1 DEF Affordable, BetweenReads
    <3>2. ASSUME Affordable(r), ~capMoved[r]
          PROVE  room[r]
      BY <2>2, <3>2 DEF Affordable, BetweenReads, HasRoom
    <3> QED
      BY <3>1, <3>2
  <2>4. ~Affordable(r) => over[r] \/ capMoved[r]
    <3>1. ASSUME ~Affordable(r), cap = seenCap[r]
          PROVE  ~HasRoom
      BY <2>2, <3>1, CapAssumption DEF Affordable, BetweenReads, HasRoom
    <3> QED
      BY <2>2, <3>1 DEF BetweenReads
  <2>5. \A q \in Requests : gate'[q] = "spend" => BetweenReads(q)'
    BY <2>1 DEF GateInv, BetweenReads, HasRoom, checkHistory
  <2>6. AdmittedHadRoom'
    BY <2>1, <2>3 DEF GateInv, AdmittedHadRoom, checkHistory
  <2>7. RefusedWasOver'
    BY <2>1, <2>4 DEF GateInv, RefusedWasOver, checkHistory
  <2> QED
    BY <2>5, <2>6, <2>7 DEF GateInv
<1>3. ASSUME NEW r \in Requests, ReadBudgetFails(r) \/ ReadSpendFails(r)
      PROVE  GateInv'
  <2>1. /\ UNCHANGED <<month, spend, cap, seenCap, checkHistory>>
        /\ \A q \in Requests \ {r} : gate'[q] = gate[q]
        /\ gate'[r] \in {"noBudgetRead", "noSpendRead"}
    BY <1>3 DEF ReadBudgetFails, ReadSpendFails, GateTypeOK
  <2> QED
    BY <2>1 DEF GateInv, BetweenReads, HasRoom, AdmittedHadRoom, RefusedWasOver, checkHistory
<1>4. CASE CapChanges
  <2>1. \A r \in Requests : /\ gate[r] = "spend" => capMoved'[r]
                            /\ capMoved[r] => capMoved'[r]
    BY <1>4 DEF CapChanges, Marked, Checking
  <2>2. spend'[month] >= spend[month] /\ month' = month
    <3>1. spend[month] \in Nat
      BY DEF GateTypeOK
    <3> QED
      BY <1>4, <3>1 DEF CapChanges
  <2>3. Observe /\ UNCHANGED request /\ rolled' = rolled
    BY <1>4 DEF CapChanges
  <2> QED
    BY <2>1, <2>2, <2>3, WorldMoves
<1>5. ASSUME NEW c \in Costs, RecordCall(c)
      PROVE  GateInv'
  <2>1. spend'[month] >= spend[month]
    BY <1>5, CostAssumption DEF RecordCall, GateTypeOK
  <2> QED
    BY <1>5, <2>1, WorldMoves DEF RecordCall
<1>6. CASE MonthEnds
  <2>1. \A r \in Requests : /\ gate[r] = "spend" => rolled'[r]
                            /\ rolled[r] => rolled'[r]
    BY <1>6 DEF MonthEnds, Marked, Checking
  <2> QED
    BY <1>6, <2>1, WorldMoves DEF MonthEnds
<1>7. CASE UNCHANGED gateVars
  BY <1>7 DEF gateVars, request, checkHistory, GateInv, BetweenReads, HasRoom, AdmittedHadRoom, RefusedWasOver
<1> QED
  BY <1>1, <1>2, <1>3, <1>4, <1>5, <1>6, <1>7 DEF GateNext, SetBudget, DeleteBudget

\* The variables always hold values of their types.
THEOREM GateTypeCorrect == GateSpec => []GateTypeOK
BY GateTypeInit, GateTypeNext, PTL DEF GateSpec

\* No race of cap changes, recorded calls and failing reads lets an upload
\* through enforce_budget_preflight that had no room at any instant of its
\* check, save a month's end together with a moved cap.
THEOREM AdmissionIsEarned == GateSpec => []AdmittedHadRoom
<1>1. GateSpec => [](GateTypeOK /\ GateInv)
  BY GateTypeInit, GateTypeNext, GateInvInit, GateInvNext, PTL DEF GateSpec
<1> QED
  BY <1>1, PTL DEF GateInv

\* A 402 is given for a cap that was reached during the check, or moved.
THEOREM RefusalIsEarned == GateSpec => []RefusedWasOver
<1>1. GateSpec => [](GateTypeOK /\ GateInv)
  BY GateTypeInit, GateTypeNext, GateInvInit, GateInvNext, PTL DEF GateSpec
<1> QED
  BY <1>1, PTL DEF GateInv
=============================================================================
