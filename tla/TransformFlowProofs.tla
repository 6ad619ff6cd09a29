------------------------ MODULE TransformFlowProofs ------------------------
(***************************************************************************)
(* Proofs about TransformFlow, for any documents and failing writes, and   *)
(* about GraphBuild, the inside of its TRANSFORM stage, for any documents, *)
(* verdicts of the LLM, groups and matches.                                *)
(***************************************************************************)
EXTENDS TransformFlow, GraphBuild, FiniteSetTheorems, TLAPS

-----------------------------------------------------------------------------
(* The first graph *)

\* A set of naturals with an element has a least one: of the intervals up to
\* its elements one has no other inside it.
LEMMA HasLeast ==
    ASSUME NEW T \in SUBSET Nat, T # {}
    PROVE  \E x \in T : \A y \in T : x <= y
<1> DEFINE F == {1..x : x \in T}
<1>1. F \subseteq FiniteSubsetsOf(Nat) /\ F # {}
  <2>1. \A x \in T : IsFiniteSet(1..x)
    BY FS_Interval
  <2>2. \A x \in T : 1..x \in FiniteSubsetsOf(Nat)
    BY <2>1 DEF FiniteSubsetsOf
  <2> QED
    BY <2>2
<1>2. PICK I \in F : \A J \in F : <<J, I>> \notin StrictSubsetOrdering(Nat)
  <2> HIDE DEF F
  <2> QED
    BY <1>1, FS_StrictSubsetOrderingWellFounded, WFMin
<1>3. PICK x \in T : I = 1..x
  OBVIOUS
<1>4. ASSUME NEW y \in T, y < x
      PROVE  FALSE
  <2>1. 1..y \in F /\ I \in SUBSET Nat /\ 1..y \in SUBSET Nat
    BY <1>3
  <2>2. 1..y \subseteq I /\ x \in I /\ x \notin 1..y
    BY <1>3, <1>4
  <2>3. <<1..y, I>> \in StrictSubsetOrdering(Nat)
    BY <2>1, <2>2 DEF StrictSubsetOrdering
  <2> QED
    BY <1>2, <2>1, <2>3
<1> QED
  BY <1>4

LEMMA GraphsAreNumbers ==
    TypeOK => graphs \subseteq Nat \ {0} /\ (\A g \in graphs : g <= PdfGraph)
BY DocsAssumption DEF TypeOK, Docs, PdfGraph

\* GatePasses chooses a graph.
LEMMA FirstGraph ==
    ASSUME TypeOK, graphs # {}
    PROVE  (CHOOSE g \in graphs : \A h \in graphs : g <= h) \in graphs \ {0}
<1>1. graphs \in SUBSET Nat /\ 0 \notin graphs
  BY GraphsAreNumbers
<1>2. \E g \in graphs : \A h \in graphs : g <= h
  BY <1>1, HasLeast
<1> QED
  BY <1>1, <1>2

-----------------------------------------------------------------------------
(* The status document *)

LEMMA StageValues ==
    /\ Stages = 1..6 /\ Upload = 1 /\ Parse = 2 /\ Chunk = 3
    /\ Transform = 4 /\ Load = 5 /\ Failed = 6
BY DEF Stages, Upload, Parse, Chunk, Transform, Load, Failed

LEMMA StatusFields ==
    ASSUME NEW s \in StatusDocs
    PROVE  /\ s = [overall |-> s.overall, current |-> s.current, stage |-> s.stage]
           /\ s.overall \in {"absent", "initializing", "completed", "failed"}
           /\ s.current \in Stages
           /\ s.stage \in [Stages -> {"pending", "in_progress", "completed", "failed"}]
BY DEF StatusDocs

LEMMA FirstStatusType == Absent \in StatusDocs /\ Uploaded \in StatusDocs
BY StageValues DEF Absent, Uploaded, StatusDocs

\* What start_stage and complete_stage make of a status.
LEMMA ChangedStatus ==
    ASSUME NEW s \in StatusDocs, NEW call \in Calls \ {"fail"}
    PROVE  /\ Changed(call, s) \in StatusDocs
           /\ Changed(call, s).overall = (IF call = "endLoad" THEN "completed" ELSE s.overall)
           /\ Changed(call, s).current =
                 (IF call \in DOMAIN Starts THEN Starts[call] ELSE s.current)
<1>1. CASE call \in DOMAIN Starts
  <2>1. PICK stage \in Stages : stage = Starts[call] /\ call # "endLoad"
    BY <1>1, StageValues DEF Starts
  <2>2. Changed(call, s) = [s EXCEPT !.stage[stage] = "in_progress", !.current = stage]
    BY <1>1, <2>1 DEF Changed
  <2>3. [s EXCEPT !.stage[stage] = "in_progress", !.current = stage] \in StatusDocs
    BY DEF StatusDocs
  <2>4. [s EXCEPT !.stage[stage] = "in_progress", !.current = stage].overall = s.overall
    BY DEF StatusDocs
  <2>5. [s EXCEPT !.stage[stage] = "in_progress", !.current = stage].current = stage
    BY DEF StatusDocs
  <2> QED
    BY <1>1, <2>1, <2>2, <2>3, <2>4, <2>5
<1>2. CASE call \notin DOMAIN Starts
  <2>1. PICK stage \in Stages : stage = Completes[call]
    BY <1>2, StageValues DEF Starts, Completes, Calls, Then
  <2>2. PICK o : o = IF call = "endLoad" THEN "completed" ELSE s.overall
    OBVIOUS
  <2>3. o \in {"absent", "initializing", "completed", "failed"}
    BY <2>2, StatusFields
  <2>4. Changed(call, s) = [s EXCEPT !.stage[stage] = "completed", !.overall = o]
    BY <1>2, <2>1, <2>2 DEF Changed
  <2>5. [s EXCEPT !.stage[stage] = "completed", !.overall = o] \in StatusDocs
    BY <2>3 DEF StatusDocs
  <2>6. [s EXCEPT !.stage[stage] = "completed", !.overall = o].overall = o
    BY DEF StatusDocs
  <2>7. [s EXCEPT !.stage[stage] = "completed", !.overall = o].current = s.current
    BY DEF StatusDocs
  <2> QED
    BY <1>2, <2>2, <2>4, <2>5, <2>6, <2>7
<1> QED
  BY <1>1, <1>2

\* What fail_stage makes of it.
LEMMA FailedStatus ==
    ASSUME NEW s \in StatusDocs, NEW kind, NEW guess \in GuessedStages(kind)
    PROVE  /\ MarkedFailed(s, guess) \in StatusDocs
           /\ MarkedFailed(s, guess).overall = "failed"
           /\ MarkedFailed(s, guess).current = Failed
<1>1. guess \in Stages /\ Failed \in Stages
  BY StageValues DEF GuessedStages
<1>2. MarkedFailed(s, guess) =
         [s EXCEPT !.stage[guess] = "failed", !.current = Failed, !.overall = "failed"]
  BY DEF MarkedFailed
<1> DEFINE f == [s EXCEPT !.stage[guess] = "failed", !.current = Failed, !.overall = "failed"]
<1>3. f \in StatusDocs
  BY <1>1 DEF StatusDocs
<1>4. f.overall = "failed" /\ f.current = Failed
  BY DEF StatusDocs
<1> QED
  BY <1>2, <1>3, <1>4

-----------------------------------------------------------------------------
(* Types *)

PCs == Calls \cup Loops \cup {"collect", "gate"} \cup Ends

\* Where a call goes on.
LEMMA AfterCall ==
    ASSUME NEW call \in Calls
    PROVE  /\ Then[call] \in PCs
           /\ call = "startParse"     => Then[call] = "parse"
           /\ call = "endParse"       => Then[call] = "startChunk"
           /\ call = "startChunk"     => Then[call] = "collect"
           /\ call = "endChunk"       => Then[call] = "startTransform"
           /\ call = "startTransform" => Then[call] = "extract"
           /\ call = "endTransform"   => Then[call] = "startLoad"
           /\ call = "startLoad"      => Then[call] = "gate"
           /\ call \in {"endLoad", "fail"} => Then[call] = "closeRows"
BY DEF Calls, Then, PCs, Loops

LEMMA CallNames ==
    Calls = {"startParse", "endParse", "startChunk", "endChunk", "startTransform",
             "endTransform", "startLoad", "endLoad", "fail"}
BY DEF Calls, Then

\* Before CHUNK there are no chunks, and only a tracker call or a report holds
\* a draft.
Early == {"openRows", "startParse", "parse", "endParse", "startChunk", "collect"}

TypeInv ==
    /\ TypeOK
    /\ pc \in Early => chunked = {}
    /\ CallUnderWay => pc \in Calls \cup Reporting

LEMMA TypeInit == Init => TypeInv
<1> SUFFICES ASSUME Init PROVE TypeInv
  OBVIOUS
<1>1. ~CallUnderWay
  BY DEF Init, CallUnderWay, Absent
<1>2. 1 \in 1..(NumDocs + 2) /\ 0 \in 0..MaxFaults /\ Docs \in SUBSET Docs
  BY DocsAssumption, FaultsAssumption
<1>3. [d \in Docs |-> "none"] \in [Docs -> Rows]
  BY DEF Rows
<1>4. pc \in Loops /\ error \in Errors /\ chunked = {}
  BY DEF Init, Loops, Errors
<1>5. TypeOK
  BY <1>2, <1>3, <1>4, FirstStatusType DEF Init, TypeOK
<1> QED
  BY <1>1, <1>4, <1>5 DEF TypeInv

LEMMA FaultType == TypeOK /\ Fault => faults' \in 0..MaxFaults
BY FaultsAssumption DEF TypeOK, Fault

LEMMA TrackerType ==
    ASSUME TypeInv, CallReads \/ CallWrites \/ CallGivesUp \/ ReportWrites PROVE TypeInv'
<1> USE DEF TypeInv
<1>1. CASE CallReads
  <2>1. draft' \in StatusDocs
    <3>1. CASE pc = "fail"
      <4>1. PICK guess \in GuessedStages(error) : draft' = MarkedFailed(status, guess)
        BY <1>1, <3>1 DEF CallReads
      <4> QED
        BY <4>1, FailedStatus DEF TypeOK
    <3>2. CASE pc # "fail"
      BY <1>1, <3>2, ChangedStatus DEF CallReads, TypeOK
    <3> QED
      BY <3>1, <3>2
  <2> QED
    BY <1>1, <2>1 DEF CallReads, TypeOK, docs, load, history
<1>2. CASE CallWrites \/ CallGivesUp
  <2>1. pc \in Calls /\ pc' = Then[pc] /\ next' = 1 /\ draft' = Absent /\ status' \in {status, draft}
    BY <1>2 DEF CallWrites, CallGivesUp, Goto
  <2>2. UNCHANGED <<docs, load, error, rows, history>>
    BY <1>2 DEF CallWrites, CallGivesUp
  <2>3. faults' \in 0..MaxFaults
    BY <1>2, FaultType DEF CallWrites, CallGivesUp, TypeOK
  <2>4. ~CallUnderWay'
    BY <2>1 DEF CallUnderWay, Absent
  <2>5. pc' \in PCs /\ 1 \in 1..(NumDocs + 2) /\ (pc' \in Early => pc \in Early)
    BY <2>1, AfterCall, CallNames, DocsAssumption DEF Early
  <2> QED
    BY <2>1, <2>2, <2>3, <2>4, <2>5, FirstStatusType DEF TypeOK, PCs, docs, load, history
<1>3. CASE ReportWrites
  <2>1. draft' = Absent /\ status' \in {status, draft}
    BY <1>3 DEF ReportWrites
  <2>2. UNCHANGED <<pc, next, docs, load, error, rows, history>>
    BY <1>3 DEF ReportWrites
  <2>3. faults' \in 0..MaxFaults
    BY <1>3, FaultType DEF ReportWrites, TypeOK
  <2>4. ~CallUnderWay'
    BY <2>1 DEF CallUnderWay, Absent
  <2> QED
    BY <2>1, <2>2, <2>3, <2>4, FirstStatusType DEF TypeOK, docs, load, history
<1> QED
  BY <1>1, <1>2, <1>3

LEMMA CleanupType == ASSUME TypeInv, CleanupTransform PROVE TypeInv'
BY FirstStatusType DEF TypeInv, TypeOK, CleanupTransform, CallUnderWay, docs, load

LEMMA RowsType ==
    ASSUME TypeInv, OpenRow \/ RowsOpened \/ CloseRow \/ RowsClosed PROVE TypeInv'
<1> USE DEF TypeInv
<1>1. UNCHANGED <<docs, load, error, tracker, history>> /\ UNCHANGED CallUnderWay
  BY DEF OpenRow, RowsOpened, CloseRow, RowsClosed, CallUnderWay, tracker
<1>2. rows' \in [Docs -> Rows] /\ faults' \in 0..MaxFaults
  BY FaultType DEF TypeOK, OpenRow, RowsOpened, CloseRow, RowsClosed, Rows, Outcome
<1>3. pc' \in PCs /\ next' \in 1..(NumDocs + 2)
  BY DocsAssumption, CallNames
     DEF TypeOK, OpenRow, RowsOpened, CloseRow, RowsClosed, Goto, PCs, Loops, Ends
<1>4. ~CallUnderWay /\ (pc' \in Early => pc \in Early)
  BY CallNames DEF OpenRow, RowsOpened, CloseRow, RowsClosed, Goto, Early, Reporting
<1> QED
  BY <1>1, <1>2, <1>3, <1>4 DEF TypeOK, PCs, docs, load, tracker, history

LEMMA DocsType ==
    ASSUME TypeInv,
           \/ PrepareDoc \/ Prepared \/ CollectPaths \/ CollectFails
           \/ ChunkDoc \/ Chunked \/ ExtractGraph \/ Extracted
    PROVE  TypeInv'
<1> USE DEF TypeInv, ReportReads
<1>1. UNCHANGED <<load, status, rows, faults, history>>
  BY DEF PrepareDoc, Prepared, CollectPaths, CollectFails, ChunkDoc, Chunked, ExtractGraph, Extracted,
         tracker
<1>2. draft' = draft \/ (draft' = status /\ pc' \in Reporting)
  BY DEF PrepareDoc, Prepared, CollectPaths, CollectFails, ChunkDoc, Chunked, ExtractGraph, Extracted,
         tracker, Reporting
<1>9. CallUnderWay' => pc' \in Calls \cup Reporting
  <2>1. ~CallUnderWay
    BY CallNames
       DEF PrepareDoc, Prepared, CollectPaths, CollectFails, ChunkDoc, Chunked, ExtractGraph, Extracted,
           Reporting
  <2> QED
    BY <1>2, <2>1 DEF CallUnderWay
<1>3. pc' \in PCs /\ error' \in Errors
  BY CallNames
     DEF TypeOK, PrepareDoc, Prepared, CollectPaths, CollectFails, ChunkDoc, Chunked, ExtractGraph,
         Extracted, Goto, Raise, PCs, Loops, Errors
<1>8. next' \in 1..(NumDocs + 2)
  <2>1. next \in Nat /\ next >= 1 /\ NumDocs \in Nat
    BY DocsAssumption DEF TypeOK
  <2>2. next' = 1 \/ (next' = next + 1 /\ next <= NumDocs + 1)
    BY <2>1 DEF PrepareDoc, Prepared, CollectPaths, CollectFails, ChunkDoc, Chunked, ExtractGraph,
         Extracted, Goto, Raise, PdfGraph
  <2> QED
    BY <2>1, <2>2
<1>4. pc' \in Early => chunked' = {}
  BY DEF PrepareDoc, Prepared, CollectPaths, CollectFails, ChunkDoc, Chunked, ExtractGraph,
         Extracted, Goto, Raise, Early, docs
<1>5. textOnly' \in BOOLEAN /\ prepared' \subseteq Docs /\ toChunk' \subseteq prepared'
  <2>1. CASE PrepareDoc
    <3>1. next \in Docs
      BY <2>1, DocsAssumption DEF TypeOK, PrepareDoc, Docs
    <3> QED
      BY <2>1, <3>1 DEF TypeOK, PrepareDoc
  <2>2. CASE CollectPaths
    BY <2>2 DEF TypeOK, CollectPaths
  <2>3. CASE ~PrepareDoc /\ ~CollectPaths
    BY <2>3 DEF TypeOK, Prepared, CollectFails, ChunkDoc, Chunked, ExtractGraph, Extracted, docs
  <2> QED
    BY <2>1, <2>2, <2>3
<1>6. split' \subseteq Pdfs /\ chunked' \subseteq toChunk' /\ graphs' \subseteq chunked' \cup {PdfGraph}
  <2>1. CASE CollectPaths
    BY <2>1 DEF TypeOK, CollectPaths, Early
  <2>2. CASE ~CollectPaths
    BY <2>2 DEF TypeOK, PrepareDoc, Prepared, CollectFails, ChunkDoc, Chunked, ExtractGraph,
         Extracted, docs
  <2> QED
    BY <2>1, <2>2
<1>7. passed' \in graphs' \cup {0} /\ stored' \subseteq graphs' /\ nonEmpty' \in BOOLEAN
  <2>1. graphs \subseteq graphs'
    BY DEF PrepareDoc, Prepared, CollectPaths, CollectFails, ChunkDoc, Chunked, ExtractGraph,
           Extracted, docs
  <2> QED
    BY <1>1, <2>1 DEF TypeOK, load
<1> QED
  BY <1>1, <1>2, <1>3, <1>4, <1>5, <1>6, <1>7, <1>8, <1>9 DEF TypeOK, PCs, history

LEMMA LoadType ==
    ASSUME TypeInv, GatePasses \/ GateFails \/ StoreGraph \/ StoreFails \/ Stored
    PROVE  TypeInv'
<1> USE DEF TypeInv, ReportReads
<1>1. UNCHANGED <<docs, status, rows, faults, history>>
  BY DEF GatePasses, GateFails, StoreGraph, StoreFails, Stored, tracker
<1>2. draft' = draft \/ (draft' = status /\ pc' \in Reporting)
  BY DEF GatePasses, GateFails, StoreGraph, StoreFails, Stored, tracker, Reporting
<1>7. CallUnderWay' => pc' \in Calls \cup Reporting
  <2>1. ~CallUnderWay
    BY CallNames DEF GatePasses, GateFails, StoreGraph, StoreFails, Stored, Reporting
  <2> QED
    BY <1>2, <2>1 DEF CallUnderWay
<1>3. pc' \in PCs /\ pc' \notin Early /\ error' \in Errors
  BY CallNames
     DEF TypeOK, GatePasses, GateFails, StoreGraph, StoreFails, Stored, Goto, Raise, PCs, Loops,
         Errors, Early
<1>6. next' \in 1..(NumDocs + 2)
  <2>1. next \in Nat /\ next >= 1 /\ NumDocs \in Nat
    BY DocsAssumption DEF TypeOK
  <2>2. next' = 1 \/ (next' = next + 1 /\ next <= NumDocs + 1)
    BY <2>1 DEF GatePasses, GateFails, StoreGraph, StoreFails, Stored, Goto, Raise, PdfGraph
  <2> QED
    BY <2>1, <2>2
<1>4. passed' \in graphs' \cup {0}
  BY <1>1, FirstGraph DEF TypeOK, GatePasses, GateFails, StoreGraph, StoreFails, Stored, load, docs
<1>5. stored' \subseteq graphs' /\ nonEmpty' \in BOOLEAN
  BY <1>1 DEF TypeOK, GatePasses, GateFails, StoreGraph, StoreFails, Stored, load, docs
<1> QED
  BY <1>1, <1>2, <1>3, <1>4, <1>5, <1>6, <1>7 DEF TypeOK, PCs, docs, history

LEMMA TypeNext == TypeInv /\ [Next]_vars => TypeInv'
<1> SUFFICES ASSUME TypeInv, [Next]_vars
             PROVE  TypeInv'
  OBVIOUS
<1>1. CASE UNCHANGED vars
  BY <1>1 DEF vars, docs, load, tracker, history, TypeInv, TypeOK, CallUnderWay
<1> QED
  BY <1>1, TrackerType, CleanupType, RowsType, DocsType, LoadType DEF Next, FlowStep

\* The variables keep their types; what is not plain is that a document is
\* chunked only if it was collected, a graph built only of what was chunked, and
\* the gate's graph one of those.
THEOREM TypeCorrect == Spec => []TypeOK
<1>1. TypeInv => TypeOK
  BY DEF TypeInv
<1> QED
  BY <1>1, TypeInit, TypeNext, PTL DEF Spec

-----------------------------------------------------------------------------
(* The flow and its status *)

\* store_knowledge_graph has returned for the last graph, and it stored something.
LoadSucceeded == pc = "endLoad" \/ (pc \in {"closeRows", "returned"} /\ error = "none")

\* What lies behind the flow where it stands.
Behind ==
    /\ error # "none" => pc \in {"fail", "closeRows", "raised"}
    /\ pc \in {"fail", "raised"} => error # "none"
    /\ pc = "store" \/ LoadSucceeded => passed \in graphs
    /\ pc = "store" => \A g \in graphs : g < next => g \in stored
    /\ LoadSucceeded => stored = graphs /\ nonEmpty

\* The last stage a status can show while the flow stands at label.
Reach(label) ==
    CASE label \in {"openRows", "startParse"}                       -> Upload
      [] label \in {"parse", "endParse", "startChunk"}              -> Parse
      [] label \in {"collect", "chunk", "endChunk", "startTransform"} -> Chunk
      [] label \in {"extract", "endTransform", "startLoad"}         -> Transform
      [] label \in {"gate", "store", "endLoad"}                     -> Load
      [] OTHER                                                      -> Failed

\* The same once the call at label, if one is made there, has returned.
ReachAfter(label) == IF label \in Calls THEN Reach(Then[label]) ELSE Reach(label)

\* The overall status a tracker call, or a report, leaves.
LeftBy(call) ==
    CASE call = "fail"    -> "failed"
      [] call = "endLoad" -> "completed"
      [] OTHER            -> "initializing"

\* The status is terminal only behind the last call; it is not ahead of the
\* flow, and what a call will write is not behind it.
Tracked ==
    /\ status.overall = "completed" => pc \in {"closeRows", "returned"} /\ error = "none"
    /\ status.overall = "failed" => pc \in {"closeRows", "raised"} /\ error # "none"
    /\ status.current <= Reach(pc)
    /\ CallUnderWay =>
          /\ draft.overall = LeftBy(pc)
          /\ status.current <= draft.current
          /\ draft.current <= ReachAfter(pc)

\* A row is closed once the outcome is known, and there is one for every document
\* unless a write failed.
Accounted ==
    \A d \in Docs :
        /\ rows[d] = "success" => pc \in {"closeRows", "returned"} /\ error = "none"
        /\ rows[d] = "failed" => pc \in {"closeRows", "raised"} /\ error # "none"
        /\ faults = 0 =>
              /\ pc # "openRows" \/ d < next => rows[d] # "none"
              /\ (pc = "closeRows" /\ d < next) \/ pc \in Ends => rows[d] \in {"success", "failed"}

\* After a cleanup between two calls no call holds a draft.
Cleaned == cleaned /\ ~raced => status.overall = "absent" /\ ~CallUnderWay

FlowInv == Behind /\ Tracked /\ Accounted /\ Cleaned

LEMMA ReachValues ==
    /\ \A label \in {"openRows", "startParse"} : Reach(label) = 1
    /\ \A label \in {"parse", "endParse", "startChunk"} : Reach(label) = 2
    /\ \A label \in {"collect", "chunk", "endChunk", "startTransform"} : Reach(label) = 3
    /\ \A label \in {"extract", "endTransform", "startLoad"} : Reach(label) = 4
    /\ \A label \in {"gate", "store", "endLoad"} : Reach(label) = 5
    /\ \A label \in {"fail", "closeRows", "returned", "raised"} : Reach(label) = 6
    /\ \A label : Reach(label) \in 1..6
BY StageValues DEF Reach

LEMMA FlowInit == Init => FlowInv
<1> SUFFICES ASSUME Init PROVE FlowInv
  OBVIOUS
<1>1. Behind
  BY DEF Init, Behind, LoadSucceeded
<1>2. status.overall = "initializing" /\ status.current = 1 /\ draft.overall = "absent"
  BY StageValues DEF Init, Uploaded, Absent
<1>3. Tracked
  BY <1>2, ReachValues DEF Init, Tracked, CallUnderWay
<1>4. Accounted
  <2>1. \A d \in Docs : rows[d] = "none" /\ ~(d < next)
    BY DocsAssumption DEF Init, Docs
  <2> QED
    BY <2>1 DEF Init, Accounted, Ends
<1>5. Cleaned
  BY DEF Init, Cleaned
<1> QED
  BY <1>1, <1>3, <1>4, <1>5 DEF FlowInv

-----------------------------------------------------------------------------
(* Every step keeps it *)

LEMMA ReadsKeeps == ASSUME TypeInv, TypeInv', FlowInv, CallReads PROVE FlowInv'
<1> USE DEF FlowInv
<1>1. /\ pc \in Calls /\ status.overall # "absent"
      /\ UNCHANGED <<pc, next, docs, load, error, status, rows, faults, history>>
  BY DEF CallReads
<1>2. Behind'
  BY <1>1 DEF Behind, LoadSucceeded, docs, load
<1>3. Accounted'
  BY <1>1 DEF Accounted
<1>4. Cleaned'
  BY <1>1 DEF Cleaned, history
<1>5. status \in StatusDocs /\ status.current \in 1..6
  BY StageValues, StatusFields DEF TypeInv, TypeOK
<1>6. status.overall = "initializing"
  BY <1>1, <1>5, CallNames, StatusFields DEF Tracked
<1>7. draft'.overall = LeftBy(pc) /\ status.current <= draft'.current /\ draft'.current <= Reach(Then[pc])
  <2>1. CASE pc = "fail"
    <3>1. PICK guess \in GuessedStages(error) : draft' = MarkedFailed(status, guess)
      BY <2>1 DEF CallReads
    <3>2. draft'.overall = "failed" /\ draft'.current = 6
      BY <1>5, <3>1, FailedStatus, StageValues
    <3> QED
      BY <1>1, <1>5, <2>1, <3>2, AfterCall, ReachValues DEF LeftBy
  <2>2. CASE pc # "fail"
    <3>1. draft' = Changed(pc, status)
      BY <2>2 DEF CallReads
    <3>2. draft'.overall = LeftBy(pc)
      BY <1>1, <1>5, <1>6, <2>2, <3>1, ChangedStatus DEF LeftBy
    <3>3. status.current <= Reach(pc)
      BY DEF Tracked
    <3>4. CASE pc \in {"startParse", "startChunk", "startTransform", "startLoad"}
      <4>1. pc \in DOMAIN Starts /\ Starts[pc] = Reach(pc) + 1 /\ Reach(Then[pc]) = Reach(pc) + 1
        BY <1>1, <3>4, AfterCall, ReachValues, StageValues DEF Starts
      <4>2. draft'.current = Reach(pc) + 1
        BY <1>1, <1>5, <2>2, <3>1, <4>1, ChangedStatus
      <4>3. Reach(pc) \in 1..6
        BY ReachValues
      <4> QED
        BY <1>5, <3>2, <3>3, <4>1, <4>2, <4>3
    <3>5. CASE pc \notin {"startParse", "startChunk", "startTransform", "startLoad"}
      <4>1. draft'.current = status.current
        BY <1>1, <1>5, <2>2, <3>1, <3>5, ChangedStatus DEF Starts
      <4>2. Reach(pc) <= Reach(Then[pc])
        BY <1>1, <2>2, <3>5, CallNames, AfterCall, ReachValues
      <4>3. Reach(pc) \in 1..6 /\ Reach(Then[pc]) \in 1..6
        BY ReachValues
      <4> QED
        BY <1>5, <3>2, <3>3, <4>1, <4>2, <4>3
    <3> QED
      BY <3>4, <3>5
  <2> QED
    BY <2>1, <2>2
<1>8. Tracked'
  BY <1>1, <1>7 DEF Tracked, ReachAfter
<1> QED
  BY <1>2, <1>3, <1>4, <1>8

LEMMA CallEndKeeps ==
    ASSUME TypeInv, TypeInv', FlowInv, CallWrites \/ CallGivesUp PROVE FlowInv'
<1> USE DEF FlowInv
<1>1. /\ pc \in Calls /\ pc' = Then[pc] /\ draft' = Absent /\ next' = 1
      /\ UNCHANGED <<docs, load, error, rows, history>>
  BY DEF CallWrites, CallGivesUp, Goto, TypeInv
<1>2. /\ pc' \notin {"openRows", "store", "fail", "endLoad"} \cup Ends
      /\ pc' = "closeRows" <=> pc \in {"endLoad", "fail"}
  BY <1>1, AfterCall, CallNames DEF Ends
<1>3. Behind'
  BY <1>1, <1>2, CallNames DEF Behind, LoadSucceeded, docs, load, Ends
<1>4. draft'.overall = "absent" /\ ~CallUnderWay'
  BY <1>1 DEF Absent, CallUnderWay
<1>5. Reach(pc) <= Reach(pc')
  BY <1>1, AfterCall, CallNames, ReachValues
<1>6. Tracked'
  <2>1. CASE CallWrites
    <3>1. status' = draft /\ CallUnderWay
      BY <2>1 DEF CallWrites
    <3>2. status'.overall = LeftBy(pc) /\ status'.current <= Reach(pc')
      BY <1>1, <3>1 DEF Tracked, ReachAfter
    <3>3. /\ status'.overall = "completed" => pc = "endLoad"
          /\ status'.overall = "failed" => pc = "fail"
      BY <3>2 DEF LeftBy
    <3>4. /\ pc = "endLoad" => error' = "none" /\ pc' = "closeRows"
          /\ pc = "fail" => error' # "none" /\ pc' = "closeRows"
      BY <1>1, <1>2 DEF Behind
    <3> QED
      BY <1>4, <3>2, <3>3, <3>4 DEF Tracked
  <2>2. CASE CallGivesUp
    <3>1. status' = status
      BY <2>2 DEF CallGivesUp
    <3>2. status.overall \notin {"completed", "failed"}
      BY <1>1, CallNames DEF Tracked
    <3>3. status.current <= Reach(pc) /\ Reach(pc) \in 1..6 /\ Reach(pc') \in 1..6
      BY ReachValues DEF Tracked
    <3>4. status.current \in 1..6
      BY StatusFields, StageValues DEF TypeInv, TypeOK
    <3> QED
      BY <1>4, <1>5, <3>1, <3>2, <3>3, <3>4 DEF Tracked
  <2> QED
    BY <2>1, <2>2
<1>7. Accounted'
  <2>1. faults' = 0 => faults = 0
    BY FaultsAssumption DEF CallWrites, CallGivesUp, Fault, TypeInv, TypeOK
  <2>2. \A d \in Docs : ~(d < next')
    BY <1>1, DocsAssumption DEF Docs
  <2>3. \A d \in Docs : rows'[d] = rows[d] /\ rows[d] \notin {"success", "failed"}
    BY <1>1, CallNames DEF Accounted
  <2>4. pc # "openRows"
    BY <1>1, CallNames
  <2> QED
    BY <1>2, <2>1, <2>2, <2>3, <2>4 DEF Accounted
<1>8. Cleaned'
  <2>1. CASE CallWrites
    BY <1>1, <2>1 DEF CallWrites, Cleaned, history
  <2>2. CASE CallGivesUp
    BY <1>1, <1>4, <2>2 DEF CallGivesUp, Cleaned, history
  <2> QED
    BY <2>1, <2>2
<1> QED
  BY <1>3, <1>6, <1>7, <1>8

LEMMA ReportKeeps == ASSUME TypeInv, TypeInv', FlowInv, ReportWrites PROVE FlowInv'
<1> USE DEF FlowInv
<1>1. /\ pc \in Reporting /\ CallUnderWay /\ draft' = Absent /\ status' \in {status, draft}
      /\ UNCHANGED <<pc, next, docs, load, error, rows, history>>
  BY DEF ReportWrites
<1>2. Behind'
  BY <1>1 DEF Behind, LoadSucceeded, docs, load
<1>3. draft'.overall = "absent" /\ ~CallUnderWay'
  BY <1>1 DEF Absent, CallUnderWay
<1>4. LeftBy(pc) = "initializing" /\ ReachAfter(pc) = Reach(pc)
  BY <1>1, CallNames DEF Reporting, LeftBy, ReachAfter
<1>5. Tracked'
  BY <1>1, <1>3, <1>4 DEF Tracked
<1>6. Accounted'
  <2>1. faults' = 0 => faults = 0
    BY FaultsAssumption DEF ReportWrites, Fault, TypeInv, TypeOK
  <2> QED
    BY <1>1, <2>1 DEF Accounted
<1>7. Cleaned'
  BY <1>1 DEF Cleaned, history
<1> QED
  BY <1>2, <1>5, <1>6, <1>7

LEMMA CleanupKeeps == ASSUME TypeInv, FlowInv, CleanupTransform PROVE FlowInv'
<1> USE DEF FlowInv
<1>1. /\ status' = Absent /\ cleaned' = TRUE /\ raced' = CallUnderWay
      /\ UNCHANGED <<pc, next, docs, load, error, draft, rows, faults>>
  BY DEF CleanupTransform
<1>2. status'.overall = "absent" /\ status'.current = 1
  BY <1>1, StageValues DEF Absent
<1>3. Behind' /\ Accounted'
  BY <1>1 DEF Behind, LoadSucceeded, Accounted, docs, load
<1>4. draft.current \in 1..6
  BY StatusFields, StageValues DEF TypeInv, TypeOK
<1>5. Tracked'
  BY <1>1, <1>2, <1>4, ReachValues DEF Tracked, CallUnderWay
<1>6. Cleaned'
  BY <1>1, <1>2 DEF Cleaned, CallUnderWay
<1> QED
  BY <1>3, <1>5, <1>6

LEMMA RowsKeeps ==
    ASSUME TypeInv, TypeInv', FlowInv, OpenRow \/ RowsOpened \/ CloseRow \/ RowsClosed
    PROVE  FlowInv'
<1> USE DEF FlowInv
<1>1. UNCHANGED <<docs, load, error, tracker, history>> /\ UNCHANGED CallUnderWay /\ ~CallUnderWay
  BY CallNames
     DEF OpenRow, RowsOpened, CloseRow, RowsClosed, CallUnderWay, tracker, TypeInv, Reporting
<1>2. /\ pc = "openRows" => pc' \in {"openRows", "startParse"}
      /\ pc = "closeRows" => pc' = "closeRows" \/ pc' = (IF error = "none" THEN "returned" ELSE "raised")
      /\ pc \in {"openRows", "closeRows"}
  BY DEF OpenRow, RowsOpened, CloseRow, RowsClosed, Goto
<1>3. Behind'
  BY <1>1, <1>2 DEF Behind, LoadSucceeded, docs, load
<1>4. Tracked'
  <2>1. Reach(pc') = Reach(pc)
    BY <1>2, ReachValues
  <2> QED
    BY <1>1, <1>2, <2>1 DEF Tracked, tracker
<1>5. Accounted'
  <2>1. error \in Errors /\ next \in Nat /\ next >= 1 /\ \A d \in Docs : d \in Nat /\ d <= NumDocs
    BY DocsAssumption DEF TypeInv, TypeOK, Docs
  <2>2. CASE OpenRow
    <3>1. faults' = 0 => rows' = [rows EXCEPT ![next] = "in_progress"] /\ faults = 0
      BY <2>2, FaultsAssumption DEF OpenRow, Fault, TypeInv, TypeOK
    <3>2. rows' \in {rows, [rows EXCEPT ![next] = "in_progress"]}
      BY <2>2 DEF OpenRow
    <3>3. pc = "openRows" /\ pc' = "openRows" /\ next' = next + 1
      BY <2>2 DEF OpenRow
    <3>4. rows \in [Docs -> Rows]
      BY DEF TypeInv, TypeOK
    <3> QED
      BY <2>1, <3>1, <3>2, <3>3, <3>4 DEF Accounted, Ends
  <2>3. CASE RowsOpened
    <3>1. rows' = rows /\ faults' = faults /\ pc = "openRows" /\ pc' = "startParse"
      BY <2>3 DEF RowsOpened, Goto
    <3>2. \A d \in Docs : d < next
      BY <2>1, <2>3, DocsAssumption DEF RowsOpened
    <3> QED
      BY <3>1, <3>2 DEF Accounted, Ends
  <2>4. CASE CloseRow
    <3>1. pc = "closeRows" /\ pc' = "closeRows" /\ next' = next + 1 /\ error' = error
      BY <2>4 DEF CloseRow
    <3>2. rows' \in {rows, [rows EXCEPT ![next] = Outcome]}
      BY <2>4 DEF CloseRow
    <3>3. faults' = 0 => faults = 0 /\ (rows' = [rows EXCEPT ![next] = Outcome] \/ rows[next] = "none")
      BY <2>4, FaultsAssumption DEF CloseRow, Fault, TypeInv, TypeOK
    <3>4. rows \in [Docs -> Rows]
      BY DEF TypeInv, TypeOK
    <3> SUFFICES ASSUME NEW d \in Docs
                 PROVE  /\ rows'[d] = "success" => error = "none"
                        /\ rows'[d] = "failed" => error # "none"
                        /\ faults' = 0 =>
                              rows'[d] # "none" /\ (d < next + 1 => rows'[d] \in {"success", "failed"})
      BY <3>1 DEF Accounted, Ends
    <3>5. CASE d = next
      BY <2>1, <3>1, <3>2, <3>3, <3>4, <3>5 DEF Accounted, Outcome
    <3>6. CASE d # next
      BY <2>1, <3>1, <3>2, <3>3, <3>4, <3>6 DEF Accounted
    <3> QED
      BY <3>5, <3>6
  <2>5. CASE RowsClosed
    <3>1. /\ rows' = rows /\ faults' = faults /\ error' = error /\ pc = "closeRows"
          /\ pc' = (IF error = "none" THEN "returned" ELSE "raised")
      BY <2>5 DEF RowsClosed, Goto
    <3>2. \A d \in Docs : d < next
      BY <2>1, <2>5, DocsAssumption DEF RowsClosed
    <3> QED
      BY <3>1, <3>2 DEF Accounted, Ends
  <2> QED
    BY <2>2, <2>3, <2>4, <2>5
<1>6. Cleaned'
  BY <1>1 DEF Cleaned, history, tracker
<1> QED
  BY <1>3, <1>4, <1>5, <1>6

\* A step inside the stages leaves the status and the rows alone; what its report
\* has read is the status.
LEMMA StageStep ==
    ASSUME TypeInv, FlowInv, UNCHANGED <<status, rows, faults, history>>, ~CallUnderWay,
           draft' = draft \/ (draft' = status /\ pc' = pc /\ pc \in Reporting),
           pc \notin Calls \cup Ends \cup {"openRows", "closeRows"},
           pc' \notin Ends \cup {"openRows", "closeRows"},
           Reach(pc) <= Reach(pc')
    PROVE  Tracked' /\ Accounted' /\ Cleaned'
<1> USE DEF FlowInv
<1>1. CallUnderWay' => draft' = status /\ status.overall # "absent" /\ pc' = pc /\ pc \in Reporting
  BY DEF CallUnderWay
<1>2. status.overall \notin {"completed", "failed"}
  BY DEF Tracked, Ends
<1>3. status.current <= Reach(pc) /\ status.current \in 1..6 /\ Reach(pc) \in 1..6 /\ Reach(pc') \in 1..6
  BY ReachValues, StatusFields, StageValues DEF Tracked, TypeInv, TypeOK
<1>4. Tracked'
  <2>1. status' = status
    OBVIOUS
  <2>2. status.overall \in {"absent", "initializing"}
    BY <1>2, StatusFields DEF TypeInv, TypeOK
  <2>3. pc \in Reporting => LeftBy(pc) = "initializing" /\ ReachAfter(pc) = Reach(pc)
    BY CallNames DEF Reporting, LeftBy, ReachAfter
  <2>4. ASSUME CallUnderWay'
        PROVE  /\ draft'.overall = LeftBy(pc')
               /\ status'.current <= draft'.current
               /\ draft'.current <= ReachAfter(pc')
    BY <1>1, <1>3, <2>1, <2>2, <2>3, <2>4
  <2>5. status'.current <= Reach(pc')
    BY <1>3, <2>1
  <2> QED
    BY <1>2, <2>1, <2>4, <2>5 DEF Tracked
<1>5. Accounted'
  BY DEF Accounted, Ends
<1>6. Cleaned'
  BY <1>1 DEF Cleaned, history
<1> QED
  BY <1>4, <1>5, <1>6

LEMMA DocsKeeps ==
    ASSUME TypeInv, FlowInv,
           \/ PrepareDoc \/ Prepared \/ CollectPaths \/ CollectFails
           \/ ChunkDoc \/ Chunked \/ ExtractGraph \/ Extracted
    PROVE  FlowInv'
<1> USE DEF FlowInv, ReportReads
<1>1. UNCHANGED <<load, status, rows, faults, history>> /\ ~CallUnderWay
  BY CallNames
     DEF PrepareDoc, Prepared, CollectPaths, CollectFails, ChunkDoc, Chunked, ExtractGraph, Extracted,
         tracker, TypeInv, Reporting
<1>5. draft' = draft \/ (draft' = status /\ pc' = pc /\ pc \in Reporting)
  BY DEF PrepareDoc, Prepared, CollectPaths, CollectFails, ChunkDoc, Chunked, ExtractGraph, Extracted,
         tracker, Reporting
<1>2. \/ pc \in {"parse", "collect", "chunk", "extract"} /\ pc' = pc /\ error' = error
      \/ pc = "parse" /\ pc' = "endParse" /\ error' = error
      \/ pc = "collect" /\ pc' = "chunk" /\ error' = error
      \/ pc = "collect" /\ pc' = "fail" /\ error' = "split"
      \/ pc = "chunk" /\ pc' = "endChunk" /\ error' = error
      \/ pc = "extract" /\ pc' = "endTransform" /\ error' = error
  BY DEF PrepareDoc, Prepared, CollectPaths, CollectFails, ChunkDoc, Chunked, ExtractGraph, Extracted,
         Goto, Raise
<1>3. Behind'
  BY <1>2 DEF Behind, LoadSucceeded
<1>4. Reach(pc) <= Reach(pc')
  BY <1>2, ReachValues
<1> QED
  BY <1>1, <1>2, <1>3, <1>4, <1>5, StageStep, CallNames DEF Ends

LEMMA LoadKeeps ==
    ASSUME TypeInv, FlowInv, GatePasses \/ GateFails \/ StoreGraph \/ StoreFails \/ Stored
    PROVE  FlowInv'
<1> USE DEF FlowInv, ReportReads
<1>1. UNCHANGED <<docs, status, rows, faults, history>> /\ graphs' = graphs /\ ~CallUnderWay
  BY CallNames
     DEF GatePasses, GateFails, StoreGraph, StoreFails, Stored, docs, tracker, TypeInv, Reporting
<1>6. draft' = draft \/ (draft' = status /\ pc' = pc /\ pc \in Reporting)
  BY DEF GatePasses, GateFails, StoreGraph, StoreFails, Stored, tracker, Reporting
<1>2. \/ pc = "gate" /\ pc' = "store" /\ error' = error
      \/ pc = "store" /\ pc' = "store" /\ error' = error
      \/ pc = "store" /\ pc' = "endLoad" /\ error' = error
      \/ pc \in {"gate", "store"} /\ pc' = "fail" /\ error' # "none"
  BY DEF GatePasses, GateFails, StoreGraph, StoreFails, Stored, Goto, Raise
<1>3. graphs \subseteq Nat \ {0} /\ (\A g \in graphs : g <= PdfGraph) /\ next \in Nat /\ PdfGraph \in Nat
  BY GraphsAreNumbers, DocsAssumption DEF TypeInv, TypeOK, PdfGraph
<1>4. Behind'
  <2>1. CASE GatePasses
    <3>1. pc' = "store" /\ next' = 1 /\ error' = error /\ pc = "gate"
      BY <2>1 DEF GatePasses, Goto
    <3>2. passed' \in graphs
      BY <2>1, FirstGraph DEF GatePasses, TypeInv
    <3>3. \A g \in graphs : ~(g < 1)
      BY <1>3
    <3> QED
      BY <1>1, <3>1, <3>2, <3>3 DEF Behind, LoadSucceeded
  <2>2. CASE StoreGraph
    <3>1. /\ pc = "store" /\ pc' = "store" /\ next' = next + 1 /\ error' = error /\ passed' = passed
          /\ stored' = stored \cup ({next} \cap graphs)
      BY <2>2 DEF StoreGraph
    <3>2. \A g \in graphs : g < next + 1 => g < next \/ g = next
      BY <1>3
    <3> QED
      BY <1>1, <3>1, <3>2 DEF Behind, LoadSucceeded
  <2>3. CASE Stored /\ nonEmpty
    <3>1. /\ pc = "store" /\ pc' = "endLoad" /\ error' = error
          /\ passed' = passed /\ stored' = stored /\ nonEmpty' = nonEmpty
      BY <2>3 DEF Stored, Goto, load
    <3>2. \A g \in graphs : g < next
      BY <1>3, <2>3 DEF Stored
    <3>3. stored = graphs
      BY <3>1, <3>2 DEF Behind, TypeInv, TypeOK
    <3> QED
      BY <1>1, <2>3, <3>1, <3>3 DEF Behind, LoadSucceeded
  <2>4. CASE GateFails \/ StoreFails \/ (Stored /\ ~nonEmpty)
    <3>1. pc' = "fail" /\ error' # "none"
      BY <2>4 DEF GateFails, StoreFails, Stored, Raise, Goto
    <3> QED
      BY <3>1 DEF Behind, LoadSucceeded
  <2> QED
    BY <2>1, <2>2, <2>3, <2>4
<1>5. Reach(pc) <= Reach(pc')
  BY <1>2, ReachValues
<1> QED
  BY <1>1, <1>2, <1>4, <1>5, <1>6, StageStep, CallNames DEF Ends

LEMMA FlowNext == TypeInv /\ TypeInv' /\ FlowInv /\ [Next]_vars => FlowInv'
<1> SUFFICES ASSUME TypeInv, TypeInv', FlowInv, [Next]_vars
             PROVE  FlowInv'
  OBVIOUS
<1>1. CASE UNCHANGED vars
  BY <1>1 DEF vars, docs, load, tracker, history, FlowInv, Behind, LoadSucceeded, Tracked, Accounted,
              Cleaned, CallUnderWay
<1> QED
  BY <1>1, ReadsKeeps, CallEndKeeps, ReportKeeps, CleanupKeeps, RowsKeeps, DocsKeeps, LoadKeeps
     DEF Next, FlowStep

LEMMA FlowAlways == Spec => [](TypeInv /\ FlowInv)
BY TypeInit, TypeNext, FlowInit, FlowNext, PTL DEF Spec

-----------------------------------------------------------------------------
(* Results *)

\* A transform is shown as completed only when its flow has come past the gate
\* and stored every graph, and as failed only when it raised, for any documents,
\* lost status writes and cleanups.
THEOREM StatusIsTrue == Spec => []StatusTellsTheTruth
<1>1. TypeInv /\ FlowInv => StatusTellsTheTruth
  BY GraphsAreNumbers DEF TypeInv, FlowInv, Behind, LoadSucceeded, Tracked, StatusTellsTheTruth
<1> QED
  BY <1>1, FlowAlways, PTL

\* No usage row is closed with anything but the outcome of the flow, for any
\* documents and failing writes, and without a failing write none stays open.
THEOREM RowsAreTrue == Spec => []RowsTellTheTruth
<1>1. TypeInv /\ FlowInv => RowsTellTheTruth
  BY DEF FlowInv, Behind, LoadSucceeded, Accounted, RowsTellTheTruth, Ends
<1> QED
  BY <1>1, FlowAlways, PTL

\* A status that was removed between two calls of the tracker, those that only
\* report progress among them, stays removed.
THEOREM CleanedStays == Spec => []CleanedStaysClean
<1>1. FlowInv => CleanedStaysClean
  BY DEF FlowInv, Cleaned, CleanedStaysClean
<1> QED
  BY <1>1, FlowAlways, PTL

\* The stage shown never goes back: what a call has read is not behind what it
\* overwrites, because only the flow writes and its calls come in turn.
THEOREM StageAdvances == Spec => StageShownNeverGoesBack
<1>1. TypeInv /\ FlowInv /\ [Next]_vars
         => [status'.overall # "absent" => status'.current >= status.current]_vars
  <2> SUFFICES ASSUME TypeInv, FlowInv, [Next]_vars, ~UNCHANGED vars, status'.overall # "absent"
               PROVE  status'.current >= status.current
    OBVIOUS
  <2>1. status.current \in 1..6 /\ draft.current \in 1..6
    BY StatusFields, StageValues DEF TypeInv, TypeOK
  <2>2. status' = status \/ (CallUnderWay /\ status' = draft) \/ status' = Absent
    BY DEF Next, FlowStep, CallReads, CallWrites, CallGivesUp, ReportWrites, CleanupTransform, OpenRow, RowsOpened,
           PrepareDoc, Prepared, CollectPaths, CollectFails, ChunkDoc, Chunked, ExtractGraph, Extracted,
           GatePasses, GateFails, StoreGraph, StoreFails, Stored, CloseRow, RowsClosed, ReportReads,
           tracker, vars
  <2>3. Absent.overall = "absent"
    BY DEF Absent
  <2>4. CallUnderWay => status.current <= draft.current
    BY DEF FlowInv, Tracked
  <2> QED
    BY <2>1, <2>2, <2>3, <2>4
<1> QED
  BY <1>1, FlowAlways, PTL DEF Spec, StageShownNeverGoesBack

-----------------------------------------------------------------------------
(***************************************************************************)
(* Graph construction: the invariant.  Its parts are operators of the      *)
(* document d, of whether ids are stable (s) and of a list ns of nodes, so *)
(* that what is shown of a list holds of the list after a step as well.    *)
(***************************************************************************)

\* Mentions, for any document.
MentionsOf(d) == 1..Len(d.chunk)

\* Mentions of one entity, as far as stable ids tell; the first gives the id.
SameEntity(d, m, k) == d.key[k] = d.key[m] /\ d.type[k] = d.type[m]
OwnId(d, s, m) == IF ~s THEN m ELSE Min({k \in MentionsOf(d) : SameEntity(d, m, k)})

\* The values a node's fields range over.
NodeSet(d) ==
    [id : MentionsOf(d), type : {d.type[m] : m \in MentionsOf(d)},
     key : {d.key[m] : m \in MentionsOf(d)}, text : {d.text[m] : m \in MentionsOf(d)},
     aliases : SUBSET {d.alias[m] : m \in MentionsOf(d)}, chunks : SUBSET (1..d.chunks),
     props : BOOLEAN, of : SUBSET MentionsOf(d)]

\* A node is one of its mentions, with what it has taken from the others.
IsNode(d, s, n) ==
    /\ n \in NodeSet(d)
    /\ n.type = d.type[n.id] /\ n.key = d.key[n.id]
    /\ \A m \in n.of : d.type[m] = n.type
    /\ n.aliases \subseteq {d.alias[m] : m \in n.of}
    /\ n.chunks \subseteq {d.chunk[m] : m \in n.of}
    /\ \E b \in n.of : d.key[b] = n.key /\ d.text[b] = n.text /\ d.chunk[b] \in n.chunks
    /\ IF s THEN n.id = OwnId(d, s, n.id) ELSE n.id \in n.of

\* A list of nodes.
AreNodes(d, s, ns) == ns \in Seq(NodeSet(d)) /\ \A i \in DOMAIN ns : IsNode(d, s, ns[i])

\* The ids of a list; whether it has one twice; whether some node, or a node of
\* that id, stands for the mention.
IdsOf(ns) == {ns[i].id : i \in DOMAIN ns}
Unique(ns) == \A i, j \in DOMAIN ns : ns[i].id = ns[j].id => i = j
Covers(ns, m) == \E i \in DOMAIN ns : m \in ns[i].of
Carries(ns, id, m) == \E i \in DOMAIN ns : ns[i].id = id /\ m \in ns[i].of

\* Its positional id, given by a refinement pass, is that of another mention of its
\* chunk; one of no such mention ends where it is meant to.
Reused(d, m) ==
    m \in d.late /\ \E k \in MentionsOf(d) \ {m} : d.chunk[k] = d.chunk[m] /\ d.alias[k] = d.alias[m]
Meant(d, ns, id, m) == Reused(d, m) \/ Carries(ns, id, m)

\* Nodes of what the first pass has found come before those of late mentions.
EarlyFirst(d, ns) ==
    \A i, j \in DOMAIN ns : (ns[i].of \cap d.late # {} /\ ns[j].of \ d.late # {}) => j < i

\* No node lacks properties that a mention of it has.
HaveProps(d, ns) == \A i \in DOMAIN ns : ns[i].of \cap d.props # {} => ns[i].props

\* What Mixes looks for, in one node and in a list.
Blended(d, n) == \E m, k \in n.of : d.chunk[m] # d.chunk[k] \/ d.alias[m] \notin n.aliases
Blends(d, ns) == \E i \in DOMAIN ns : Blended(d, ns[i])

\* Relationships; those that pruning makes are of no mention.
Edges(d) ==
    [src : MentionsOf(d), dst : MentionsOf(d), from : 0..Len(d.chunk), to : 0..Len(d.chunk),
     auto : BOOLEAN]

\* The type of the state.
TypesHold ==
    /\ doc \in Documents /\ mode \in {"single", "multi"} /\ stable \in BOOLEAN
    /\ mode = "single" => doc.late = {}
    /\ step \in {"extract", "compare", "resolve", "resolved", "relate", "refine",
                 "dedup", "orphans", "prune", "done"}
    /\ chunk \in 1..doc.chunks /\ revisit \subseteq 1..doc.chunks
    /\ AreNodes(doc, stable, nodes) /\ AreNodes(doc, stable, resolved)
    /\ grouped \subseteq IdsOf(nodes) /\ edges \subseteq Edges(doc)
    /\ mixed \in BOOLEAN /\ overlap \in BOOLEAN /\ chained \in BOOLEAN
    /\ emptied \subseteq doc.props

\* Which paths have which steps, and what a step finds empty or untouched.
PhasesHold ==
    /\ step = "orphans" => mode = "single"
    /\ step = "refine" => mode = "multi"
    /\ step \notin {"resolve", "refine"} => resolved = <<>>
    /\ step # "resolve" => grouped = {}
    /\ step = "extract" => edges = {}
    /\ (mode = "single" /\ step \in {"compare", "resolve", "resolved"}) => edges = {}
    /\ step \notin {"orphans", "prune", "done"} =>
        ~chained /\ HaveProps(doc, nodes) /\ HaveProps(doc, resolved)

\* Who stands for the mentions: while groups are resolved, the nodes of those
\* that have been have followers in the new list; before pruning, a node
\* without properties has no mention with any, but those that were dropped.
CoverHolds ==
    /\ step = "extract" =>
        \A m \in MentionsOf(doc) \ doc.late : doc.chunk[m] < chunk => Covers(nodes, m)
    /\ step \notin {"extract", "done"} => \A m \in MentionsOf(doc) \ doc.late : Covers(nodes, m)
    /\ step = "done" => \A m \in (doc.props \ emptied) \ doc.late : Covers(nodes, m)
    /\ step = "resolve" =>
        \A i \in DOMAIN nodes : nodes[i].id \in grouped =>
            \A m \in nodes[i].of : Covers(resolved, m)
    /\ step \in {"orphans", "prune"} =>
        \A i \in DOMAIN nodes : ~nodes[i].props => nodes[i].of \cap doc.props \subseteq emptied

\* Where ids are unique; a resolved node is of a group, and stands for all its
\* namesake stood for.
UniqueHolds ==
    /\ (mode = "multi" /\ step \in {"extract", "relate", "refine", "compare"}) => Unique(nodes)
    /\ step = "resolve" =>
        /\ Unique(nodes)
        /\ ~overlap => Unique(resolved)
        /\ \A i \in DOMAIN resolved :
            /\ resolved[i].id \in grouped
            /\ \A j \in DOMAIN nodes : nodes[j].id = resolved[i].id => nodes[j].of \subseteq resolved[i].of
    /\ (step \notin {"extract", "compare"} /\ ~overlap) => Unique(nodes)

\* What a refinement pass has found is of late mentions, the chunks' in turn.
FreshHolds ==
    /\ (mode = "multi" /\ step \in {"extract", "relate", "refine"}) =>
        \A i \in DOMAIN nodes : nodes[i].of \cap doc.late = {}
    /\ step = "refine" =>
        /\ \A i \in DOMAIN resolved : \E m \in doc.late :
                doc.chunk[m] < chunk /\ resolved[i] = NodeFor(m)
        /\ ~stable => Unique(resolved)

\* While no node is blended, relationships end at nodes of the mentions meant.
NamesHold ==
    /\ Blends(doc, nodes) => mixed
    /\ ~mixed => \A e \in edges : e.auto \/
        IF step \in {"relate", "refine"}
        THEN Meant(doc, Listed, e.src, e.from) /\ Meant(doc, Listed, e.dst, e.to)
        ELSE /\ e.src \in IdsOf(nodes) => Meant(doc, nodes, e.src, e.from)
             /\ e.dst \in IdsOf(nodes) => Meant(doc, nodes, e.dst, e.to)

\* In the single-pass path relationships end at nodes of the list.
EndsHold ==
    (mode = "single" /\ ~chained) => \A e \in edges : e.auto \/ {e.src, e.dst} \subseteq IdsOf(nodes)

\* The inductive invariant.
BuildInv ==
    /\ TypesHold /\ PhasesHold /\ CoverHolds /\ UniqueHolds
    /\ FreshHolds /\ NamesHold /\ EndsHold

-----------------------------------------------------------------------------
(* Numbers and lists *)

\* Induction up to a bound, as a fact about a set.
LEMMA Reaches ==
    ASSUME NEW n \in Nat, NEW S, 0 \in S, \A k \in Nat : (k < n /\ k \in S) => k + 1 \in S
    PROVE  0..n \subseteq S
<1> DEFINE T == {k \in 0..n : k \notin S}
<1> SUFFICES ASSUME T # {} PROVE FALSE
  OBVIOUS
<1>1. PICK x \in T : \A y \in T : x <= y
  <2> T \in SUBSET Nat
    OBVIOUS
  <2> QED
    BY HasLeast
<1>2. x \in Nat /\ x <= n /\ x # 0 /\ x \notin S
  OBVIOUS
<1>3. x - 1 \in Nat /\ x - 1 < n /\ x - 1 \in S
  BY <1>1, <1>2
<1> QED
  BY <1>2, <1>3

\* Min is the least.
LEMMA LeastOf ==
    ASSUME NEW T \in SUBSET Nat, T # {}
    PROVE  Min(T) \in T /\ (\A y \in T : Min(T) <= y)
<1>1. \E x \in T : \A y \in T : x =< y
  BY HasLeast
<1> QED
  BY <1>1 DEF Min

\* Max is of the set.
LEMMA GreatestOf ==
    ASSUME NEW n \in Nat, NEW T \in SUBSET (0..n), T # {}
    PROVE  Max(T) \in T
<1> DEFINE U == {n - x : x \in T}
<1>1. U \in SUBSET Nat /\ U # {}
  <2>1. \A x \in T : n - x \in Nat
    OBVIOUS
  <2> QED
    BY <2>1
<1>2. PICK u \in U : \A v \in U : u <= v
  <2> HIDE DEF U
  <2> QED
    BY <1>1, HasLeast
<1>3. PICK x \in T : u = n - x
  OBVIOUS
<1>4. \A y \in T : x >= y
  <2> TAKE y \in T
  <2> n - y \in U
    OBVIOUS
  <2> QED
    BY <1>2, <1>3
<1> QED
  BY <1>4 DEF Max

\* Different weights make a list in which every argument has one place.
LEMMA OrderedList ==
    ASSUME NEW D, IsFiniteSet(D), NEW f, DOMAIN f = D,
           NEW w \in [D -> Int], \A x, y \in D : w[x] = w[y] => x = y
    PROVE  LET L == ListBy(f, w) IN
           /\ L = [k \in 1..Cardinality(D) |-> L[k]]
           /\ \E p \in Bijection(1..Cardinality(D), D) :
                  \A k \in 1..Cardinality(D) : L[k] = f[p[k]]
<1> DEFINE N == Cardinality(D)
           Below(x) == {y \in D : w[y] <= w[x]}
           rank == [x \in D |-> Cardinality(Below(x))]
           p == [k \in 1..N |-> CHOOSE x \in D : Cardinality(Below(x)) = k]
<1>1. N \in Nat
  BY FS_CardinalityType
<1>2. \A x \in D : IsFiniteSet(Below(x)) /\ Cardinality(Below(x)) \in 1..N
  <2> TAKE x \in D
  <2>1. Below(x) \in SUBSET D /\ x \in Below(x)
    OBVIOUS
  <2>2. IsFiniteSet(Below(x)) /\ Cardinality(Below(x)) <= N
    BY <2>1, FS_Subset
  <2>3. Cardinality(Below(x)) \in Nat /\ Cardinality(Below(x)) # 0
    BY <2>1, <2>2, FS_CardinalityType, FS_EmptySet
  <2> QED
    BY <1>1, <2>2, <2>3
<1>3. \A x, y \in D : w[x] < w[y] => Cardinality(Below(x)) # Cardinality(Below(y))
  <2> SUFFICES ASSUME NEW x \in D, NEW y \in D, w[x] < w[y],
                      Cardinality(Below(x)) = Cardinality(Below(y))
               PROVE  FALSE
    OBVIOUS
  <2>1. Below(x) \in SUBSET Below(y) /\ y \in Below(y) /\ y \notin Below(x)
    OBVIOUS
  <2>2. Below(x) = Below(y)
    <3> HIDE DEF Below
    <3> QED
      BY <1>2, <2>1, FS_Subset
  <2> QED
    BY <2>1, <2>2
<1>4. \A x, y \in D : rank[x] = rank[y] => x = y
  <2> SUFFICES ASSUME NEW x \in D, NEW y \in D, x # y
               PROVE  Cardinality(Below(x)) # Cardinality(Below(y))
    OBVIOUS
  <2>1. w[x] # w[y] /\ w[x] \in Int /\ w[y] \in Int
    OBVIOUS
  <2> HIDE DEF Below
  <2> QED
    BY <1>3, <2>1
<1>5. rank \in Injection(D, 1..N)
  <2> HIDE DEF Below, N
  <2> QED
    BY <1>2, <1>4 DEF Injection, IsInjective
<1>6. IsFiniteSet(1..N) /\ Cardinality(1..N) = N
  BY <1>1, FS_Interval
<1>7. rank \in Surjection(D, 1..N)
  <2> HIDE DEF rank
  <2> QED
    BY <1>5, <1>6, FS_Injection
<1>8. \A k \in 1..N : \E x \in D : Cardinality(Below(x)) = k
  <2> HIDE DEF Below, N
  <2> QED
    BY <1>7 DEF Surjection
<1>9. \A k \in 1..N : p[k] \in D /\ rank[p[k]] = k
  <2> HIDE DEF Below, N
  <2> QED
    BY <1>8
<1>10. \A x \in D : rank[x] \in 1..N /\ p[rank[x]] = x
  <2> HIDE DEF p
  <2> TAKE x \in D
  <2>1. rank[x] \in 1..N
    BY <1>5 DEF Injection
  <2> HIDE DEF rank
  <2> QED
    BY <1>4, <1>9, <2>1
<1>11. p \in Bijection(1..N, D)
  <2>1. p \in [1..N -> D]
    BY <1>8
  <2> HIDE DEF p, rank, N
  <2>2. p \in Injection(1..N, D)
    BY <1>9, <2>1 DEF Injection, IsInjective
  <2>3. p \in Surjection(1..N, D)
    BY <1>10, <2>1 DEF Surjection
  <2> QED
    BY <2>2, <2>3 DEF Bijection
<1>12. ListBy(f, w) = [k \in 1..N |-> f[p[k]]]
  BY DEF ListBy
<1>13. /\ ListBy(f, w) = [k \in 1..N |-> ListBy(f, w)[k]]
       /\ \A k \in 1..N : ListBy(f, w)[k] = f[p[k]]
  <2> HIDE DEF p, N
  <2> QED
    BY <1>12
<1> HIDE DEF p
<1> QED
  BY <1>11, <1>13

\* The same for the list of a function on numbers.
LEMMA ListPlaces ==
    ASSUME NEW D \in SUBSET Nat, IsFiniteSet(D), NEW f, DOMAIN f = D
    PROVE  /\ Len(List(f)) \in Nat /\ DOMAIN List(f) = 1..Len(List(f))
           /\ List(f) = [k \in 1..Len(List(f)) |-> List(f)[k]]
           /\ \E p \in Bijection(DOMAIN List(f), D) :
                \A k \in DOMAIN List(f) : List(f)[k] = f[p[k]]
<1> DEFINE w == [x \in D |-> x]
           N == Cardinality(D)
<1>1. w \in [D -> Int] /\ (\A x, y \in D : w[x] = w[y] => x = y)
  OBVIOUS
<1>2. /\ ListBy(f, w) = [k \in 1..N |-> ListBy(f, w)[k]]
      /\ \E p \in Bijection(1..N, D) : \A k \in 1..N : ListBy(f, w)[k] = f[p[k]]
  <2> HIDE DEF w
  <2> QED
    BY <1>1, OrderedList
<1>3. ListBy(f, w) = List(f)
  BY DEF List
<1>4. N \in Nat
  BY FS_CardinalityType
<1>5. DOMAIN List(f) = 1..N
  BY <1>2, <1>3
<1>6. Len(List(f)) = N
  BY <1>4, <1>5
<1> QED
  BY <1>2, <1>3, <1>4, <1>5, <1>6

\* The list ns is of the nodes of f, which has D for its domain;
Lists(d, s, D, f, ns) ==
    /\ AreNodes(d, s, ns)
    /\ \A i \in DOMAIN ns : \E x \in D : ns[i] = f[x]
    /\ \A x \in D : \E i \in DOMAIN ns : ns[i] = f[x]
    /\ (\A x, y \in D : f[x].id = f[y].id => x = y) => Unique(ns)

\* so is the list made of it.
LEMMA ListNodes ==
    ASSUME NEW d, NEW s, NEW D \in SUBSET Nat, IsFiniteSet(D), NEW f, DOMAIN f = D,
           \A x \in D : IsNode(d, s, f[x])
    PROVE  Lists(d, s, D, f, List(f))
<1>1. Len(List(f)) \in Nat /\ DOMAIN List(f) = 1..Len(List(f))
  BY ListPlaces
<1>2. PICK p \in Bijection(DOMAIN List(f), D) :
        \A k \in DOMAIN List(f) : List(f)[k] = f[p[k]]
  BY ListPlaces
<1>3. /\ \A i \in DOMAIN List(f) : p[i] \in D /\ List(f)[i] = f[p[i]]
      /\ \A i, j \in DOMAIN List(f) : p[i] = p[j] => i = j
      /\ \A x \in D : \E i \in DOMAIN List(f) : p[i] = x
  BY <1>2 DEF Bijection, Injection, Surjection, IsInjective
<1>4. \A i \in DOMAIN List(f) : IsNode(d, s, List(f)[i]) /\ List(f)[i] \in NodeSet(d)
  <2>1. \A n : IsNode(d, s, n) => n \in NodeSet(d)
    BY DEF IsNode
  <2> QED
    BY <1>3, <2>1
<1>5. List(f) \in Seq(NodeSet(d))
  <2>1. List(f) \in [1..Len(List(f)) -> NodeSet(d)]
    BY <1>1, <1>4, ListPlaces
  <2> QED
    BY <1>1, <2>1
<1>6. /\ \A i \in DOMAIN List(f) : \E x \in D : List(f)[i] = f[x]
      /\ \A x \in D : \E i \in DOMAIN List(f) : List(f)[i] = f[x]
  <2>1. \A i \in DOMAIN List(f) : \E x \in D : List(f)[i] = f[x]
    <3> TAKE i \in DOMAIN List(f)
    <3>1. p[i] \in D /\ List(f)[i] = f[p[i]]
      BY <1>3
    <3> QED
      BY <3>1
  <2>2. \A x \in D : \E i \in DOMAIN List(f) : List(f)[i] = f[x]
    <3> TAKE x \in D
    <3>1. PICK i \in DOMAIN List(f) : p[i] = x
      BY <1>3
    <3>2. List(f)[i] = f[x]
      BY <1>3, <3>1
    <3> QED
      BY <3>2
  <2> QED
    BY <2>1, <2>2
<1>7. ASSUME \A x, y \in D : f[x].id = f[y].id => x = y
      PROVE  Unique(List(f))
  <2> SUFFICES ASSUME NEW i \in DOMAIN List(f), NEW j \in DOMAIN List(f),
                      List(f)[i].id = List(f)[j].id
               PROVE  i = j
    BY DEF Unique
  <2>1. p[i] \in D /\ p[j] \in D /\ f[p[i]].id = f[p[j]].id
    BY <1>3
  <2>2. p[i] = p[j]
    BY <1>7, <2>1
  <2> QED
    BY <1>3, <2>2
<1>8. AreNodes(d, s, List(f))
  BY <1>4, <1>5 DEF AreNodes
<1> QED
  BY <1>6, <1>7, <1>8 DEF Lists

-----------------------------------------------------------------------------
(* Documents and nodes *)

\* What IsDocument says of a document's mentions.
LEMMA DocumentFacts ==
    ASSUME NEW d \in Documents
    PROVE  /\ Len(d.chunk) \in Nat /\ MentionsOf(d) = 1..Len(d.chunk)
           /\ IsFiniteSet(MentionsOf(d)) /\ d.chunks \in Nat \ {0}
           /\ \A m \in MentionsOf(d) : d.chunk[m] \in 1..d.chunks
           /\ d.props \subseteq MentionsOf(d) /\ d.late \subseteq MentionsOf(d)
           /\ \A m, k \in MentionsOf(d) : d.text[m] = d.text[k] => d.key[m] = d.key[k]
           /\ \A m, k \in MentionsOf(d) : d.key[m] = d.key[k] => (m \in d.props <=> k \in d.props)
           /\ \A m, k \in MentionsOf(d) \ d.late :
                (d.chunk[m] = d.chunk[k] /\ d.alias[m] = d.alias[k]) => m = k
<1>1. IsDocument(d)
  BY DocumentAssumption
<1>2. d.chunk \in Seq(1..d.chunks)
  BY <1>1 DEF IsDocument
<1>3. Len(d.chunk) \in Nat /\ \A m \in 1..Len(d.chunk) : d.chunk[m] \in 1..d.chunks
  <2> DEFINE c == d.chunk
             C == 1..d.chunks
  <2>1. c \in Seq(C)
    BY <1>2
  <2> HIDE DEF c, C
  <2>2. Len(c) \in Nat /\ \A m \in 1..Len(c) : c[m] \in C
    BY <2>1
  <2> QED
    BY <2>2 DEF c, C
<1>4. IsFiniteSet(1..Len(d.chunk))
  BY <1>3, FS_Interval
<1> QED
  BY <1>1, <1>3, <1>4 DEF IsDocument, MentionsOf

\* Stable ids are one for each type and key.
LEMMA OwnIds ==
    ASSUME NEW d \in Documents, NEW s \in BOOLEAN, NEW m \in MentionsOf(d)
    PROVE  /\ OwnId(d, s, m) \in MentionsOf(d)
           /\ d.type[OwnId(d, s, m)] = d.type[m] /\ d.key[OwnId(d, s, m)] = d.key[m]
           /\ ~s => OwnId(d, s, m) = m
           /\ s => \A k \in MentionsOf(d) :
                        (d.type[k] = d.type[m] /\ d.key[k] = d.key[m])
                            => OwnId(d, s, k) = OwnId(d, s, m)
<1> DEFINE Like(k) == {j \in MentionsOf(d) : SameEntity(d, k, j)}
<1>1. Like(m) \in SUBSET Nat /\ m \in Like(m)
  BY DocumentFacts DEF SameEntity
<1>2. Min(Like(m)) \in Like(m)
  BY <1>1, LeastOf
<1>3. \A k \in MentionsOf(d) : (d.type[k] = d.type[m] /\ d.key[k] = d.key[m]) => Like(k) = Like(m)
  BY DEF SameEntity
<1> QED
  BY <1>2, <1>3 DEF OwnId, SameEntity

\* The fields of a node.
LEMMA NodeFields ==
    ASSUME NEW d, NEW s, NEW n, IsNode(d, s, n)
    PROVE  /\ n = [id |-> n.id, type |-> n.type, key |-> n.key, text |-> n.text,
                   aliases |-> n.aliases, chunks |-> n.chunks, props |-> n.props, of |-> n.of]
           /\ n.id \in MentionsOf(d) /\ n.type = d.type[n.id] /\ n.key = d.key[n.id]
           /\ n.props \in BOOLEAN /\ n.chunks \subseteq 1..d.chunks
           /\ n.of \subseteq MentionsOf(d) /\ n.of # {}
BY DEF IsNode, NodeSet

\* transform_as_nodes makes a node of a mention, blended with no other.
LEMMA NodeForNode ==
    ASSUME doc \in Documents, stable \in BOOLEAN, NEW m \in MentionsOf(doc)
    PROVE  /\ IsNode(doc, stable, NodeFor(m)) /\ NodeFor(m).of = {m}
           /\ NodeFor(m).id = OwnId(doc, stable, m) /\ (~stable => NodeFor(m).id = m)
           /\ NodeFor(m).text = doc.text[m] /\ NodeFor(m).key = doc.key[m]
           /\ (NodeFor(m).props <=> m \in doc.props)
           /\ ~Blended(doc, NodeFor(m))
<1> DEFINE n == NodeFor(m)
<1>1. IdOf(m) = OwnId(doc, stable, m)
  BY DEF IdOf, OwnId, Mentions, MentionsOf, SameEntity
<1>2. n = [id |-> OwnId(doc, stable, m), type |-> doc.type[m], key |-> doc.key[m],
           text |-> doc.text[m], aliases |-> {doc.alias[m]}, chunks |-> {doc.chunk[m]},
           props |-> m \in doc.props, of |-> {m}]
  BY <1>1 DEF NodeFor
<1> HIDE DEF n
<1>3. /\ n.id = OwnId(doc, stable, m) /\ n.type = doc.type[m] /\ n.key = doc.key[m]
      /\ n.text = doc.text[m] /\ n.aliases = {doc.alias[m]} /\ n.chunks = {doc.chunk[m]}
      /\ n.of = {m}
  BY <1>2
<1>4. n.props = (m \in doc.props)
  BY <1>2
<1>5. OwnId(doc, stable, m) \in MentionsOf(doc) /\ doc.chunk[m] \in 1..doc.chunks
  BY OwnIds, DocumentFacts
<1>6. n \in NodeSet(doc)
  BY <1>2, <1>5 DEF NodeSet
<1>7. stable => OwnId(doc, stable, n.id) = n.id
  <2>1. n.id \in MentionsOf(doc) /\ doc.type[n.id] = doc.type[m] /\ doc.key[n.id] = doc.key[m]
    BY <1>3, OwnIds
  <2>2. stable => OwnId(doc, stable, n.id) = OwnId(doc, stable, m)
    BY <2>1, OwnIds
  <2> QED
    BY <1>3, <2>2
<1>8. ~stable => n.id \in n.of
  BY <1>3, OwnIds
<1>9. IsNode(doc, stable, n)
  BY <1>3, <1>6, <1>7, <1>8, OwnIds DEF IsNode
<1>10. ~Blended(doc, n)
  BY <1>3 DEF Blended
<1>11. ~stable => n.id = m
  BY <1>3, OwnIds
<1> QED
  BY <1>3, <1>4, <1>9, <1>10, <1>11 DEF n

-----------------------------------------------------------------------------
(* Nodes put into a list *)

\* How Insert compares nodes: in the single pass, in the extractor, by id.
Ways == {"content", "entity", "id"}

\* Nodes that are the same have one type, and in two of the ways one id.
LEMMA SameNodes ==
    ASSUME NEW d \in Documents, NEW s \in BOOLEAN, NEW how \in Ways,
           NEW a, NEW b, IsNode(d, s, a), IsNode(d, s, b), Same(how, a, b)
    PROVE  /\ a.type = b.type
           /\ (how = "id" \/ (how = "entity" /\ s)) => a.id = b.id
<1>1. a.type = b.type
  <2>1. a.type = d.type[a.id] /\ b.type = d.type[b.id]
    BY NodeFields
  <2> QED
    BY <2>1 DEF Same, IsDuplicateNode, IsSameNode, Ways
<1>2. ASSUME how = "entity", s
      PROVE  a.id = b.id
  <2>1. a.id = b.id \/ a.key = b.key \/ a.text = b.text
    BY <1>2 DEF Same, IsSameNode
  <2>2. a.text = b.text => a.key = b.key
    <3>1. PICK m \in a.of : d.key[m] = a.key /\ d.text[m] = a.text
      BY DEF IsNode
    <3>2. PICK k \in b.of : d.key[k] = b.key /\ d.text[k] = b.text
      BY DEF IsNode
    <3>3. m \in MentionsOf(d) /\ k \in MentionsOf(d)
      BY NodeFields
    <3> QED
      BY <3>1, <3>2, <3>3, DocumentFacts
  <2>3. /\ a.id \in MentionsOf(d) /\ a.type = d.type[a.id] /\ a.key = d.key[a.id]
        /\ b.id \in MentionsOf(d) /\ b.type = d.type[b.id] /\ b.key = d.key[b.id]
    BY NodeFields
  <2>4. a.id = OwnId(d, s, a.id) /\ b.id = OwnId(d, s, b.id)
    BY <1>2 DEF IsNode
  <2>5. a.key = b.key => OwnId(d, s, a.id) = OwnId(d, s, b.id)
    <3> SUFFICES ASSUME a.key = b.key PROVE OwnId(d, s, a.id) = OwnId(d, s, b.id)
      OBVIOUS
    <3>1. d.type[b.id] = d.type[a.id] /\ d.key[b.id] = d.key[a.id]
      BY <1>1, <2>3
    <3> QED
      BY <1>2, <2>3, <3>1, OwnIds
  <2> QED
    BY <2>1, <2>2, <2>4, <2>5
<1> QED
  BY <1>1, <1>2 DEF Same

\* Nodes with one id are the same, but for the comparison by content.
LEMMA SameIdSame ==
    ASSUME NEW d, NEW s, NEW how \in {"entity", "id"},
           NEW a, NEW b, IsNode(d, s, a), IsNode(d, s, b), a.id = b.id
    PROVE  Same(how, a, b)
<1>1. a.type = b.type
  BY NodeFields
<1> QED
  BY <1>1 DEF Same, IsSameNode

\* A node that takes over what stands for more mentions of its type.
LEMMA GrownNode ==
    ASSUME NEW d, NEW s, NEW a, NEW n, IsNode(d, s, a), n \in NodeSet(d),
           n.id = a.id, n.type = a.type, n.key = a.key, n.text = a.text,
           a.of \subseteq n.of, a.chunks \subseteq n.chunks,
           \A m \in n.of : d.type[m] = n.type,
           n.aliases \subseteq {d.alias[m] : m \in n.of},
           n.chunks \subseteq {d.chunk[m] : m \in n.of}
    PROVE  IsNode(d, s, n)
<1>1. PICK m \in a.of : d.key[m] = a.key /\ d.text[m] = a.text /\ d.chunk[m] \in a.chunks
  BY DEF IsNode
<1>2. \E b \in n.of : d.key[b] = n.key /\ d.text[b] = n.text /\ d.chunk[b] \in n.chunks
  BY <1>1
<1>3. IF s THEN n.id = OwnId(d, s, n.id) ELSE n.id \in n.of
  BY DEF IsNode
<1>4. n.type = d.type[n.id] /\ n.key = d.key[n.id]
  BY NodeFields
<1> QED
  BY <1>2, <1>3, <1>4 DEF IsNode

\* What a node has of its mentions.
LEMMA NodeParts ==
    ASSUME NEW d, NEW s, NEW n, IsNode(d, s, n)
    PROVE  /\ \A m \in n.of : d.type[m] = n.type
           /\ n.aliases \subseteq {d.alias[m] : m \in n.of}
           /\ n.chunks \subseteq {d.chunk[m] : m \in n.of}
BY DEF IsNode

\* What is kept of two nodes is the first, and stands for the mentions of both.
LEMMA KeptNode ==
    ASSUME NEW d, NEW s, NEW how \in Ways, NEW a, NEW b,
           IsNode(d, s, a), IsNode(d, s, b), a.type = b.type
    PROVE  LET n == Kept(how, a, b) IN
           /\ IsNode(d, s, n) /\ n.id = a.id /\ n.text = a.text /\ n.of = a.of \cup b.of
           /\ how = "content" => n.props = a.props
           /\ how # "content" => n.props = (a.props \/ b.props)
<1> DEFINE n == Kept(how, a, b)
<1>1. /\ a = [id |-> a.id, type |-> a.type, key |-> a.key, text |-> a.text,
              aliases |-> a.aliases, chunks |-> a.chunks, props |-> a.props, of |-> a.of]
      /\ a.props \in BOOLEAN /\ b.props \in BOOLEAN
  BY NodeFields
<1>2. CASE how = "content"
  <2>1. n = [a EXCEPT !.of = @ \cup b.of]
    BY <1>2 DEF Kept
  <2>2. /\ n.id = a.id /\ n.type = a.type /\ n.key = a.key /\ n.text = a.text
        /\ n.aliases = a.aliases /\ n.chunks = a.chunks /\ n.props = a.props
        /\ n.of = a.of \cup b.of
    BY <1>1, <2>1
  <2>3. n \in NodeSet(d)
    BY <2>1 DEF IsNode, NodeSet
  <2>4. IsNode(d, s, n)
    <3> HIDE DEF n
    <3>1. /\ n.aliases \subseteq {d.alias[m] : m \in n.of}
          /\ n.chunks \subseteq {d.chunk[m] : m \in n.of}
          /\ \A m \in n.of : d.type[m] = n.type
      BY <2>2, NodeParts
    <3> QED
      BY <2>2, <2>3, <3>1, GrownNode
  <2> QED
    BY <1>2, <2>2, <2>4
<1>3. CASE how # "content"
  <2>1. n = [a EXCEPT !.aliases = @ \cup b.aliases, !.chunks = @ \cup b.chunks,
                      !.props = @ \/ b.props, !.of = @ \cup b.of]
    BY <1>3 DEF Kept, Merged
  <2>2. /\ n.id = a.id /\ n.type = a.type /\ n.key = a.key /\ n.text = a.text
        /\ n.aliases = a.aliases \cup b.aliases /\ n.chunks = a.chunks \cup b.chunks
        /\ n.of = a.of \cup b.of
    BY <1>1, <2>1
  <2>3. n.props = (a.props \/ b.props)
    BY <1>1, <2>1
  <2>4. n \in NodeSet(d)
    <3>1. a \in NodeSet(d) /\ b \in NodeSet(d)
      BY DEF IsNode
    <3>2. n = [id |-> n.id, type |-> n.type, key |-> n.key, text |-> n.text,
               aliases |-> n.aliases, chunks |-> n.chunks, props |-> n.props, of |-> n.of]
      BY <1>1, <2>1
    <3> HIDE DEF n
    <3>3. n.aliases = a.aliases \cup b.aliases /\ n.chunks = a.chunks \cup b.chunks
      BY <2>2
    <3>4. n.props \in BOOLEAN
      BY <1>1, <2>3
    <3> QED
      BY <2>2, <3>1, <3>2, <3>3, <3>4 DEF NodeSet
  <2>5. IsNode(d, s, n)
    <3> HIDE DEF n
    <3>1. /\ n.aliases \subseteq {d.alias[m] : m \in n.of}
          /\ n.chunks \subseteq {d.chunk[m] : m \in n.of}
          /\ \A m \in n.of : d.type[m] = n.type
      BY <2>2, NodeParts
    <3> QED
      BY <2>2, <2>4, <3>1, GrownNode
  <2> QED
    BY <1>3, <2>2, <2>3, <2>5
<1> QED
  BY <1>2, <1>3

\* A node put into a list is at its end, or in the first that is the same.
LEMMA InsertPlace ==
    ASSUME NEW d \in Documents, NEW s \in BOOLEAN, NEW how \in Ways, NEW ns, NEW n,
           AreNodes(d, s, ns), IsNode(d, s, n)
    PROVE  LET out == Insert(how, ns, n) IN
           /\ AreNodes(d, s, out) /\ Len(ns) \in Nat /\ DOMAIN ns = 1..Len(ns)
           /\ \/ /\ \A i \in DOMAIN ns : ~Same(how, ns[i], n) /\ out[i] = ns[i]
                 /\ DOMAIN out = 1..(Len(ns) + 1) /\ out[Len(ns) + 1] = n
              \/ \E p \in DOMAIN ns :
                    /\ Same(how, ns[p], n) /\ DOMAIN out = DOMAIN ns
                    /\ out[p] = Kept(how, ns[p], n)
                    /\ \A i \in DOMAIN ns : i # p => out[i] = ns[i]
<1> DEFINE out == Insert(how, ns, n)
           same == {i \in DOMAIN ns : Same(how, ns[i], n)}
<1>1. ns \in Seq(NodeSet(d)) /\ n \in NodeSet(d) /\ Len(ns) \in Nat /\ DOMAIN ns = 1..Len(ns)
  BY DEF AreNodes, IsNode
<1>2. CASE same = {}
  <2>1. out = Append(ns, n)
    BY <1>2 DEF Insert
  <2>2. /\ out \in Seq(NodeSet(d)) /\ DOMAIN out = 1..(Len(ns) + 1)
        /\ \A i \in DOMAIN ns : out[i] = ns[i]
        /\ out[Len(ns) + 1] = n
    BY <1>1, <2>1
  <2>3. \A i \in DOMAIN out : IsNode(d, s, out[i])
    <3> TAKE i \in DOMAIN out
    <3>1. i \in DOMAIN ns \/ i = Len(ns) + 1
      BY <1>1, <2>2
    <3> QED
      BY <2>2, <3>1 DEF AreNodes
  <2> QED
    BY <1>1, <1>2, <2>2, <2>3 DEF AreNodes
<1>3. CASE same # {}
  <2> DEFINE p == Min(same)
             k == Kept(how, ns[p], n)
  <2>1. p \in same
    <3>1. same \in SUBSET Nat
      BY <1>1
    <3> QED
      BY <1>3, <3>1, LeastOf
  <2>2. out = [ns EXCEPT ![p] = k]
    BY <1>3 DEF Insert
  <2> HIDE DEF p
  <2>3. IsNode(d, s, k) /\ k \in NodeSet(d)
    <3>1. IsNode(d, s, ns[p]) /\ Same(how, ns[p], n)
      BY <2>1 DEF AreNodes
    <3>2. ns[p].type = n.type
      BY <3>1, SameNodes
    <3>3. IsNode(d, s, k)
      BY <3>1, <3>2, KeptNode
    <3> QED
      BY <3>3 DEF IsNode
  <2> HIDE DEF k
  <2>4. /\ out \in Seq(NodeSet(d)) /\ DOMAIN out = DOMAIN ns /\ out[p] = k
        /\ \A i \in DOMAIN ns : i # p => out[i] = ns[i]
    BY <1>1, <2>1, <2>2, <2>3
  <2>5. AreNodes(d, s, out)
    <3> HIDE DEF out
    <3> QED
      BY <2>3, <2>4 DEF AreNodes
  <2> QED
    BY <1>1, <2>1, <2>4, <2>5 DEF k
<1> QED
  BY <1>2, <1>3

\* Nothing is lost, and in the two later ways no id is doubled.
LEMMA InsertKeeps ==
    ASSUME NEW d \in Documents, NEW s \in BOOLEAN, NEW how \in Ways, NEW ns, NEW n,
           AreNodes(d, s, ns), IsNode(d, s, n)
    PROVE  LET out == Insert(how, ns, n) IN
           /\ AreNodes(d, s, out)
           /\ \A i \in DOMAIN ns :
                i \in DOMAIN out /\ out[i].id = ns[i].id /\ ns[i].of \subseteq out[i].of
           /\ \E i \in DOMAIN out :
                /\ n.of \subseteq out[i].of
                /\ (how = "id" \/ (how = "entity" /\ s)) => out[i].id = n.id
           /\ \A i \in DOMAIN out :
                \/ i \in DOMAIN ns /\ out[i].of \subseteq ns[i].of \cup n.of
                \/ i \notin DOMAIN ns /\ out[i] = n
           /\ (how # "content" /\ Unique(ns)) => Unique(out)
<1> DEFINE out == Insert(how, ns, n)
           L == Len(ns)
<1>1. AreNodes(d, s, out) /\ L \in Nat /\ DOMAIN ns = 1..L
  BY InsertPlace
<1>2. ASSUME \A i \in DOMAIN ns : ~Same(how, ns[i], n) /\ out[i] = ns[i],
             DOMAIN out = 1..(L + 1), out[L + 1] = n
      PROVE  /\ \A i \in DOMAIN ns :
                  i \in DOMAIN out /\ out[i].id = ns[i].id /\ ns[i].of \subseteq out[i].of
             /\ \E i \in DOMAIN out : n.of \subseteq out[i].of /\ out[i].id = n.id
             /\ \A i \in DOMAIN out :
                  \/ i \in DOMAIN ns /\ out[i].of \subseteq ns[i].of \cup n.of
                  \/ i \notin DOMAIN ns /\ out[i] = n
             /\ (how # "content" /\ Unique(ns)) => Unique(out)
  <2> HIDE DEF out, L
  <2>1. \A i \in DOMAIN out : i \in DOMAIN ns \/ (i = L + 1 /\ i \notin DOMAIN ns)
    BY <1>1, <1>2
  <2>2. L + 1 \in DOMAIN out
    BY <1>1, <1>2
  <2>3. \A i \in DOMAIN ns : i \in DOMAIN out
    BY <1>1, <1>2
  <2>4. ASSUME how # "content", Unique(ns)
        PROVE  Unique(out)
    <3>1. \A i \in DOMAIN ns : ns[i].id # n.id
      <4> TAKE i \in DOMAIN ns
      <4>1. IsNode(d, s, ns[i]) /\ how \in {"entity", "id"} /\ ~Same(how, ns[i], n)
        BY <1>2, <2>4 DEF AreNodes, Ways
      <4> QED
        BY <4>1, SameIdSame
    <3> SUFFICES ASSUME NEW i \in DOMAIN out, NEW j \in DOMAIN out, out[i].id = out[j].id
                 PROVE  i = j
      BY DEF Unique
    <3>2. CASE i \in DOMAIN ns /\ j \in DOMAIN ns
      BY <1>2, <2>4, <3>2 DEF Unique
    <3>3. CASE i \in DOMAIN ns /\ j \notin DOMAIN ns
      BY <1>2, <2>1, <3>1, <3>3
    <3>4. CASE i \notin DOMAIN ns /\ j \in DOMAIN ns
      BY <1>2, <2>1, <3>1, <3>4
    <3>5. CASE i \notin DOMAIN ns /\ j \notin DOMAIN ns
      BY <2>1, <3>5
    <3> QED
      BY <3>2, <3>3, <3>4, <3>5
  <2> QED
    BY <1>2, <2>1, <2>2, <2>3, <2>4
<1>3. ASSUME NEW p \in DOMAIN ns, Same(how, ns[p], n), DOMAIN out = DOMAIN ns,
             out[p] = Kept(how, ns[p], n), \A i \in DOMAIN ns : i # p => out[i] = ns[i]
      PROVE  /\ \A i \in DOMAIN ns :
                  i \in DOMAIN out /\ out[i].id = ns[i].id /\ ns[i].of \subseteq out[i].of
             /\ \E i \in DOMAIN out :
                  /\ n.of \subseteq out[i].of
                  /\ (how = "id" \/ (how = "entity" /\ s)) => out[i].id = n.id
             /\ \A i \in DOMAIN out :
                  i \in DOMAIN ns /\ out[i].of \subseteq ns[i].of \cup n.of
             /\ (how # "content" /\ Unique(ns)) => Unique(out)
  <2>1. IsNode(d, s, ns[p])
    BY DEF AreNodes
  <2>2. /\ ns[p].type = n.type
        /\ (how = "id" \/ (how = "entity" /\ s)) => ns[p].id = n.id
    BY <1>3, <2>1, SameNodes
  <2>3. out[p].id = ns[p].id /\ out[p].of = ns[p].of \cup n.of
    BY <1>3, <2>1, <2>2, KeptNode, SMTT(30)
  <2> HIDE DEF out, L
  <2>4. \A i \in DOMAIN ns :
          /\ out[i].id = ns[i].id /\ ns[i].of \subseteq out[i].of
          /\ out[i].of \subseteq ns[i].of \cup n.of
    BY <1>3, <2>3
  <2>5. Unique(ns) => Unique(out)
    BY <1>3, <2>4 DEF Unique
  <2>6. n.of \subseteq out[p].of /\ ((how = "id" \/ (how = "entity" /\ s)) => out[p].id = n.id)
    BY <2>2, <2>3
  <2> QED
    BY <1>3, <2>4, <2>5, <2>6
<1>4. \/ /\ \A i \in DOMAIN ns : ~Same(how, ns[i], n) /\ out[i] = ns[i]
         /\ DOMAIN out = 1..(L + 1) /\ out[L + 1] = n
      \/ \E p \in DOMAIN ns :
            /\ Same(how, ns[p], n) /\ DOMAIN out = DOMAIN ns
            /\ out[p] = Kept(how, ns[p], n)
            /\ \A i \in DOMAIN ns : i # p => out[i] = ns[i]
  BY InsertPlace
<1> HIDE DEF out, L
<1>5. CASE /\ \A i \in DOMAIN ns : ~Same(how, ns[i], n) /\ out[i] = ns[i]
           /\ DOMAIN out = 1..(L + 1) /\ out[L + 1] = n
  BY <1>1, <1>2, <1>5 DEF out
<1>6. CASE \E p \in DOMAIN ns :
            /\ Same(how, ns[p], n) /\ DOMAIN out = DOMAIN ns
            /\ out[p] = Kept(how, ns[p], n)
            /\ \A i \in DOMAIN ns : i # p => out[i] = ns[i]
  BY <1>1, <1>3, <1>6 DEF out
<1> QED
  BY <1>4, <1>5, <1>6

\* Neither is a property; what is dropped for its content has those of the node kept.
LEMMA InsertProps ==
    ASSUME NEW d \in Documents, NEW s \in BOOLEAN, NEW how \in Ways, NEW ns, NEW n,
           AreNodes(d, s, ns), IsNode(d, s, n), HaveProps(d, ns),
           n.of \cap d.props # {} => n.props,
           how = "content" => \E m \in MentionsOf(d) : n.of = {m} /\ n.text = d.text[m]
    PROVE  HaveProps(d, Insert(how, ns, n))
<1> DEFINE out == Insert(how, ns, n)
<1>1. Len(ns) \in Nat /\ DOMAIN ns = 1..Len(ns)
  BY InsertPlace
<1>2. ASSUME \A i \in DOMAIN ns : ~Same(how, ns[i], n) /\ out[i] = ns[i],
             DOMAIN out = 1..(Len(ns) + 1), out[Len(ns) + 1] = n
      PROVE  HaveProps(d, out)
  <2> HIDE DEF out
  <2>1. \A i \in DOMAIN out : i \in DOMAIN ns \/ i = Len(ns) + 1
    BY <1>1, <1>2
  <2> QED
    BY <1>2, <2>1 DEF HaveProps
<1>3. ASSUME NEW p \in DOMAIN ns, Same(how, ns[p], n), DOMAIN out = DOMAIN ns,
             out[p] = Kept(how, ns[p], n), \A i \in DOMAIN ns : i # p => out[i] = ns[i]
      PROVE  HaveProps(d, out)
  <2>1. IsNode(d, s, ns[p])
    BY DEF AreNodes
  <2>2. ns[p].type = n.type
    BY <1>3, <2>1, SameNodes
  <2>3. /\ out[p].of = ns[p].of \cup n.of
        /\ how = "content" => out[p].props = ns[p].props
        /\ how # "content" => out[p].props = (ns[p].props \/ n.props)
    BY <1>3, <2>1, <2>2, KeptNode, SMTT(30)
  <2>4. ns[p].of \cap d.props # {} => ns[p].props
    BY DEF HaveProps
  <2>5. ASSUME how = "content", out[p].of \cap d.props # {}
        PROVE  ns[p].props
    <3>1. PICK m \in MentionsOf(d) : n.of = {m} /\ n.text = d.text[m]
      BY <2>5
    <3>2. PICK b \in ns[p].of : d.key[b] = ns[p].key /\ d.text[b] = ns[p].text
      BY <2>1 DEF IsNode
    <3>3. b \in MentionsOf(d) /\ ns[p].text = n.text
      BY <1>3, <2>1, <2>5, NodeFields DEF Same, IsDuplicateNode
    <3>4. m \in d.props <=> b \in d.props
      BY <3>1, <3>2, <3>3, DocumentFacts
    <3> QED
      BY <2>3, <2>4, <2>5, <3>1, <3>2, <3>4
  <2> HIDE DEF out
  <2>6. out[p].of \cap d.props # {} => out[p].props
    <3>1. CASE how = "content"
      BY <2>3, <2>5, <3>1
    <3>2. CASE how # "content"
      <4>1. out[p].of \cap d.props # {} => (ns[p].of \cap d.props # {} \/ n.of \cap d.props # {})
        BY <2>3
      <4>2. out[p].of \cap d.props # {} => (ns[p].props \/ n.props)
        BY <2>4, <4>1
      <4> QED
        BY <2>3, <3>2, <4>2, Zenon
    <3> QED
      BY <3>1, <3>2
  <2> QED
    BY <1>3, <2>6 DEF HaveProps
<1>4. \/ /\ \A i \in DOMAIN ns : ~Same(how, ns[i], n) /\ out[i] = ns[i]
         /\ DOMAIN out = 1..(Len(ns) + 1) /\ out[Len(ns) + 1] = n
      \/ \E p \in DOMAIN ns :
            /\ Same(how, ns[p], n) /\ DOMAIN out = DOMAIN ns
            /\ out[p] = Kept(how, ns[p], n)
            /\ \A i \in DOMAIN ns : i # p => out[i] = ns[i]
  BY InsertPlace
<1> HIDE DEF out
<1>5. HaveProps(d, out)
  BY <1>2, <1>3, <1>4
<1> QED
  BY <1>5 DEF out

\* The lists Inserting goes through exist; each is the one before with a node put in.
LEMMA InsertingSteps ==
    ASSUME NEW how, NEW ns, NEW new, Len(new) \in Nat
    PROVE  /\ Inserting(how, ns, new)[0] = ns
           /\ \A k \in 1..Len(new) :
                Inserting(how, ns, new)[k] = Insert(how, Inserting(how, ns, new)[k - 1], new[k])
<1> DEFINE N == Len(new)
           Steps(f, k) == f = [j \in 0..k |-> IF j = 0 THEN ns ELSE Insert(how, f[j - 1], new[j])]
           S == {k \in 0..N : \E f : Steps(f, k)}
           L == Inserting(how, ns, new)
<1>1. 0 \in S
  <2> DEFINE f == [j \in 0..0 |-> ns]
  <2>1. Steps(f, 0)
    <3>1. [j \in 0..0 |-> IF j = 0 THEN ns ELSE Insert(how, f[j - 1], new[j])] = [j \in 0..0 |-> ns]
      OBVIOUS
    <3> QED
      BY <3>1
  <2>2. 0 \in 0..N
    OBVIOUS
  <2> HIDE DEF f, Steps
  <2> QED
    BY <2>1, <2>2
<1>2. ASSUME NEW k \in Nat, k < N, k \in S
      PROVE  k + 1 \in S
  <2>1. PICK f : Steps(f, k)
    BY <1>2
  <2>2. /\ DOMAIN f = 0..k /\ f[0] = ns
        /\ \A j \in 1..k : f[j] = Insert(how, f[j - 1], new[j])
    BY <2>1
  <2> DEFINE g == [j \in 0..(k + 1) |-> IF j <= k THEN f[j] ELSE Insert(how, f[k], new[k + 1])]
  <2>3. /\ \A j \in 0..k : g[j] = f[j]
        /\ g[k + 1] = Insert(how, f[k], new[k + 1])
    OBVIOUS
  <2>4. g[0] = ns /\ \A j \in 1..(k + 1) : g[j] = Insert(how, g[j - 1], new[j])
    <3>1. \A j \in 1..k : j - 1 \in 0..k /\ j \in 0..k
      OBVIOUS
    <3>2. \A j \in 1..k : g[j] = Insert(how, g[j - 1], new[j])
      BY <2>2, <2>3, <3>1
    <3>3. g[k + 1] = Insert(how, g[(k + 1) - 1], new[k + 1])
      BY <2>3
    <3>4. \A j \in 1..(k + 1) : j \in 1..k \/ j = k + 1
      OBVIOUS
    <3>5. 0 \in 0..k
      OBVIOUS
    <3> HIDE DEF g
    <3>6. g[0] = ns
      BY <2>2, <2>3, <3>5
    <3>7. ASSUME NEW j \in 1..(k + 1)
          PROVE  g[j] = Insert(how, g[j - 1], new[j])
      BY <3>2, <3>3, <3>4
    <3> QED
      BY <3>6, <3>7
  <2>5. g = [j \in 0..(k + 1) |-> g[j]]
    OBVIOUS
  <2>6. Steps(g, k + 1)
    <3> HIDE DEF g
    <3>1. \A j \in 0..(k + 1) : g[j] = IF j = 0 THEN ns ELSE Insert(how, g[j - 1], new[j])
      BY <2>4
    <3> QED
      BY <2>5, <3>1
  <2>7. k + 1 \in 0..N
    BY <1>2
  <2> HIDE DEF g, Steps
  <2> QED
    BY <2>6, <2>7
<1>3. N \in S
  <2>1. \A k \in Nat : (k < N /\ k \in S) => k + 1 \in S
    BY <1>2
  <2> HIDE DEF S
  <2>2. 0..N \subseteq S
    BY <1>1, <2>1, Reaches
  <2> QED
    BY <2>2
<1>4. \E f : Steps(f, N)
  BY <1>3
<1>5. Steps(L, N)
  BY <1>4 DEF Inserting
<1> HIDE DEF L
<1>6. L[0] = ns /\ \A k \in 1..N : L[k] = Insert(how, L[k - 1], new[k])
  BY <1>5
<1> QED
  BY <1>6 DEF L

\* What a list has become when the first k of the new nodes are in it.
Filled(d, s, how, ns, new, k, out) ==
    /\ AreNodes(d, s, out)
    /\ \A i \in DOMAIN ns :
         i \in DOMAIN out /\ out[i].id = ns[i].id /\ ns[i].of \subseteq out[i].of
    /\ \A j \in 1..k : \E i \in DOMAIN out :
         /\ new[j].of \subseteq out[i].of
         /\ (how = "id" \/ (how = "entity" /\ s)) => out[i].id = new[j].id
    /\ \A i \in DOMAIN out : out[i].id \in IdsOf(ns) \/ \E j \in 1..k : out[i].id = new[j].id
    /\ \A i \in DOMAIN out : \A m \in out[i].of :
         Covers(ns, m) \/ \E j \in 1..k : m \in new[j].of
    /\ (how # "content" /\ Unique(ns)) => Unique(out)

\* New ids that no other node has stay with the mentions they come with.
Settled(new, k, out) ==
    \A j \in 1..k : new[j].id \in IdsOf(out) =>
        \E i \in DOMAIN out : out[i].id = new[j].id /\ new[j].of \subseteq out[i].of

\* One more node keeps a list filled,
LEMMA FilledStep ==
    ASSUME NEW d \in Documents, NEW s \in BOOLEAN, NEW how \in Ways, NEW ns, NEW new,
           NEW k \in Nat, NEW list, Filled(d, s, how, ns, new, k, list),
           IsNode(d, s, new[k + 1])
    PROVE  Filled(d, s, how, ns, new, k + 1, Insert(how, list, new[k + 1]))
<1> DEFINE n == new[k + 1]
           out == Insert(how, list, n)
<1>1. AreNodes(d, s, list)
  BY DEF Filled
<1>2. /\ AreNodes(d, s, out)
      /\ \A i \in DOMAIN list :
           i \in DOMAIN out /\ out[i].id = list[i].id /\ list[i].of \subseteq out[i].of
      /\ \E i \in DOMAIN out :
           /\ n.of \subseteq out[i].of
           /\ (how = "id" \/ (how = "entity" /\ s)) => out[i].id = n.id
      /\ \A i \in DOMAIN out :
           \/ i \in DOMAIN list /\ out[i].of \subseteq list[i].of \cup n.of
           \/ i \notin DOMAIN list /\ out[i] = n
      /\ (how # "content" /\ Unique(list)) => Unique(out)
  BY <1>1, InsertKeeps
<1> HIDE DEF out
<1>3. \A j \in 1..(k + 1) : j \in 1..k \/ j = k + 1
  OBVIOUS
<1>4. \A j \in 1..k : j \in 1..(k + 1)
  OBVIOUS
<1>5. k + 1 \in 1..(k + 1)
  OBVIOUS
<1>6. \A i \in DOMAIN ns :
        i \in DOMAIN out /\ out[i].id = ns[i].id /\ ns[i].of \subseteq out[i].of
  BY <1>2 DEF Filled
<1>7. ASSUME NEW j \in 1..(k + 1)
      PROVE  \E i \in DOMAIN out :
                /\ new[j].of \subseteq out[i].of
                /\ (how = "id" \/ (how = "entity" /\ s)) => out[i].id = new[j].id
  <2>1. CASE j \in 1..k
    <3>1. PICK i \in DOMAIN list :
            /\ new[j].of \subseteq list[i].of
            /\ (how = "id" \/ (how = "entity" /\ s)) => list[i].id = new[j].id
      BY <2>1 DEF Filled
    <3> QED
      BY <1>2, <3>1
  <2>2. CASE j = k + 1
    BY <1>2, <2>2
  <2> QED
    BY <1>3, <2>1, <2>2
<1>8. ASSUME NEW i \in DOMAIN out
      PROVE  out[i].id \in IdsOf(ns) \/ \E j \in 1..(k + 1) : out[i].id = new[j].id
  <2>1. CASE i \in DOMAIN list
    <3>1. out[i].id = list[i].id
      BY <1>2, <2>1
    <3>2. list[i].id \in IdsOf(ns) \/ \E j \in 1..k : list[i].id = new[j].id
      BY <2>1 DEF Filled
    <3> QED
      BY <1>4, <3>1, <3>2
  <2>2. CASE i \notin DOMAIN list
    BY <1>2, <1>5, <2>2
  <2> QED
    BY <2>1, <2>2
<1>9. ASSUME NEW i \in DOMAIN out, NEW m \in out[i].of
      PROVE  Covers(ns, m) \/ \E j \in 1..(k + 1) : m \in new[j].of
  <2>1. m \in n.of \/ (i \in DOMAIN list /\ m \in list[i].of)
    BY <1>2
  <2>2. CASE m \in n.of
    BY <1>5, <2>2
  <2>3. CASE i \in DOMAIN list /\ m \in list[i].of
    <3>1. Covers(ns, m) \/ \E j \in 1..k : m \in new[j].of
      BY <2>3 DEF Filled
    <3> QED
      BY <1>4, <3>1
  <2> QED
    BY <2>1, <2>2, <2>3
<1>10. (how # "content" /\ Unique(ns)) => Unique(out)
  BY <1>2 DEF Filled
<1>11. Filled(d, s, how, ns, new, k + 1, out)
  BY <1>2, <1>6, <1>7, <1>8, <1>9, <1>10 DEF Filled
<1> QED
  BY <1>11 DEF out

\* and settled, if its id is new.
LEMMA SettledStep ==
    ASSUME NEW d \in Documents, NEW s \in BOOLEAN, NEW how \in Ways, NEW ns, NEW new,
           NEW k \in Nat, NEW list, Filled(d, s, how, ns, new, k, list), Settled(new, k, list),
           IsNode(d, s, new[k + 1]), new[k + 1].id \notin IdsOf(ns),
           \A j \in 1..k : new[j].id # new[k + 1].id
    PROVE  Settled(new, k + 1, Insert(how, list, new[k + 1]))
<1> DEFINE n == new[k + 1]
           out == Insert(how, list, n)
<1>1. AreNodes(d, s, list)
  BY DEF Filled
<1>2. /\ \A i \in DOMAIN list :
           i \in DOMAIN out /\ out[i].id = list[i].id /\ list[i].of \subseteq out[i].of
      /\ \A i \in DOMAIN out : i \in DOMAIN list \/ out[i] = n
  BY <1>1, InsertKeeps
<1> HIDE DEF out
<1>3. \A i \in DOMAIN list : list[i].id # n.id
  BY DEF Filled
<1>4. ASSUME NEW j \in 1..(k + 1), NEW i \in DOMAIN out, out[i].id = new[j].id
      PROVE  \E h \in DOMAIN out : out[h].id = new[j].id /\ new[j].of \subseteq out[h].of
  <2>1. CASE j = k + 1
    <3>1. i \notin DOMAIN list
      BY <1>2, <1>3, <1>4, <2>1
    <3> QED
      BY <1>2, <2>1, <3>1
  <2>2. CASE j \in 1..k
    <3>1. i \in DOMAIN list /\ list[i].id = new[j].id
      BY <1>2, <1>4, <2>2
    <3>2. PICK h \in DOMAIN list : list[h].id = new[j].id /\ new[j].of \subseteq list[h].of
      BY <2>2, <3>1 DEF Settled, IdsOf
    <3> QED
      BY <1>2, <3>2
  <2> QED
    BY <2>1, <2>2
<1>5. Settled(new, k + 1, out)
  BY <1>4 DEF Settled, IdsOf
<1> QED
  BY <1>5 DEF out

\* So the list with all of them in it is filled,
LEMMA InsertedFills ==
    ASSUME NEW d \in Documents, NEW s \in BOOLEAN, NEW how \in Ways, NEW ns, NEW new,
           AreNodes(d, s, ns), AreNodes(d, s, new)
    PROVE  Filled(d, s, how, ns, new, Len(new), Inserted(how, ns, new))
<1> DEFINE N == Len(new)
           L == Inserting(how, ns, new)
           S == {k \in 0..N : Filled(d, s, how, ns, new, k, L[k])}
<1>1. N \in Nat /\ \A k \in 1..N : IsNode(d, s, new[k])
  BY DEF AreNodes
<1>2. L[0] = ns /\ \A k \in 1..N : L[k] = Insert(how, L[k - 1], new[k])
  BY <1>1, InsertingSteps
<1> HIDE DEF L
<1>3. 0 \in S
  <2>1. Filled(d, s, how, ns, new, 0, ns)
    BY DEF Filled, IdsOf, Covers
  <2> QED
    BY <1>1, <1>2, <2>1
<1>4. ASSUME NEW k \in Nat, k < N, k \in S
      PROVE  k + 1 \in S
  <2>1. k + 1 \in 1..N /\ k + 1 \in 0..N /\ (k + 1) - 1 = k
    BY <1>1, <1>4
  <2>2. L[k + 1] = Insert(how, L[k], new[k + 1]) /\ IsNode(d, s, new[k + 1])
    BY <1>1, <1>2, <2>1
  <2>3. Filled(d, s, how, ns, new, k, L[k])
    BY <1>4
  <2>4. Filled(d, s, how, ns, new, k + 1, Insert(how, L[k], new[k + 1]))
    BY <2>2, <2>3, FilledStep
  <2> QED
    BY <2>1, <2>2, <2>4
<1>5. 0..N \subseteq S
  <2>1. \A k \in Nat : (k < N /\ k \in S) => k + 1 \in S
    BY <1>4
  <2> HIDE DEF S
  <2> QED
    BY <1>1, <1>3, <2>1, Reaches
<1>6. Filled(d, s, how, ns, new, N, L[N])
  <2>1. N \in 0..N
    BY <1>1
  <2> QED
    BY <1>5, <2>1
<1> QED
  BY <1>6 DEF L, Inserted

\* has the properties,
LEMMA InsertedProps ==
    ASSUME NEW d \in Documents, NEW s \in BOOLEAN, NEW how \in Ways, NEW ns, NEW new,
           AreNodes(d, s, ns), AreNodes(d, s, new), HaveProps(d, ns), HaveProps(d, new),
           how = "content" => \A i \in DOMAIN new : \E m \in MentionsOf(d) :
                                    new[i].of = {m} /\ new[i].text = d.text[m]
    PROVE  HaveProps(d, Inserted(how, ns, new))
<1> DEFINE N == Len(new)
           L == Inserting(how, ns, new)
           S == {k \in 0..N : AreNodes(d, s, L[k]) /\ HaveProps(d, L[k])}
<1>1. N \in Nat /\ DOMAIN new = 1..N /\ \A k \in 1..N : IsNode(d, s, new[k])
  BY DEF AreNodes
<1>2. L[0] = ns /\ \A k \in 1..N : L[k] = Insert(how, L[k - 1], new[k])
  BY <1>1, InsertingSteps
<1> HIDE DEF L
<1>3. 0 \in S
  BY <1>1, <1>2
<1>4. ASSUME NEW k \in Nat, k < N, k \in S
      PROVE  k + 1 \in S
  <2>1. k + 1 \in 1..N /\ k + 1 \in 0..N /\ (k + 1) - 1 = k
    BY <1>1, <1>4
  <2>2. /\ L[k + 1] = Insert(how, L[k], new[k + 1]) /\ IsNode(d, s, new[k + 1])
        /\ new[k + 1].of \cap d.props # {} => new[k + 1].props
        /\ how = "content" => \E m \in MentionsOf(d) :
                                new[k + 1].of = {m} /\ new[k + 1].text = d.text[m]
    BY <1>1, <1>2, <2>1 DEF HaveProps
  <2>3. AreNodes(d, s, L[k]) /\ HaveProps(d, L[k])
    BY <1>4
  <2>4. AreNodes(d, s, Insert(how, L[k], new[k + 1]))
    BY <2>2, <2>3, InsertKeeps
  <2>5. HaveProps(d, Insert(how, L[k], new[k + 1]))
    BY <2>2, <2>3, InsertProps
  <2> QED
    BY <2>1, <2>2, <2>4, <2>5
<1>5. 0..N \subseteq S
  <2>1. \A k \in Nat : (k < N /\ k \in S) => k + 1 \in S
    BY <1>4
  <2> HIDE DEF S
  <2> QED
    BY <1>1, <1>3, <2>1, Reaches
<1>6. HaveProps(d, L[N])
  <2>1. N \in 0..N
    BY <1>1
  <2> QED
    BY <1>5, <2>1
<1> QED
  BY <1>6 DEF L, Inserted

\* and is settled, if all ids are new.
LEMMA InsertedSettles ==
    ASSUME NEW d \in Documents, NEW s \in BOOLEAN, NEW how \in Ways, NEW ns, NEW new,
           AreNodes(d, s, ns), AreNodes(d, s, new), Unique(new), IdsOf(ns) \cap IdsOf(new) = {}
    PROVE  Settled(new, Len(new), Inserted(how, ns, new))
<1> DEFINE N == Len(new)
           L == Inserting(how, ns, new)
           S == {k \in 0..N : Filled(d, s, how, ns, new, k, L[k]) /\ Settled(new, k, L[k])}
<1>1. N \in Nat /\ DOMAIN new = 1..N /\ \A k \in 1..N : IsNode(d, s, new[k])
  BY DEF AreNodes
<1>2. L[0] = ns /\ \A k \in 1..N : L[k] = Insert(how, L[k - 1], new[k])
  BY <1>1, InsertingSteps
<1> HIDE DEF L
<1>3. 0 \in S
  <2>1. Filled(d, s, how, ns, new, 0, ns)
    BY DEF Filled, IdsOf, Covers
  <2>2. Settled(new, 0, ns)
    BY DEF Settled
  <2> QED
    BY <1>1, <1>2, <2>1, <2>2
<1>4. ASSUME NEW k \in Nat, k < N, k \in S
      PROVE  k + 1 \in S
  <2>1. k + 1 \in 1..N /\ k + 1 \in 0..N /\ (k + 1) - 1 = k
    BY <1>1, <1>4
  <2>2. L[k + 1] = Insert(how, L[k], new[k + 1]) /\ IsNode(d, s, new[k + 1])
    BY <1>1, <1>2, <2>1
  <2>3. Filled(d, s, how, ns, new, k, L[k]) /\ Settled(new, k, L[k])
    BY <1>4
  <2>4. new[k + 1].id \notin IdsOf(ns)
    BY <1>1, <2>1 DEF IdsOf
  <2>5. \A j \in 1..k : new[j].id # new[k + 1].id
    <3>1. \A j \in 1..k : j \in 1..N /\ j # k + 1
      BY <1>1, <1>4
    <3> QED
      BY <1>1, <2>1, <3>1 DEF Unique
  <2>6. Filled(d, s, how, ns, new, k + 1, Insert(how, L[k], new[k + 1]))
    BY <2>2, <2>3, FilledStep
  <2>7. Settled(new, k + 1, Insert(how, L[k], new[k + 1]))
    BY <2>2, <2>3, <2>4, <2>5, SettledStep
  <2> QED
    BY <2>1, <2>2, <2>6, <2>7
<1>5. 0..N \subseteq S
  <2>1. \A k \in Nat : (k < N /\ k \in S) => k + 1 \in S
    BY <1>4
  <2> HIDE DEF S
  <2> QED
    BY <1>1, <1>3, <2>1, Reaches
<1>6. Settled(new, N, L[N])
  <2>1. N \in 0..N
    BY <1>1
  <2> QED
    BY <1>5, <2>1
<1> QED
  BY <1>6 DEF L, Inserted

\* The nodes of some mentions: one for each, and each its own.
LEMMA NodesForMentions ==
    ASSUME doc \in Documents, stable \in BOOLEAN, NEW M \in SUBSET MentionsOf(doc)
    PROVE  LET ns == NodesFor(M) IN
           /\ AreNodes(doc, stable, ns)
           /\ \A i \in DOMAIN ns : \E m \in M : ns[i] = NodeFor(m)
           /\ \A m \in M : \E i \in DOMAIN ns : ns[i] = NodeFor(m)
           /\ ~stable => Unique(ns)
           /\ HaveProps(doc, ns) /\ ~Blends(doc, ns)
<1> DEFINE f == [m \in M |-> NodeFor(m)]
           ns == NodesFor(M)
<1>1. M \in SUBSET Nat /\ IsFiniteSet(M)
  BY DocumentFacts, FS_Subset
<1>2. DOMAIN f = M /\ \A m \in M : f[m] = NodeFor(m) /\ IsNode(doc, stable, f[m])
  BY NodeForNode
<1>3. ns = List(f)
  BY DEF NodesFor
<1> HIDE DEF f, ns
<1>4. /\ AreNodes(doc, stable, ns)
      /\ \A i \in DOMAIN ns : \E m \in M : ns[i] = f[m]
      /\ \A m \in M : \E i \in DOMAIN ns : ns[i] = f[m]
      /\ (\A m, k \in M : f[m].id = f[k].id => m = k) => Unique(ns)
  <2>1. Lists(doc, stable, M, f, List(f))
    BY <1>1, <1>2, ListNodes
  <2> QED
    BY <1>3, <2>1 DEF Lists
<1>5. ~stable => \A m, k \in M : f[m].id = f[k].id => m = k
  <2>1. ~stable => \A m \in M : f[m].id = m
    BY <1>2, NodeForNode
  <2> QED
    BY <2>1
<1>6. \A i \in DOMAIN ns : \E m \in M : ns[i] = NodeFor(m)
  BY <1>2, <1>4
<1>7. \A m \in M : \E i \in DOMAIN ns : ns[i] = NodeFor(m)
  BY <1>2, <1>4
<1>8. HaveProps(doc, ns)
  <2> SUFFICES ASSUME NEW i \in DOMAIN ns, ns[i].of \cap doc.props # {}
               PROVE  ns[i].props
    BY DEF HaveProps
  <2>1. PICK m \in M : ns[i] = NodeFor(m)
    BY <1>6
  <2>2. NodeFor(m).of = {m} /\ (NodeFor(m).props <=> m \in doc.props)
    BY NodeForNode
  <2> QED
    BY <2>1, <2>2
<1>9. ~Blends(doc, ns)
  <2> SUFFICES ASSUME NEW i \in DOMAIN ns PROVE ~Blended(doc, ns[i])
    BY DEF Blends
  <2>1. PICK m \in M : ns[i] = NodeFor(m)
    BY <1>6
  <2> QED
    BY <2>1, NodeForNode
<1>10. AreNodes(doc, stable, ns) /\ (~stable => Unique(ns))
  BY <1>4, <1>5
<1> QED
  BY <1>6, <1>7, <1>8, <1>9, <1>10 DEF ns

\* Mixes is about the document at hand.
LEMMA MixesBlends == \A ns : Mixes(ns) <=> Blends(doc, ns)
BY DEF Mixes, Blends, Blended

\* The input does not change, so neither does the node of a mention.
LEMMA NodeForStays == UNCHANGED input => \A m : NodeFor(m)' = NodeFor(m)
BY DEF NodeFor, IdOf, Mentions, input

\* How Added compares.
Way == IF mode = "single" THEN "content" ELSE "entity"

\* What Added makes of a list, of nodes for mentions.
LEMMA AddedNodes ==
    ASSUME doc \in Documents, stable \in BOOLEAN, mode \in {"single", "multi"},
           NEW ns, NEW new, AreNodes(doc, stable, ns), AreNodes(doc, stable, new),
           HaveProps(doc, ns), HaveProps(doc, new),
           \A i \in DOMAIN new : \E m \in MentionsOf(doc) : new[i] = NodeFor(m)
    PROVE  /\ Filled(doc, stable, Way, ns, new, Len(new), Added(ns, new))
           /\ HaveProps(doc, Added(ns, new))
<1>1. Added(ns, new) = Inserted(Way, ns, new) /\ Way \in Ways
  BY DEF Added, Way, Ways
<1>2. \A i \in DOMAIN new : \E m \in MentionsOf(doc) : new[i].of = {m} /\ new[i].text = doc.text[m]
  BY NodeForNode
<1> QED
  BY <1>1, <1>2, InsertedFills, InsertedProps

\* Nothing is extracted yet.
LEMMA InitBuild == BuildInit => BuildInv
<1> SUFFICES ASSUME BuildInit PROVE BuildInv
  OBVIOUS
<1> USE DEF BuildInit
<1>1. doc \in Documents /\ mode \in {"single", "multi"} /\ stable \in BOOLEAN
  BY ModeAssumption
<1>2. AreNodes(doc, stable, <<>>) /\ Unique(<<>>) /\ HaveProps(doc, <<>>) /\ ~Blends(doc, <<>>)
  BY DEF AreNodes, Unique, HaveProps, Blends
<1>3. doc.chunks \in Nat \ {0} /\ \A m \in MentionsOf(doc) : doc.chunk[m] \in 1..doc.chunks
  BY <1>1, DocumentFacts
<1>4. TypesHold
  <2>1. chunk \in 1..doc.chunks
    BY <1>3
  <2>2. grouped \subseteq IdsOf(nodes) /\ edges \subseteq Edges(doc)
    BY DEF IdsOf
  <2> QED
    BY <1>1, <1>2, <2>1, <2>2 DEF TypesHold
<1>5. PhasesHold
  BY <1>2 DEF PhasesHold
<1>6. CoverHolds
  BY <1>3 DEF CoverHolds
<1>7. UniqueHolds
  BY <1>2 DEF UniqueHolds
<1>8. FreshHolds
  BY DEF FreshHolds
<1>9. NamesHold
  BY <1>2 DEF NamesHold
<1>10. EndsHold
  BY DEF EndsHold
<1> QED
  BY <1>4, <1>5, <1>6, <1>7, <1>8, <1>9, <1>10 DEF BuildInv

\* A chunk's mentions are put into the list.
LEMMA ExtractBuild == ASSUME BuildInv, ExtractNodes PROVE BuildInv'
<1> DEFINE M == MentionsIn(chunk) \ doc.late
           new == NodesFor(M)
<1>1. /\ doc \in Documents /\ mode \in {"single", "multi"} /\ stable \in BOOLEAN
      /\ chunk \in 1..doc.chunks /\ AreNodes(doc, stable, nodes)
  BY DEF BuildInv, TypesHold
<1>2. /\ step = "extract" /\ resolved = <<>> /\ grouped = {} /\ edges = {}
      /\ ~chained /\ HaveProps(doc, nodes) /\ HaveProps(doc, resolved)
  BY DEF BuildInv, PhasesHold, ExtractNodes
<1>3. /\ UNCHANGED <<input, resolved, grouped, edges, revisit, disputed, overlap, chained, emptied>>
      /\ doc' = doc /\ mode' = mode /\ stable' = stable
      /\ nodes' = Added(nodes, new) /\ mixed' = (mixed \/ Mixes(nodes'))
  BY DEF ExtractNodes, input
<1>4. doc.chunks \in Nat \ {0} /\ \A m \in MentionsOf(doc) : doc.chunk[m] \in 1..doc.chunks
  BY <1>1, DocumentFacts
<1>5. \/ chunk < doc.chunks /\ chunk' = chunk + 1 /\ step' = "extract"
      \/ chunk >= doc.chunks /\ chunk' = 1 /\ step' = IF mode = "single" THEN "compare" ELSE "relate"
  BY <1>1, <1>2, <1>4 DEF ExtractNodes, LastChunk
<1>6. /\ M \in SUBSET MentionsOf(doc)
      /\ \A m \in MentionsOf(doc) : m \in M <=> (doc.chunk[m] = chunk /\ m \notin doc.late)
  BY DEF MentionsIn, Mentions, MentionsOf
<1> HIDE DEF M
<1>7. /\ AreNodes(doc, stable, new) /\ HaveProps(doc, new)
      /\ \A i \in DOMAIN new : \E m \in M : new[i] = NodeFor(m)
      /\ \A m \in M : \E i \in DOMAIN new : new[i] = NodeFor(m)
  BY <1>1, <1>6, NodesForMentions
<1> HIDE DEF new
<1>8. /\ Filled(doc, stable, Way, nodes, new, Len(new), nodes')
      /\ HaveProps(doc, nodes')
  BY <1>1, <1>2, <1>3, <1>6, <1>7, AddedNodes
<1>9. AreNodes(doc, stable, nodes') /\ DOMAIN new = 1..Len(new)
  BY <1>7, <1>8 DEF Filled, AreNodes
<1>10. \A m \in M : Covers(nodes', m)
  <2> TAKE m \in M
  <2>1. PICK j \in DOMAIN new : new[j] = NodeFor(m)
    BY <1>7
  <2>2. m \in new[j].of
    BY <1>1, <1>6, <2>1, NodeForNode
  <2>3. PICK i \in DOMAIN nodes' : new[j].of \subseteq nodes'[i].of
    BY <1>8, <1>9 DEF Filled
  <2> QED
    BY <2>2, <2>3 DEF Covers
<1>11. \A m : Covers(nodes, m) => Covers(nodes', m)
  BY <1>8 DEF Filled, Covers
<1>12. TypesHold'
  BY <1>1, <1>2, <1>3, <1>5, <1>4, <1>9 DEF BuildInv, TypesHold
<1>13. PhasesHold'
  BY <1>1, <1>2, <1>3, <1>5, <1>8 DEF PhasesHold
<1>14. CoverHolds'
  <2>1. \A m \in MentionsOf(doc) \ doc.late :
            (doc.chunk[m] < chunk \/ doc.chunk[m] = chunk) => Covers(nodes', m)
    BY <1>2, <1>6, <1>10, <1>11 DEF BuildInv, CoverHolds
  <2>2. \A m \in MentionsOf(doc) \ doc.late :
            (step' = "extract" => doc.chunk[m] < chunk') => Covers(nodes', m)
    BY <1>1, <1>5, <1>4, <2>1
  <2> QED
    BY <1>3, <1>5, <2>2 DEF CoverHolds
<1>15. UniqueHolds'
  <2>1. mode = "multi" => Unique(nodes')
    BY <1>2, <1>8 DEF BuildInv, UniqueHolds, Filled, Way
  <2> QED
    BY <1>1, <1>3, <1>5, <2>1 DEF UniqueHolds
<1>16. FreshHolds'
  <2>1. ASSUME mode = "multi", NEW i \in DOMAIN nodes', NEW m \in nodes'[i].of
        PROVE  m \notin doc.late
    <3>1. Covers(nodes, m) \/ \E j \in DOMAIN new : m \in new[j].of
      BY <1>8, <1>9 DEF Filled
    <3>2. CASE Covers(nodes, m)
      BY <1>2, <2>1, <3>2 DEF BuildInv, FreshHolds, Covers
    <3>3. CASE \E j \in DOMAIN new : m \in new[j].of
      <4>1. PICK k \in M : m \in NodeFor(k).of
        BY <1>7, <3>3
      <4>2. m = k
        BY <1>1, <1>6, <4>1, NodeForNode
      <4> QED
        BY <1>6, <4>2
    <3> QED
      BY <3>1, <3>2, <3>3
  <2> QED
    BY <1>3, <1>5, <2>1 DEF FreshHolds
<1>17. NamesHold'
  <2>1. Blends(doc, nodes') => mixed'
    BY <1>3, MixesBlends
  <2> QED
    BY <1>2, <1>3, <2>1 DEF NamesHold
<1>18. EndsHold'
  BY <1>2, <1>3 DEF EndsHold
<1> QED
  BY <1>12, <1>13, <1>14, <1>15, <1>16, <1>17, <1>18 DEF BuildInv

\* Two lists, one after the other.
LEMMA Concatenated ==
    ASSUME NEW d, NEW s, NEW a, NEW b, AreNodes(d, s, a), AreNodes(d, s, b)
    PROVE  LET c == a \o b IN
           /\ AreNodes(d, s, c)
           /\ \A i \in DOMAIN a : i \in DOMAIN c /\ c[i] = a[i]
           /\ \A j \in DOMAIN b : \E i \in DOMAIN c : c[i] = b[j]
           /\ \A i \in DOMAIN c :
                (i \in DOMAIN a /\ c[i] = a[i]) \/ (\E j \in DOMAIN b : c[i] = b[j])
           /\ (Unique(a) /\ Unique(b) /\ IdsOf(a) \cap IdsOf(b) = {}) => Unique(c)
<1> DEFINE c == a \o b
           A == Len(a)
           B == Len(b)
<1>1. /\ a \in Seq(NodeSet(d)) /\ b \in Seq(NodeSet(d)) /\ A \in Nat /\ B \in Nat
      /\ DOMAIN a = 1..A /\ DOMAIN b = 1..B
  BY DEF AreNodes
<1>2. /\ c \in Seq(NodeSet(d)) /\ DOMAIN c = 1..(A + B)
      /\ \A i \in 1..A : c[i] = a[i]
      /\ \A i \in 1..(A + B) : i > A => c[i] = b[i - A]
  BY <1>1
<1> HIDE DEF c, A, B
<1>3. \A i \in DOMAIN a : i \in DOMAIN c /\ c[i] = a[i]
  BY <1>1, <1>2
<1>4. ASSUME NEW j \in DOMAIN b
      PROVE  A + j \in DOMAIN c /\ c[A + j] = b[j]
  <2>1. A + j \in 1..(A + B) /\ A + j > A /\ (A + j) - A = j
    BY <1>1
  <2> QED
    BY <1>2, <2>1
<1>5. ASSUME NEW i \in DOMAIN c, i \notin DOMAIN a
      PROVE  i - A \in DOMAIN b /\ c[i] = b[i - A]
  <2>1. i \in 1..(A + B) /\ i > A /\ i - A \in 1..B
    BY <1>1, <1>2, <1>5
  <2> QED
    BY <1>1, <1>2, <2>1
<1>6. AreNodes(d, s, c)
  <2>1. \A i \in DOMAIN c : IsNode(d, s, c[i])
    BY <1>3, <1>5 DEF AreNodes
  <2> QED
    BY <1>2, <2>1 DEF AreNodes
<1>7. ASSUME Unique(a), Unique(b), IdsOf(a) \cap IdsOf(b) = {}
      PROVE  Unique(c)
  <2>1. \A i \in DOMAIN a, j \in DOMAIN b : a[i].id # b[j].id
    BY <1>7 DEF IdsOf
  <2> SUFFICES ASSUME NEW i \in DOMAIN c, NEW j \in DOMAIN c, c[i].id = c[j].id
               PROVE  i = j
    BY DEF Unique
  <2>2. CASE i \in DOMAIN a /\ j \in DOMAIN a
    BY <1>3, <1>7, <2>2 DEF Unique
  <2>3. CASE i \in DOMAIN a /\ j \notin DOMAIN a
    BY <1>3, <1>5, <2>1, <2>3
  <2>4. CASE i \notin DOMAIN a /\ j \in DOMAIN a
    BY <1>3, <1>5, <2>1, <2>4
  <2>5. CASE i \notin DOMAIN a /\ j \notin DOMAIN a
    <3>1. i - A \in DOMAIN b /\ j - A \in DOMAIN b /\ b[i - A].id = b[j - A].id
      BY <1>5, <2>5
    <3>2. i - A = j - A
      BY <1>7, <3>1 DEF Unique
    <3>3. i \in Int /\ j \in Int /\ A \in Int
      BY <1>1, <1>2
    <3> QED
      BY <3>2, <3>3
  <2> QED
    BY <2>2, <2>3, <2>4, <2>5
<1>8. \A j \in DOMAIN b : \E i \in DOMAIN c : c[i] = b[j]
  BY <1>4
<1>9. \A i \in DOMAIN c :
        (i \in DOMAIN a /\ c[i] = a[i]) \/ (\E j \in DOMAIN b : c[i] = b[j])
  BY <1>3, <1>5
<1> QED
  BY <1>3, <1>6, <1>7, <1>8, <1>9 DEF c

-----------------------------------------------------------------------------
(* Resolution *)

\* The dictionary by id merges nodes of one id.
LEMMA CompareBuild == ASSUME BuildInv, CompareById PROVE BuildInv'
<1>1. /\ doc \in Documents /\ mode \in {"single", "multi"} /\ stable \in BOOLEAN
      /\ AreNodes(doc, stable, nodes) /\ AreNodes(doc, stable, <<>>)
  BY DEF BuildInv, TypesHold, AreNodes
<1>2. /\ step = "compare" /\ resolved = <<>> /\ grouped = {} /\ ~chained
      /\ HaveProps(doc, nodes) /\ HaveProps(doc, resolved)
      /\ mode = "single" => edges = {}
  BY DEF BuildInv, PhasesHold, CompareById
<1>3. /\ UNCHANGED <<input, chunk, edges, revisit, disputed, overlap, chained, emptied>>
      /\ doc' = doc /\ mode' = mode /\ stable' = stable
      /\ resolved' = <<>> /\ grouped' = {} /\ mixed' = (mixed \/ Mixes(nodes'))
  BY DEF CompareById, input
<1>4. /\ AreNodes(doc, stable, nodes') /\ HaveProps(doc, nodes') /\ Unique(nodes')
      /\ \A m : Covers(nodes, m) => Covers(nodes', m)
      /\ \A id, m : Carries(nodes, id, m) => Carries(nodes', id, m)
      /\ IdsOf(nodes') \subseteq IdsOf(nodes)
      /\ step' \in {"resolve", "resolved"}
  <2>1. CASE Len(nodes) <= 1
    <3>1. nodes' = nodes /\ step' = "resolved"
      BY <2>1 DEF CompareById
    <3>2. Len(nodes) \in Nat /\ DOMAIN nodes = 1..Len(nodes)
      BY <1>1 DEF AreNodes
    <3>3. Unique(nodes)
      BY <2>1, <3>2 DEF Unique
    <3> QED
      BY <1>1, <1>2, <3>1, <3>3
  <2>2. CASE ~(Len(nodes) <= 1)
    <3>1. nodes' = Inserted("id", <<>>, nodes) /\ step' = "resolve"
      BY <2>2 DEF CompareById
    <3>2. Unique(<<>>) /\ HaveProps(doc, <<>>) /\ IdsOf(<<>>) = {} /\ "id" \in Ways
      BY DEF Unique, HaveProps, IdsOf, Ways
    <3>3. Filled(doc, stable, "id", <<>>, nodes, Len(nodes), nodes')
      BY <1>1, <3>1, <3>2, InsertedFills
    <3>4. HaveProps(doc, nodes')
      BY <1>1, <1>2, <3>1, <3>2, InsertedProps
    <3>5. AreNodes(doc, stable, nodes') /\ Unique(nodes')
      BY <3>2, <3>3 DEF Filled
    <3>6. DOMAIN nodes = 1..Len(nodes)
      BY <1>1 DEF AreNodes
    <3>7. \A j \in DOMAIN nodes : \E i \in DOMAIN nodes' :
            nodes'[i].id = nodes[j].id /\ nodes[j].of \subseteq nodes'[i].of
      BY <3>3, <3>6 DEF Filled
    <3>8. IdsOf(nodes') \subseteq IdsOf(nodes)
      BY <3>2, <3>3, <3>6 DEF Filled, IdsOf
    <3>9. \A id, m : Carries(nodes, id, m) => Carries(nodes', id, m)
      BY <3>7 DEF Carries
    <3>10. \A m : Covers(nodes, m) => Covers(nodes', m)
      BY <3>7 DEF Covers
    <3> QED
      BY <3>1, <3>4, <3>5, <3>8, <3>9, <3>10
  <2> QED
    BY <2>1, <2>2
<1>5. TypesHold'
  BY <1>1, <1>3, <1>4 DEF BuildInv, TypesHold
<1>6. PhasesHold'
  <2>1. HaveProps(doc, <<>>)
    BY DEF HaveProps
  <2> QED
    BY <1>2, <1>3, <1>4, <2>1 DEF PhasesHold
<1>7. CoverHolds'
  <2>1. \A m \in MentionsOf(doc) \ doc.late : Covers(nodes', m)
    BY <1>2, <1>4 DEF BuildInv, CoverHolds
  <2> QED
    BY <1>3, <1>4, <2>1 DEF CoverHolds
<1>8. UniqueHolds'
  <2>1. Unique(<<>>)
    BY DEF Unique
  <2> QED
    BY <1>3, <1>4, <2>1 DEF UniqueHolds
<1>9. FreshHolds'
  BY <1>4 DEF FreshHolds
<1>10. NamesHold'
  <2>1. Blends(doc, nodes') => mixed'
    BY <1>3, MixesBlends
  <2>2. ASSUME ~mixed', NEW e \in edges, ~e.auto
        PROVE  /\ e.src \in IdsOf(nodes') => Meant(doc, nodes', e.src, e.from)
               /\ e.dst \in IdsOf(nodes') => Meant(doc, nodes', e.dst, e.to)
    <3>1. ~mixed
      BY <1>3, <2>2
    <3>2. /\ e.src \in IdsOf(nodes) => Meant(doc, nodes, e.src, e.from)
          /\ e.dst \in IdsOf(nodes) => Meant(doc, nodes, e.dst, e.to)
      BY <1>2, <2>2, <3>1 DEF BuildInv, NamesHold
    <3> QED
      BY <1>4, <3>2 DEF Meant
  <2> QED
    BY <1>3, <1>4, <2>1, <2>2 DEF NamesHold
<1>11. EndsHold'
  BY <1>2, <1>3 DEF EndsHold
<1> QED
  BY <1>5, <1>6, <1>7, <1>8, <1>9, <1>10, <1>11 DEF BuildInv

\* The node of an id.
LEMMA NodeWithId ==
    ASSUME AreNodes(doc, stable, nodes), NEW id \in IdsOf(nodes)
    PROVE  /\ NodeWith(id).id = id /\ IsNode(doc, stable, NodeWith(id))
           /\ \E i \in DOMAIN nodes : NodeWith(id) = nodes[i]
           /\ Unique(nodes) => \A i \in DOMAIN nodes : nodes[i].id = id => nodes[i] = NodeWith(id)
<1> DEFINE T == {i \in DOMAIN nodes : nodes[i].id = id}
<1>1. Len(nodes) \in Nat /\ DOMAIN nodes = 1..Len(nodes)
  BY DEF AreNodes
<1>2. T \in SUBSET (0..Len(nodes)) /\ T # {}
  BY <1>1 DEF IdsOf
<1>3. Max(T) \in T
  BY <1>1, <1>2, GreatestOf
<1>4. NodeWith(id) = nodes[Max(T)]
  BY DEF NodeWith
<1> DEFINE p == Max(T)
<1> HIDE DEF p
<1>5. p \in DOMAIN nodes /\ nodes[p].id = id /\ NodeWith(id) = nodes[p]
  BY <1>3, <1>4 DEF p
<1>6. IsNode(doc, stable, nodes[p])
  BY <1>5 DEF AreNodes
<1> QED
  BY <1>5, <1>6 DEF Unique

\* A group's nodes, merged into its base.
LEMMA JoinedNode ==
    ASSUME AreNodes(doc, stable, nodes), NEW g, g.ids \subseteq IdsOf(nodes), g.base \in g.ids,
           \A a, b \in g.ids : NodeWith(a).type = NodeWith(b).type
    PROVE  /\ IsNode(doc, stable, Joined(g)) /\ Joined(g).id = g.base
           /\ \A b \in g.ids : NodeWith(b).of \subseteq Joined(g).of
           /\ HaveProps(doc, nodes) =>
                (Joined(g).of \cap doc.props # {} => Joined(g).props)
<1> DEFINE a == NodeWith(g.base)
           n == Joined(g)
           AL == UNION {NodeWith(b).aliases : b \in g.ids}
           CH == UNION {NodeWith(b).chunks : b \in g.ids}
           OF == UNION {NodeWith(b).of : b \in g.ids}
           PR == \E b \in g.ids : NodeWith(b).props
<1>1. \A b \in g.ids : IsNode(doc, stable, NodeWith(b)) /\ NodeWith(b).type = a.type
  BY NodeWithId
<1>2. IsNode(doc, stable, a) /\ a.id = g.base
  BY NodeWithId
<1>3. a = [id |-> a.id, type |-> a.type, key |-> a.key, text |-> a.text,
           aliases |-> a.aliases, chunks |-> a.chunks, props |-> a.props, of |-> a.of]
  BY <1>2, NodeFields
<1>4. n = [a EXCEPT !.aliases = AL, !.chunks = CH, !.props = PR, !.of = OF]
  BY DEF Joined
<1>5. \A b \in g.ids : NodeWith(b) \in NodeSet(doc)
  BY <1>1 DEF IsNode
<1>6. /\ AL \subseteq {doc.alias[m] : m \in MentionsOf(doc)} /\ CH \subseteq 1..doc.chunks
      /\ OF \subseteq MentionsOf(doc)
  BY <1>5 DEF NodeSet
<1>7. a.aliases \subseteq AL /\ a.chunks \subseteq CH /\ a.of \subseteq OF
  OBVIOUS
<1>8. /\ AL \subseteq {doc.alias[m] : m \in OF} /\ CH \subseteq {doc.chunk[m] : m \in OF}
      /\ \A m \in OF : doc.type[m] = a.type
  <2>1. ASSUME NEW b \in g.ids
        PROVE  /\ NodeWith(b).aliases \subseteq {doc.alias[m] : m \in NodeWith(b).of}
               /\ NodeWith(b).chunks \subseteq {doc.chunk[m] : m \in NodeWith(b).of}
               /\ \A m \in NodeWith(b).of : doc.type[m] = a.type
    BY <1>1, NodeParts
  <2> QED
    BY <2>1
<1>9. \A b \in g.ids : NodeWith(b).of \subseteq OF
  OBVIOUS
<1>10. ASSUME HaveProps(doc, nodes), OF \cap doc.props # {}
       PROVE  PR
  <2>1. PICK b \in g.ids : NodeWith(b).of \cap doc.props # {}
    BY <1>10
  <2>2. \E i \in DOMAIN nodes : NodeWith(b) = nodes[i]
    BY NodeWithId
  <2>3. NodeWith(b).props
    BY <1>10, <2>1, <2>2 DEF HaveProps
  <2> QED
    BY <2>3
<1>11. PR \in BOOLEAN
  OBVIOUS
<1> HIDE DEF AL, CH, OF, PR, n, a
<1>12. /\ n.id = a.id /\ n.type = a.type /\ n.key = a.key /\ n.text = a.text
       /\ n.aliases = AL /\ n.chunks = CH /\ n.of = OF
  BY <1>3, <1>4
<1>13. n.props = PR
  BY <1>3, <1>4
<1>14. n \in NodeSet(doc)
  <2>1. a \in NodeSet(doc)
    BY <1>2 DEF IsNode
  <2> QED
    BY <1>4, <1>6, <1>11, <2>1 DEF NodeSet
<1>15. IsNode(doc, stable, n)
  BY <1>2, <1>7, <1>8, <1>12, <1>14, GrownNode
<1>16. HaveProps(doc, nodes) => (n.of \cap doc.props # {} => n.props)
  BY <1>10, <1>12, <1>13
<1>17. n.id = g.base /\ \A b \in g.ids : NodeWith(b).of \subseteq n.of
  BY <1>2, <1>9, <1>12
<1> QED
  BY <1>15, <1>16, <1>17 DEF n

\* The LLM's lists: none, one or two, of nodes of the group.
LEMMA VerdictParts ==
    ASSUME NEW G, NEW v \in Verdicts(G)
    PROVE  /\ Len(v) \in 0..2 /\ DOMAIN v = 1..Len(v)
           /\ \A i \in DOMAIN v : v[i].base \in v[i].ids /\ v[i].ids \subseteq G
<1> DEFINE groups == {[base |-> b, ids |-> S] : b \in G, S \in SUBSET G}
           real == {g \in groups : g.base \in g.ids}
<1>1. \A g \in real : g.base \in g.ids /\ g.ids \subseteq G
  OBVIOUS
<1>2. \/ v = <<>> \/ (\E g \in real : v = <<g>>) \/ (\E g, h \in real : v = <<g, h>>)
  BY DEF Verdicts
<1> HIDE DEF real
<1>3. CASE v = <<>>
  BY <1>3
<1>4. CASE \E g \in real : v = <<g>>
  BY <1>1, <1>4
<1>5. CASE \E g, h \in real : v = <<g, h>>
  <2>1. PICK g \in real, h \in real : v = <<g, h>>
    BY <1>5
  <2>2. Len(v) = 2 /\ DOMAIN v = {1, 2} /\ v[1] = g /\ v[2] = h /\ 1..2 = {1, 2}
    BY <2>1
  <2> QED
    BY <1>1, <2>2
<1> QED
  BY <1>2, <1>3, <1>4, <1>5

\* What the group adds to the list: its nodes, merged as the LLM says, and the rest.
LEMMA GroupNodes ==
    ASSUME doc \in Documents, AreNodes(doc, stable, nodes), Unique(nodes), HaveProps(doc, nodes),
           NEW G \in Candidates, NEW v \in Verdicts(G),
           NEW J, J = [i \in DOMAIN v |-> Joined(v[i])], NEW K, K = Missed(G, v)
    PROVE  /\ G \subseteq IdsOf(nodes) \ grouped
           /\ AreNodes(doc, stable, J) /\ AreNodes(doc, stable, K)
           /\ \A i \in DOMAIN J : J[i].id \in Covered(v)
           /\ \A i \in DOMAIN K : K[i].id \in G \ Covered(v)
           /\ Covered(v) \subseteq G
           /\ \A i \in DOMAIN J, j \in DOMAIN nodes :
                nodes[j].id = J[i].id => nodes[j].of \subseteq J[i].of
           /\ \A i \in DOMAIN K, j \in DOMAIN nodes :
                nodes[j].id = K[i].id => nodes[j].of \subseteq K[i].of
           /\ HaveProps(doc, J) /\ HaveProps(doc, K)
           /\ \A j \in DOMAIN nodes : nodes[j].id \in G =>
                \A m \in nodes[j].of : Covers(J, m) \/ Covers(K, m)
           /\ ~(Len(v) = 2 /\ v[1].ids \cap v[2].ids # {}) => Unique(J)
           /\ Unique(K)
<1>1. /\ G \subseteq IdsOf(nodes) \ grouped
      /\ \A a, b \in G : NodeWith(a).type = NodeWith(b).type
  BY DEF Candidates, Ids, IdsOf
<1>2. /\ Len(v) \in 0..2 /\ DOMAIN v = 1..Len(v)
      /\ \A i \in DOMAIN v : v[i].base \in v[i].ids /\ v[i].ids \subseteq G
  BY VerdictParts
<1>3. ASSUME NEW i \in DOMAIN v
      PROVE  /\ IsNode(doc, stable, Joined(v[i])) /\ Joined(v[i]).id = v[i].base
             /\ \A b \in v[i].ids : NodeWith(b).of \subseteq Joined(v[i]).of
             /\ Joined(v[i]).of \cap doc.props # {} => Joined(v[i]).props
  <2>1. /\ v[i].ids \subseteq IdsOf(nodes) /\ v[i].base \in v[i].ids
        /\ \A a, b \in v[i].ids : NodeWith(a).type = NodeWith(b).type
    BY <1>1, <1>2
  <2> QED
    BY <2>1, JoinedNode
<1>4. Covered(v) \subseteq G /\ \A i \in DOMAIN v : v[i].ids \subseteq Covered(v)
  BY <1>2 DEF Covered
<1>5. /\ DOMAIN J = 1..Len(v) /\ Len(v) \in Nat
      /\ \A i \in DOMAIN J : i \in DOMAIN v /\ J[i] = Joined(v[i])
  BY <1>2
<1>6. AreNodes(doc, stable, J)
  <2>1. \A i \in DOMAIN J : IsNode(doc, stable, J[i])
    BY <1>3, <1>5
  <2>2. \A i \in DOMAIN J : J[i] \in NodeSet(doc)
    BY <2>1 DEF IsNode
  <2>3. J \in [1..Len(v) -> NodeSet(doc)]
    BY <1>2, <1>5, <2>2
  <2>4. J \in Seq(NodeSet(doc))
    BY <1>5, <2>3
  <2> QED
    BY <2>1, <2>4 DEF AreNodes
<1>7. \A i \in DOMAIN J : J[i].id \in Covered(v)
  BY <1>2, <1>3, <1>4, <1>5
<1>8. \A j \in DOMAIN nodes : nodes[j] = NodeWith(nodes[j].id)
  <2> TAKE j \in DOMAIN nodes
  <2>1. nodes[j].id \in IdsOf(nodes)
    BY DEF IdsOf
  <2> QED
    BY <2>1, NodeWithId
<1>9. \A i \in DOMAIN J, j \in DOMAIN nodes :
        nodes[j].id = J[i].id => nodes[j].of \subseteq J[i].of
  BY <1>2, <1>3, <1>5, <1>8
<1>10. HaveProps(doc, J)
  BY <1>3, <1>5 DEF HaveProps
<1>11. ASSUME ~(Len(v) = 2 /\ v[1].ids \cap v[2].ids # {})
       PROVE  Unique(J)
  <2> SUFFICES ASSUME NEW i \in DOMAIN J, NEW j \in DOMAIN J, J[i].id = J[j].id, i # j
               PROVE  FALSE
    BY DEF Unique
  <2>1. v[i].base \in v[i].ids /\ v[j].base \in v[j].ids /\ v[i].base = v[j].base
    BY <1>2, <1>3, <1>5
  <2>2. Len(v) = 2 /\ ((i = 1 /\ j = 2) \/ (i = 2 /\ j = 1))
    BY <1>2, <1>5
  <2> QED
    BY <1>11, <2>1, <2>2
<1> DEFINE D == G \ Covered(v)
           f == [id \in D |-> NodeWith(id)]
<1>12. D \in SUBSET Nat /\ IsFiniteSet(D)
  <2>1. IdsOf(nodes) \subseteq MentionsOf(doc)
    BY NodeFields DEF IdsOf, AreNodes
  <2>2. D \in SUBSET MentionsOf(doc)
    BY <1>1, <2>1
  <2> HIDE DEF D
  <2> QED
    BY <2>2, DocumentFacts, FS_Subset
<1>13. DOMAIN f = D /\ \A id \in D : f[id] = NodeWith(id)
  OBVIOUS
<1>14. K = List(f)
  BY DEF Missed
<1>15. \A id \in D : IsNode(doc, stable, f[id]) /\ f[id].id = id
  BY <1>1, <1>13, NodeWithId
<1> HIDE DEF f
<1>16. /\ AreNodes(doc, stable, K)
       /\ \A i \in DOMAIN K : \E id \in D : K[i] = f[id]
       /\ \A id \in D : \E i \in DOMAIN K : K[i] = f[id]
       /\ (\A a, b \in D : f[a].id = f[b].id => a = b) => Unique(K)
  <2> HIDE DEF D
  <2>1. Lists(doc, stable, D, f, List(f))
    BY <1>12, <1>13, <1>15, ListNodes
  <2> QED
    BY <1>14, <2>1 DEF Lists
<1>17. Unique(K)
  BY <1>15, <1>16
<1>18. \A i \in DOMAIN K : K[i].id \in D /\ K[i] = NodeWith(K[i].id)
  BY <1>13, <1>15, <1>16
<1>19. \A i \in DOMAIN K, j \in DOMAIN nodes :
        nodes[j].id = K[i].id => nodes[j].of \subseteq K[i].of
  BY <1>8, <1>18
<1>20. HaveProps(doc, K)
  <2> SUFFICES ASSUME NEW i \in DOMAIN K, K[i].of \cap doc.props # {} PROVE K[i].props
    BY DEF HaveProps
  <2>1. \E j \in DOMAIN nodes : K[i] = nodes[j]
    BY <1>1, <1>18, NodeWithId
  <2> QED
    BY <2>1 DEF HaveProps
<1>21. ASSUME NEW j \in DOMAIN nodes, nodes[j].id \in G, NEW m \in nodes[j].of
       PROVE  Covers(J, m) \/ Covers(K, m)
  <2>1. CASE nodes[j].id \in Covered(v)
    <3>1. PICK i \in DOMAIN v : nodes[j].id \in v[i].ids
      BY <2>1 DEF Covered
    <3>2. nodes[j].of \subseteq Joined(v[i]).of
      BY <1>3, <1>8, <3>1
    <3>3. i \in DOMAIN J /\ J[i] = Joined(v[i])
      BY <1>2, <1>5
    <3> QED
      BY <1>21, <3>2, <3>3 DEF Covers
  <2>2. CASE nodes[j].id \notin Covered(v)
    <3>1. PICK i \in DOMAIN K : K[i] = f[nodes[j].id]
      BY <1>16, <1>21, <2>2
    <3>2. K[i] = nodes[j]
      BY <1>8, <1>13, <1>21, <2>2, <3>1
    <3> QED
      BY <1>21, <3>2 DEF Covers
  <2> QED
    BY <2>1, <2>2
<1>22. \A i \in DOMAIN K : K[i].id \in G \ Covered(v)
  BY <1>18
<1>23. \A j \in DOMAIN nodes : nodes[j].id \in G =>
         \A m \in nodes[j].of : Covers(J, m) \/ Covers(K, m)
  BY <1>21
<1> HIDE DEF D
<1> QED
  BY <1>1, <1>4, <1>6, <1>7, <1>9, <1>10, <1>11, <1>16, <1>17, <1>19, <1>20, <1>22, <1>23

\* A group's followers are put after those of the groups before.
LEMMA GroupBuild == ASSUME BuildInv, ResolveGroup PROVE BuildInv'
<1>1. /\ doc \in Documents /\ mode \in {"single", "multi"} /\ stable \in BOOLEAN
      /\ AreNodes(doc, stable, nodes) /\ AreNodes(doc, stable, resolved)
      /\ grouped \subseteq IdsOf(nodes) /\ overlap \in BOOLEAN
  BY DEF BuildInv, TypesHold
<1>2. /\ step = "resolve" /\ ~chained /\ HaveProps(doc, nodes) /\ HaveProps(doc, resolved)
  BY DEF BuildInv, PhasesHold, ResolveGroup
<1>3. PICK G \in Candidates : \E v \in Verdicts(G) :
        /\ resolved' = resolved \o [i \in DOMAIN v |-> Joined(v[i])] \o Missed(G, v)
        /\ grouped' = grouped \cup G
        /\ overlap' = (overlap \/ (Len(v) = 2 /\ v[1].ids \cap v[2].ids # {}))
  BY DEF ResolveGroup
<1>4. PICK v \in Verdicts(G) :
        /\ resolved' = resolved \o [i \in DOMAIN v |-> Joined(v[i])] \o Missed(G, v)
        /\ grouped' = grouped \cup G
        /\ overlap' = (overlap \/ (Len(v) = 2 /\ v[1].ids \cap v[2].ids # {}))
  BY <1>3
<1>5. /\ UNCHANGED <<input, step, chunk, nodes, edges, revisit, mixed, chained, emptied>>
      /\ doc' = doc /\ mode' = mode /\ stable' = stable
  BY DEF ResolveGroup, input
<1>6. /\ Unique(nodes) /\ (~overlap => Unique(resolved))
      /\ \A i \in DOMAIN resolved :
           /\ resolved[i].id \in grouped
           /\ \A j \in DOMAIN nodes :
                nodes[j].id = resolved[i].id => nodes[j].of \subseteq resolved[i].of
  BY <1>2 DEF BuildInv, UniqueHolds
<1> DEFINE J == [i \in DOMAIN v |-> Joined(v[i])]
           K == Missed(G, v)
           twice == Len(v) = 2 /\ v[1].ids \cap v[2].ids # {}
<1>7. /\ G \subseteq IdsOf(nodes) \ grouped
      /\ AreNodes(doc, stable, J) /\ AreNodes(doc, stable, K)
      /\ \A i \in DOMAIN J : J[i].id \in Covered(v)
      /\ \A i \in DOMAIN K : K[i].id \in G \ Covered(v)
      /\ Covered(v) \subseteq G
      /\ \A i \in DOMAIN J, j \in DOMAIN nodes :
           nodes[j].id = J[i].id => nodes[j].of \subseteq J[i].of
      /\ \A i \in DOMAIN K, j \in DOMAIN nodes :
           nodes[j].id = K[i].id => nodes[j].of \subseteq K[i].of
      /\ HaveProps(doc, J) /\ HaveProps(doc, K)
      /\ \A j \in DOMAIN nodes : nodes[j].id \in G =>
           \A m \in nodes[j].of : Covers(J, m) \/ Covers(K, m)
      /\ ~twice => Unique(J)
      /\ Unique(K)
  BY <1>1, <1>2, <1>6, GroupNodes
<1> DEFINE R == resolved \o J
<1>8. resolved' = R \o K
  BY <1>4
<1> HIDE DEF J, K, twice
<1>9. /\ AreNodes(doc, stable, R)
      /\ \A i \in DOMAIN resolved : i \in DOMAIN R /\ R[i] = resolved[i]
      /\ \A j \in DOMAIN J : \E i \in DOMAIN R : R[i] = J[j]
      /\ \A i \in DOMAIN R :
           (i \in DOMAIN resolved /\ R[i] = resolved[i]) \/ (\E j \in DOMAIN J : R[i] = J[j])
      /\ (Unique(resolved) /\ Unique(J) /\ IdsOf(resolved) \cap IdsOf(J) = {}) => Unique(R)
  BY <1>1, <1>7, Concatenated
<1> HIDE DEF R
<1>10. /\ AreNodes(doc, stable, resolved')
       /\ \A i \in DOMAIN R : i \in DOMAIN resolved' /\ resolved'[i] = R[i]
       /\ \A j \in DOMAIN K : \E i \in DOMAIN resolved' : resolved'[i] = K[j]
       /\ \A i \in DOMAIN resolved' :
            (i \in DOMAIN R /\ resolved'[i] = R[i]) \/ (\E j \in DOMAIN K : resolved'[i] = K[j])
       /\ (Unique(R) /\ Unique(K) /\ IdsOf(R) \cap IdsOf(K) = {}) => Unique(resolved')
  <2> DEFINE C == R \o K
  <2>1. /\ AreNodes(doc, stable, C)
        /\ \A i \in DOMAIN R : i \in DOMAIN C /\ C[i] = R[i]
        /\ \A j \in DOMAIN K : \E i \in DOMAIN C : C[i] = K[j]
        /\ \A i \in DOMAIN C :
             (i \in DOMAIN R /\ C[i] = R[i]) \/ (\E j \in DOMAIN K : C[i] = K[j])
        /\ (Unique(R) /\ Unique(K) /\ IdsOf(R) \cap IdsOf(K) = {}) => Unique(C)
    BY <1>7, <1>9, Concatenated
  <2>2. resolved' = C
    BY <1>8
  <2> HIDE DEF C
  <2> QED
    BY <2>1, <2>2
<1>11. \A i \in DOMAIN resolved' :
         \/ \E j \in DOMAIN resolved : resolved'[i] = resolved[j]
         \/ \E j \in DOMAIN J : resolved'[i] = J[j]
         \/ \E j \in DOMAIN K : resolved'[i] = K[j]
  BY <1>9, <1>10
<1>12. \A m : (Covers(resolved, m) \/ Covers(J, m) \/ Covers(K, m)) => Covers(resolved', m)
  <2>1. \A j \in DOMAIN J : \E i \in DOMAIN resolved' : resolved'[i] = J[j]
    BY <1>9, <1>10
  <2>2. \A j \in DOMAIN resolved : \E i \in DOMAIN resolved' : resolved'[i] = resolved[j]
    BY <1>9, <1>10
  <2> QED
    BY <1>10, <2>1, <2>2 DEF Covers
<1>13. TypesHold'
  <2>1. grouped' \subseteq IdsOf(nodes)
    BY <1>1, <1>4, <1>7
  <2>2. overlap' \in BOOLEAN
    BY <1>4
  <2> QED
    BY <1>1, <1>5, <1>10, <2>1, <2>2 DEF BuildInv, TypesHold
<1>14. PhasesHold'
  <2>1. HaveProps(doc, resolved')
    BY <1>2, <1>7, <1>11 DEF HaveProps
  <2> QED
    BY <1>2, <1>5, <2>1 DEF BuildInv, PhasesHold
<1>15. CoverHolds'
  <2>1. ASSUME NEW i \in DOMAIN nodes, nodes[i].id \in grouped', NEW m \in nodes[i].of
        PROVE  Covers(resolved', m)
    <3>1. CASE nodes[i].id \in grouped
      BY <1>2, <1>12, <2>1, <3>1 DEF BuildInv, CoverHolds
    <3>2. CASE nodes[i].id \in G
      BY <1>7, <1>12, <2>1, <3>2
    <3> QED
      BY <1>4, <2>1, <3>1, <3>2
  <2>2. \A m \in MentionsOf(doc) \ doc.late : Covers(nodes, m)
    BY <1>2 DEF BuildInv, CoverHolds
  <2> QED
    BY <1>2, <1>5, <2>1, <2>2 DEF CoverHolds
<1>16. UniqueHolds'
  <2>1. ASSUME ~overlap'
        PROVE  Unique(resolved') /\ ~overlap
    <3>1. ~overlap /\ ~twice
      BY <1>1, <1>4, <2>1 DEF twice
    <3>2. IdsOf(resolved) \cap IdsOf(J) = {}
      BY <1>6, <1>7 DEF IdsOf
    <3>3. Unique(R)
      BY <1>6, <1>7, <1>9, <3>1, <3>2
    <3>4. IdsOf(R) \subseteq grouped \cup Covered(v)
      BY <1>6, <1>7, <1>9 DEF IdsOf
    <3>5. IdsOf(R) \cap IdsOf(K) = {}
      BY <1>7, <3>4 DEF IdsOf
    <3> QED
      BY <1>7, <1>10, <3>1, <3>3, <3>5
  <2>2. ASSUME NEW i \in DOMAIN resolved'
        PROVE  /\ resolved'[i].id \in grouped'
               /\ \A j \in DOMAIN nodes :
                    nodes[j].id = resolved'[i].id => nodes[j].of \subseteq resolved'[i].of
    <3>1. CASE \E j \in DOMAIN resolved : resolved'[i] = resolved[j]
      BY <1>4, <1>6, <3>1
    <3>2. CASE \E j \in DOMAIN J : resolved'[i] = J[j]
      BY <1>4, <1>7, <3>2
    <3>3. CASE \E j \in DOMAIN K : resolved'[i] = K[j]
      BY <1>4, <1>7, <3>3
    <3> QED
      BY <1>11, <3>1, <3>2, <3>3
  <2> QED
    BY <1>2, <1>5, <1>6, <2>1, <2>2 DEF UniqueHolds
<1>17. FreshHolds'
  BY <1>2, <1>5 DEF FreshHolds
<1>18. NamesHold'
  BY <1>2, <1>5 DEF BuildInv, NamesHold
<1>19. EndsHold'
  BY <1>5 DEF BuildInv, EndsHold
<1> QED
  BY <1>13, <1>14, <1>15, <1>16, <1>17, <1>18, <1>19 DEF BuildInv

\* Those of all groups and the nodes of none make the new list.
LEMMA ResolvedBuild == ASSUME BuildInv, ResolvedAll PROVE BuildInv'
<1>1. /\ doc \in Documents /\ mode \in {"single", "multi"} /\ stable \in BOOLEAN
      /\ AreNodes(doc, stable, nodes) /\ AreNodes(doc, stable, resolved)
      /\ grouped \subseteq IdsOf(nodes) /\ overlap \in BOOLEAN
  BY DEF BuildInv, TypesHold
<1>2. /\ step = "resolve" /\ ~chained /\ HaveProps(doc, nodes) /\ HaveProps(doc, resolved)
      /\ mode = "single" => edges = {}
  BY DEF BuildInv, PhasesHold, ResolvedAll
<1>3. /\ UNCHANGED <<input, chunk, edges, revisit, disputed, overlap, chained, emptied>>
      /\ doc' = doc /\ mode' = mode /\ stable' = stable
      /\ nodes' = resolved \o PassedThrough /\ resolved' = <<>> /\ grouped' = {}
      /\ step' = "resolved" /\ mixed' = (mixed \/ Mixes(nodes'))
  BY DEF ResolvedAll, input
<1>4. /\ Unique(nodes) /\ (~overlap => Unique(resolved))
      /\ \A i \in DOMAIN resolved :
           /\ resolved[i].id \in grouped
           /\ \A j \in DOMAIN nodes :
                nodes[j].id = resolved[i].id => nodes[j].of \subseteq resolved[i].of
  BY <1>2 DEF BuildInv, UniqueHolds
<1> DEFINE D == {j \in DOMAIN nodes : nodes[j].id \notin grouped}
           f == [i \in D |-> nodes[i]]
           K == PassedThrough
<1>5. D \in SUBSET Nat /\ IsFiniteSet(D)
  <2>1. Len(nodes) \in Nat /\ DOMAIN nodes = 1..Len(nodes)
    BY <1>1 DEF AreNodes
  <2>2. IsFiniteSet(1..Len(nodes))
    BY <2>1, FS_Interval
  <2> QED
    BY <2>1, <2>2, FS_Subset
<1>6. DOMAIN f = D /\ \A i \in D : f[i] = nodes[i] /\ IsNode(doc, stable, f[i])
  BY <1>1 DEF AreNodes
<1>7. K = List(f)
  BY DEF PassedThrough
<1>8. \A i, j \in D : f[i].id = f[j].id => i = j
  BY <1>4 DEF Unique
<1> HIDE DEF f, K
<1>9. /\ AreNodes(doc, stable, K) /\ Unique(K)
      /\ \A i \in DOMAIN K : \E j \in D : K[i] = nodes[j]
      /\ \A j \in D : \E i \in DOMAIN K : K[i] = nodes[j]
  <2> HIDE DEF D
  <2>1. Lists(doc, stable, D, f, K)
    BY <1>5, <1>6, <1>7, ListNodes
  <2> QED
    BY <1>6, <1>8, <2>1 DEF Lists
<1>10. /\ AreNodes(doc, stable, nodes')
       /\ \A i \in DOMAIN resolved : i \in DOMAIN nodes' /\ nodes'[i] = resolved[i]
       /\ \A j \in DOMAIN K : \E i \in DOMAIN nodes' : nodes'[i] = K[j]
       /\ \A i \in DOMAIN nodes' :
            \/ i \in DOMAIN resolved /\ nodes'[i] = resolved[i]
            \/ \E j \in DOMAIN K : nodes'[i] = K[j]
       /\ (Unique(resolved) /\ Unique(K) /\ IdsOf(resolved) \cap IdsOf(K) = {}) => Unique(nodes')
  <2> DEFINE C == resolved \o K
  <2>1. /\ AreNodes(doc, stable, C)
        /\ \A i \in DOMAIN resolved : i \in DOMAIN C /\ C[i] = resolved[i]
        /\ \A j \in DOMAIN K : \E i \in DOMAIN C : C[i] = K[j]
        /\ \A i \in DOMAIN C :
             \/ i \in DOMAIN resolved /\ C[i] = resolved[i]
             \/ \E j \in DOMAIN K : C[i] = K[j]
        /\ (Unique(resolved) /\ Unique(K) /\ IdsOf(resolved) \cap IdsOf(K) = {}) => Unique(C)
    BY <1>1, <1>9, Concatenated
  <2>2. nodes' = C
    BY <1>3 DEF K
  <2> HIDE DEF C
  <2> QED
    BY <2>1, <2>2
<1>11. \A i \in DOMAIN nodes' :
         \/ \E j \in DOMAIN resolved : nodes'[i] = resolved[j]
         \/ \E j \in D : nodes'[i] = nodes[j]
  BY <1>9, <1>10
<1>12. HaveProps(doc, nodes')
  BY <1>2, <1>11 DEF HaveProps
<1>13. \A m \in MentionsOf(doc) \ doc.late : Covers(nodes', m)
  <2> TAKE m \in MentionsOf(doc) \ doc.late
  <2>1. PICK j \in DOMAIN nodes : m \in nodes[j].of
    BY <1>2 DEF BuildInv, CoverHolds, Covers
  <2>2. CASE nodes[j].id \in grouped
    <3>1. Covers(resolved, m)
      BY <1>2, <2>1, <2>2 DEF BuildInv, CoverHolds
    <3> QED
      BY <1>10, <3>1 DEF Covers
  <2>3. CASE nodes[j].id \notin grouped
    <3>1. \E i \in DOMAIN nodes' : nodes'[i] = nodes[j]
      BY <1>9, <1>10, <2>3
    <3> QED
      BY <2>1, <3>1 DEF Covers
  <2> QED
    BY <2>2, <2>3
<1>14. ~overlap => Unique(nodes')
  <2>1. IdsOf(resolved) \cap IdsOf(K) = {}
    BY <1>4, <1>9 DEF IdsOf
  <2> QED
    BY <1>4, <1>9, <1>10, <2>1
<1>15. \A id, m : (Carries(nodes, id, m) /\ id \in IdsOf(nodes')) => Carries(nodes', id, m)
  <2> SUFFICES ASSUME NEW j \in DOMAIN nodes, NEW m \in nodes[j].of,
                      NEW i \in DOMAIN nodes', nodes'[i].id = nodes[j].id
               PROVE  Carries(nodes', nodes[j].id, m)
    BY DEF Carries, IdsOf
  <2>1. CASE \E h \in DOMAIN resolved : nodes'[i] = resolved[h]
    BY <1>4, <2>1 DEF Carries
  <2>2. CASE \E h \in D : nodes'[i] = nodes[h]
    BY <1>4, <2>2 DEF Carries, Unique
  <2> QED
    BY <1>11, <2>1, <2>2
<1>16. IdsOf(nodes') \subseteq IdsOf(nodes)
  BY <1>1, <1>4, <1>11 DEF IdsOf
<1>17. TypesHold'
  <2>1. AreNodes(doc, stable, <<>>)
    BY DEF AreNodes
  <2> QED
    BY <1>1, <1>3, <1>10, <2>1 DEF BuildInv, TypesHold
<1>18. PhasesHold'
  <2>1. HaveProps(doc, <<>>)
    BY DEF HaveProps
  <2> QED
    BY <1>2, <1>3, <1>12, <2>1 DEF PhasesHold
<1>19. CoverHolds'
  BY <1>3, <1>13 DEF CoverHolds
<1>20. UniqueHolds'
  BY <1>3, <1>14 DEF UniqueHolds
<1>21. FreshHolds'
  BY <1>3 DEF FreshHolds
<1>22. NamesHold'
  <2>1. Blends(doc, nodes') => mixed'
    BY <1>3, MixesBlends
  <2>2. ASSUME ~mixed', NEW e \in edges, ~e.auto
        PROVE  /\ e.src \in IdsOf(nodes') => Meant(doc, nodes', e.src, e.from)
               /\ e.dst \in IdsOf(nodes') => Meant(doc, nodes', e.dst, e.to)
    <3>1. ~mixed
      BY <1>3, <2>2
    <3>2. /\ e.src \in IdsOf(nodes) => Meant(doc, nodes, e.src, e.from)
          /\ e.dst \in IdsOf(nodes) => Meant(doc, nodes, e.dst, e.to)
      BY <1>2, <2>2, <3>1 DEF BuildInv, NamesHold
    <3> QED
      BY <1>15, <1>16, <3>2 DEF Meant
  <2> QED
    BY <1>3, <2>1, <2>2 DEF NamesHold
<1>23. EndsHold'
  BY <1>2, <1>3 DEF EndsHold
<1> QED
  BY <1>17, <1>18, <1>19, <1>20, <1>21, <1>22, <1>23 DEF BuildInv

\* Nothing but the step changes.
LEMMA ProceedBuild == ASSUME BuildInv, Proceed PROVE BuildInv'
<1>1. /\ step = "resolved" /\ step' = (IF mode = "single" THEN "relate" ELSE "dedup") /\ chunk' = 1
      /\ UNCHANGED <<input, nodes, resolved, grouped, edges, revisit, disputed, accidents>>
      /\ doc' = doc /\ mode' = mode /\ stable' = stable
      /\ UNCHANGED <<mixed, overlap, chained, emptied>>
  BY DEF Proceed, input, accidents
<1>2. /\ doc \in Documents /\ mode \in {"single", "multi"} /\ doc.chunks \in Nat \ {0}
  BY DocumentFacts DEF BuildInv, TypesHold
<1>3. mode = "single" => edges = {}
  BY <1>1 DEF BuildInv, PhasesHold
<1>4. TypesHold'
  BY <1>1, <1>2 DEF BuildInv, TypesHold
<1>5. PhasesHold'
  BY <1>1, <1>2 DEF BuildInv, PhasesHold
<1>6. CoverHolds'
  BY <1>1, <1>2 DEF BuildInv, CoverHolds
<1>7. UniqueHolds'
  BY <1>1, <1>2 DEF BuildInv, UniqueHolds
<1>8. FreshHolds'
  BY <1>1, <1>2 DEF BuildInv, FreshHolds
<1>9. NamesHold'
  <2>1. CASE mode = "single"
    BY <1>1, <1>3, <2>1 DEF BuildInv, NamesHold
  <2>2. CASE mode = "multi"
    BY <1>1, <2>2 DEF BuildInv, NamesHold
  <2> QED
    BY <1>2, <2>1, <2>2
<1>10. EndsHold'
  BY <1>1 DEF BuildInv, EndsHold
<1> QED
  BY <1>4, <1>5, <1>6, <1>7, <1>8, <1>9, <1>10 DEF BuildInv

\* Nothing has been found before the first chunk is looked at again.
LEMMA AcceptBuild == ASSUME BuildInv, Accept PROVE BuildInv'
<1>1. /\ step = "refine" /\ step' = "compare" /\ chunk = 1
      /\ doc' = doc /\ mode' = mode /\ stable' = stable
      /\ UNCHANGED <<chunk, nodes, resolved, grouped, edges, revisit>>
      /\ UNCHANGED <<mixed, overlap, chained, emptied>>
  BY DEF Accept, input, accidents
<1>2. mode = "multi" /\ doc \in Documents
  BY <1>1 DEF BuildInv, PhasesHold, TypesHold
<1>3. resolved = <<>>
  <2>1. \A m \in doc.late : doc.chunk[m] \in 1..doc.chunks /\ doc.chunks \in Nat
    BY <1>2, DocumentFacts
  <2>2. DOMAIN resolved = {}
    <3> SUFFICES ASSUME NEW i \in DOMAIN resolved PROVE FALSE
      OBVIOUS
    <3>1. PICK m \in doc.late : doc.chunk[m] < chunk
      BY <1>1 DEF BuildInv, FreshHolds
    <3> QED
      BY <1>1, <2>1, <3>1
  <2>3. resolved \in Seq(NodeSet(doc))
    BY DEF BuildInv, TypesHold, AreNodes
  <2> QED
    BY <2>2, <2>3
<1>4. TypesHold'
  BY <1>1 DEF BuildInv, TypesHold
<1>5. PhasesHold'
  BY <1>1, <1>2, <1>3 DEF BuildInv, PhasesHold
<1>6. CoverHolds'
  BY <1>1 DEF BuildInv, CoverHolds
<1>7. UniqueHolds'
  BY <1>1, <1>2 DEF BuildInv, UniqueHolds
<1>8. FreshHolds'
  BY <1>1 DEF FreshHolds
<1>9. NamesHold'
  <2>1. Listed = nodes
    <3>1. Len(nodes) \in Nat /\ nodes \in Seq(NodeSet(doc))
      BY DEF BuildInv, TypesHold, AreNodes
    <3>2. nodes \o <<>> = nodes
      BY <3>1
    <3> QED
      BY <1>1, <1>3, <3>2 DEF Listed
  <2>2. ASSUME ~mixed, NEW e \in edges, ~e.auto
        PROVE  Meant(doc, nodes, e.src, e.from) /\ Meant(doc, nodes, e.dst, e.to)
    BY <1>1, <2>1, <2>2 DEF BuildInv, NamesHold
  <2>3. Blends(doc, nodes) => mixed
    BY DEF BuildInv, NamesHold
  <2> QED
    BY <1>1, <2>2, <2>3 DEF NamesHold
<1>10. EndsHold'
  BY <1>1 DEF BuildInv, EndsHold
<1> QED
  BY <1>4, <1>5, <1>6, <1>7, <1>8, <1>9, <1>10 DEF BuildInv

-----------------------------------------------------------------------------
(* Relationships *)

\* A positional id is resolved to a node of the list; while none is blended, to
\* one that stands for the mention meant, unless a refinement pass has used it again.
LEMMA ResolvedNode ==
    ASSUME doc \in Documents, NEW ns, AreNodes(doc, stable, ns), EarlyFirst(doc, ns),
           NEW c, NEW m \in MentionsIn(c), Covers(ns, m)
    PROVE  LET x == Resolve(ns, c, doc.alias[m]) IN
           /\ x # 0 => x \in IdsOf(ns)
           /\ ~Blends(doc, ns) => Meant(doc, ns, x, m)
<1> DEFINE x == Resolve(ns, c, doc.alias[m])
           C == {i \in DOMAIN ns : doc.alias[m] \in ns[i].aliases}
           S == {i \in C : c \in ns[i].chunks}
<1>1. Len(ns) \in Nat /\ DOMAIN ns = 1..Len(ns)
  BY DEF AreNodes
<1>2. C \in SUBSET Nat /\ S \in SUBSET Nat
  BY <1>1
<1>3. S # {} => (Min(S) \in S /\ x = ns[Min(S)].id)
  <2>1. S # {} => x = ns[Min(S)].id
    BY DEF Resolve
  <2> HIDE DEF S
  <2> QED
    BY <1>2, <2>1, LeastOf
<1>4. x # 0 => x \in IdsOf(ns)
  <2>1. CASE S # {}
    BY <1>3, <2>1 DEF IdsOf
  <2>2. CASE S = {} /\ C = {}
    BY <2>2 DEF Resolve
  <2>3. CASE S = {} /\ C # {}
    <3>1. x = ns[Min(C)].id
      BY <2>3 DEF Resolve
    <3>2. Min(C) \in C
      <4> HIDE DEF C
      <4> QED
        BY <1>2, <2>3, LeastOf
    <3> QED
      BY <3>1, <3>2 DEF IdsOf
  <2> QED
    BY <2>1, <2>2, <2>3
<1>5. ASSUME ~Blends(doc, ns), ~Reused(doc, m)
      PROVE  Carries(ns, x, m)
  <2>1. \A i \in DOMAIN ns : \A j, k \in ns[i].of :
          doc.chunk[j] = doc.chunk[k] /\ doc.alias[j] \in ns[i].aliases
    BY <1>5 DEF Blends, Blended
  <2>2. m \in MentionsOf(doc) /\ doc.chunk[m] = c
    BY DEF MentionsIn, Mentions, MentionsOf
  <2>a. PICK i \in DOMAIN ns : m \in ns[i].of
    BY DEF Covers
  <2>3. i \in S
    <3>1. PICK b \in ns[i].of : doc.chunk[b] \in ns[i].chunks
      BY DEF AreNodes, IsNode
    <3> QED
      BY <2>1, <2>2, <2>a, <3>1
  <2> DEFINE p == Min(S)
  <2>4. p \in S /\ x = ns[p].id
    BY <1>3, <2>3
  <2> HIDE DEF p
  <2>5. p \in DOMAIN ns /\ doc.alias[m] \in ns[p].aliases /\ c \in ns[p].chunks
    BY <2>4
  <2>6. IsNode(doc, stable, ns[p])
    BY <2>5 DEF AreNodes
  <2>7. PICK k \in ns[p].of : doc.alias[k] = doc.alias[m]
    BY <2>5, <2>6, NodeParts
  <2>8. PICK j \in ns[p].of : doc.chunk[j] = c
    BY <2>5, <2>6, NodeParts
  <2>9. k \in MentionsOf(doc) /\ doc.chunk[k] = c
    BY <2>1, <2>5, <2>6, <2>7, <2>8, NodeFields
  <2>10. k = m
    <3>1. CASE m \in doc.late
      BY <1>5, <2>2, <2>7, <2>9, <3>1 DEF Reused
    <3>2. CASE m \notin doc.late
      <4>1. p <= i /\ i \in Nat /\ p \in Nat
        BY <1>1, <1>2, <2>3, <2>5, LeastOf DEF p
      <4>2. ns[i].of \ doc.late # {}
        BY <2>a, <3>2
      <4>3. ns[p].of \cap doc.late = {}
        BY <2>a, <2>5, <4>1, <4>2 DEF EarlyFirst
      <4> QED
        BY <2>2, <2>7, <2>9, <3>2, <4>3, DocumentFacts
    <3> QED
      BY <3>1, <3>2
  <2> HIDE DEF x
  <2> QED
    BY <2>4, <2>5, <2>7, <2>10 DEF Carries
<1> QED
  BY <1>4, <1>5 DEF Meant

\* What a chunk's text relates.
LEMMA RelatedEnds ==
    ASSUME doc \in Documents, NEW ns, AreNodes(doc, stable, ns), EarlyFirst(doc, ns),
           NEW c, NEW r \in Related(ns, c)
    PROVE  /\ r \in Edges(doc) /\ ~r.auto /\ {r.src, r.dst} \subseteq IdsOf(ns)
           /\ ~Blends(doc, ns) => Meant(doc, ns, r.src, r.from) /\ Meant(doc, ns, r.dst, r.to)
<1> DEFINE known == MentionsIn(c) \cap UNION {ns[i].of : i \in DOMAIN ns}
<1>1. PICK m \in known, k \in known :
        /\ r = [src |-> Resolve(ns, c, doc.alias[m]), dst |-> Resolve(ns, c, doc.alias[k]),
                from |-> m, to |-> k, auto |-> FALSE]
        /\ r.src # 0 /\ r.dst # 0
  BY DEF Related
<1>2. /\ m \in MentionsIn(c) /\ Covers(ns, m) /\ k \in MentionsIn(c) /\ Covers(ns, k)
      /\ m \in MentionsOf(doc) /\ k \in MentionsOf(doc)
  BY DEF Covers, MentionsIn, Mentions, MentionsOf
<1> HIDE DEF known
<1>3. /\ r.src = Resolve(ns, c, doc.alias[m]) /\ r.dst = Resolve(ns, c, doc.alias[k])
      /\ r.from = m /\ r.to = k /\ r.auto = FALSE
      /\ r = [src |-> r.src, dst |-> r.dst, from |-> r.from, to |-> r.to, auto |-> r.auto]
  BY <1>1
<1>4. /\ r.src \in IdsOf(ns) /\ (~Blends(doc, ns) => Meant(doc, ns, r.src, m))
      /\ r.dst \in IdsOf(ns) /\ (~Blends(doc, ns) => Meant(doc, ns, r.dst, k))
  BY <1>1, <1>2, <1>3, ResolvedNode
<1>5. IdsOf(ns) \subseteq MentionsOf(doc)
  BY NodeFields DEF IdsOf, AreNodes
<1>6. m \in 0..Len(doc.chunk) /\ k \in 0..Len(doc.chunk)
  BY <1>2, DocumentFacts
<1>7. r \in Edges(doc)
  BY <1>3, <1>4, <1>5, <1>6 DEF Edges
<1> QED
  BY <1>3, <1>4, <1>7

\* Where nothing is late, the order of the list is no matter.
LEMMA NothingLate ==
    ASSUME BuildInv, step = "relate" \/ mode = "single"
    PROVE  EarlyFirst(doc, nodes)
<1>1. \A i \in DOMAIN nodes : nodes[i].of \cap doc.late = {}
  BY DEF BuildInv, FreshHolds, TypesHold
<1> QED
  BY <1>1 DEF EarlyFirst

\* The relationships of a chunk are those there were and at most one more.
LEMMA ExtendedEdges ==
    ASSUME doc \in Documents, edges \subseteq Edges(doc),
           NEW ns, AreNodes(doc, stable, ns), EarlyFirst(doc, ns), NEW c, NEW es \in Extended(ns, c)
    PROVE  /\ es \subseteq Edges(doc)
           /\ \A e \in es : e \in edges \/
                /\ ~e.auto /\ {e.src, e.dst} \subseteq IdsOf(ns)
                /\ ~Blends(doc, ns) => Meant(doc, ns, e.src, e.from) /\ Meant(doc, ns, e.dst, e.to)
<1>1. es = edges \/ \E r \in Related(ns, c) : es = edges \cup {r}
  BY DEF Extended
<1> QED
  BY <1>1, RelatedEnds

\* A chunk is asked for relationships between the nodes of the list.
LEMMA RelateBuild == ASSUME BuildInv, RelateChunk PROVE BuildInv'
<1>1. /\ doc \in Documents /\ mode \in {"single", "multi"} /\ stable \in BOOLEAN
      /\ chunk \in 1..doc.chunks /\ AreNodes(doc, stable, nodes) /\ edges \subseteq Edges(doc)
  BY DEF BuildInv, TypesHold
<1>2. /\ step = "relate" /\ resolved = <<>> /\ grouped = {} /\ ~chained
      /\ HaveProps(doc, nodes) /\ HaveProps(doc, resolved)
  BY DEF BuildInv, PhasesHold, RelateChunk
<1>3. /\ edges' \in Extended(nodes, chunk)
      /\ doc' = doc /\ mode' = mode /\ stable' = stable
      /\ UNCHANGED <<nodes, resolved, grouped, revisit, mixed, overlap, chained, emptied>>
  BY DEF RelateChunk, input, accidents
<1>4. doc.chunks \in Nat \ {0}
  BY <1>1, DocumentFacts
<1>5. \/ chunk < doc.chunks /\ chunk' = chunk + 1 /\ step' = "relate"
      \/ chunk' = 1 /\ step' = IF mode = "single" THEN "dedup" ELSE "refine"
  BY <1>1, <1>2, <1>4 DEF RelateChunk, LastChunk
<1>6. /\ edges' \subseteq Edges(doc)
      /\ \A e \in edges' : e \in edges \/
            /\ ~e.auto /\ {e.src, e.dst} \subseteq IdsOf(nodes)
            /\ ~Blends(doc, nodes) => Meant(doc, nodes, e.src, e.from) /\ Meant(doc, nodes, e.dst, e.to)
  BY <1>1, <1>2, <1>3, NothingLate, ExtendedEdges
<1>7. chunk' \in 1..doc.chunks
  BY <1>1, <1>4, <1>5
<1>8. TypesHold'
  BY <1>1, <1>3, <1>5, <1>6, <1>7 DEF BuildInv, TypesHold
<1>9. PhasesHold'
  BY <1>1, <1>2, <1>3, <1>5 DEF PhasesHold
<1>10. CoverHolds'
  BY <1>2, <1>3, <1>5 DEF BuildInv, CoverHolds
<1>11. UniqueHolds'
  BY <1>1, <1>2, <1>3, <1>5 DEF BuildInv, UniqueHolds
<1>12. FreshHolds'
  <2>1. Unique(<<>>)
    BY DEF Unique
  <2>2. mode = "multi" => \A i \in DOMAIN nodes : nodes[i].of \cap doc.late = {}
    BY <1>2 DEF BuildInv, FreshHolds
  <2> QED
    BY <1>2, <1>3, <2>1, <2>2 DEF FreshHolds
<1>13. NamesHold'
  <2>1. Listed = nodes /\ Listed' = nodes
    <3>1. nodes \o <<>> = nodes
      BY <1>1 DEF AreNodes
    <3> QED
      BY <1>2, <1>3, <1>5, <3>1 DEF Listed
  <2>2. Blends(doc, nodes) => mixed
    BY DEF BuildInv, NamesHold
  <2>3. ASSUME ~mixed, NEW e \in edges', ~e.auto
        PROVE  Meant(doc, nodes, e.src, e.from) /\ Meant(doc, nodes, e.dst, e.to)
    <3>1. CASE e \in edges
      BY <1>2, <2>1, <2>3, <3>1 DEF BuildInv, NamesHold
    <3>2. CASE e \notin edges
      BY <1>6, <2>2, <2>3, <3>2
    <3> QED
      BY <3>1, <3>2
  <2> QED
    BY <1>3, <2>1, <2>2, <2>3 DEF NamesHold
<1>14. EndsHold'
  BY <1>3, <1>6 DEF BuildInv, EndsHold
<1> QED
  BY <1>8, <1>9, <1>10, <1>11, <1>12, <1>13, <1>14 DEF BuildInv

\* What a later list stands for, an earlier part of it stands for.
LEMMA CarriesOn ==
    ASSUME NEW a, NEW b, \A i \in DOMAIN a : \E j \in DOMAIN b : b[j] = a[i]
    PROVE  \A id, m : Carries(a, id, m) => Carries(b, id, m)
BY DEF Carries

\* What a refinement pass has found so far, and what it finds in its chunk.
LEMMA FoundNodes ==
    ASSUME BuildInv, step = "refine", NEW new,
           \/ new = NodesFor(MentionsIn(chunk) \cap doc.late) \/ new = <<>>
    PROVE  LET R == resolved \o new IN
           /\ AreNodes(doc, stable, new) /\ AreNodes(doc, stable, R)
           /\ \A i \in DOMAIN resolved : \E j \in DOMAIN R : R[j] = resolved[i]
           /\ \A i \in DOMAIN new : \E j \in DOMAIN R : R[j] = new[i]
           /\ \A i \in DOMAIN R : \E m \in doc.late : doc.chunk[m] <= chunk /\ R[i] = NodeFor(m)
           /\ ~stable => Unique(R)
           /\ HaveProps(doc, R) /\ ~Blends(doc, new)
<1> DEFINE M == MentionsIn(chunk) \cap doc.late
           R == resolved \o new
<1>1. /\ doc \in Documents /\ stable \in BOOLEAN /\ mode = "multi" /\ chunk \in 1..doc.chunks
      /\ AreNodes(doc, stable, resolved) /\ HaveProps(doc, resolved)
      /\ \A i \in DOMAIN resolved : \E m \in doc.late :
            doc.chunk[m] < chunk /\ resolved[i] = NodeFor(m)
      /\ ~stable => Unique(resolved)
  BY DEF BuildInv, TypesHold, PhasesHold, FreshHolds
<1>2. /\ doc.chunks \in Nat /\ doc.late \subseteq MentionsOf(doc)
      /\ \A m \in MentionsOf(doc) : doc.chunk[m] \in 1..doc.chunks
  BY <1>1, DocumentFacts
<1>3. /\ M \in SUBSET MentionsOf(doc)
      /\ \A m \in M : m \in doc.late /\ doc.chunk[m] = chunk
  BY <1>2 DEF MentionsIn, Mentions, MentionsOf
<1> HIDE DEF M
<1>4. /\ AreNodes(doc, stable, new) /\ HaveProps(doc, new) /\ ~Blends(doc, new)
      /\ ~stable => Unique(new)
      /\ \A i \in DOMAIN new : \E m \in M : new[i] = NodeFor(m)
  <2>1. CASE new = <<>>
    BY <2>1 DEF AreNodes, HaveProps, Blends, Unique
  <2>2. CASE new = NodesFor(M)
    BY <1>1, <1>3, <2>2, NodesForMentions
  <2> QED
    BY <2>1, <2>2 DEF M
<1>5. /\ AreNodes(doc, stable, R)
      /\ \A i \in DOMAIN resolved : i \in DOMAIN R /\ R[i] = resolved[i]
      /\ \A j \in DOMAIN new : \E i \in DOMAIN R : R[i] = new[j]
      /\ \A i \in DOMAIN R :
           (i \in DOMAIN resolved /\ R[i] = resolved[i]) \/ (\E j \in DOMAIN new : R[i] = new[j])
      /\ (Unique(resolved) /\ Unique(new) /\ IdsOf(resolved) \cap IdsOf(new) = {}) => Unique(R)
  BY <1>1, <1>4, Concatenated
<1> HIDE DEF R
<1>6. \A i \in DOMAIN R : \E m \in doc.late : doc.chunk[m] <= chunk /\ R[i] = NodeFor(m)
  <2> TAKE i \in DOMAIN R
  <2>1. CASE i \in DOMAIN resolved /\ R[i] = resolved[i]
    <3>1. PICK m \in doc.late : doc.chunk[m] < chunk /\ resolved[i] = NodeFor(m)
      BY <1>1, <2>1
    <3>2. doc.chunk[m] <= chunk
      BY <1>1, <1>2, <3>1
    <3> QED
      BY <2>1, <3>1, <3>2
  <2>2. CASE \E j \in DOMAIN new : R[i] = new[j]
    <3>1. PICK m \in M : R[i] = NodeFor(m)
      BY <1>4, <2>2
    <3>2. doc.chunk[m] <= chunk
      BY <1>1, <1>3
    <3> QED
      BY <1>3, <3>1, <3>2
  <2> QED
    BY <1>5, <2>1, <2>2
<1>7. ASSUME ~stable
      PROVE  Unique(R)
  <2>1. ASSUME NEW i \in DOMAIN resolved, NEW j \in DOMAIN new, resolved[i].id = new[j].id
        PROVE  FALSE
    <3>1. PICK m \in doc.late : doc.chunk[m] < chunk /\ resolved[i] = NodeFor(m)
      BY <1>1
    <3>2. PICK k \in M : new[j] = NodeFor(k)
      BY <1>4
    <3>3. NodeFor(m).id = m /\ NodeFor(k).id = k
      BY <1>1, <1>2, <1>3, <1>7, NodeForNode
    <3>4. doc.chunk[k] = chunk /\ chunk \in Int
      BY <1>1, <1>3
    <3> QED
      BY <2>1, <3>1, <3>2, <3>3, <3>4
  <2>2. IdsOf(resolved) \cap IdsOf(new) = {}
    BY <2>1 DEF IdsOf
  <2> QED
    BY <1>1, <1>4, <1>5, <1>7, <2>2
<1>8. HaveProps(doc, R)
  BY <1>1, <1>4, <1>5 DEF HaveProps
<1> QED
  BY <1>4, <1>5, <1>6, <1>7, <1>8 DEF R

\* When the found nodes are merged in, an id of theirs that is left stands for
\* the mentions it stood for.
LEMMA MergedNames ==
    ASSUME BuildInv, step = "refine", NEW R, AreNodes(doc, stable, R),
           \A i \in DOMAIN R : \E m \in doc.late : R[i] = NodeFor(m),
           ~stable => Unique(R), HaveProps(doc, R)
    PROVE  LET out == Added(nodes, R) IN
           /\ AreNodes(doc, stable, out) /\ HaveProps(doc, out) /\ Unique(out)
           /\ \A m : Covers(nodes, m) => Covers(out, m)
           /\ \A id, m : (Carries(nodes, id, m) \/ Carries(R, id, m)) =>
                (id \in IdsOf(out) => Carries(out, id, m))
<1> DEFINE out == Added(nodes, R)
<1>1. /\ doc \in Documents /\ stable \in BOOLEAN /\ mode = "multi" /\ AreNodes(doc, stable, nodes)
      /\ HaveProps(doc, nodes) /\ Unique(nodes)
      /\ \A i \in DOMAIN nodes : nodes[i].of \cap doc.late = {}
  BY DEF BuildInv, TypesHold, PhasesHold, FreshHolds, UniqueHolds
<1>2. doc.late \subseteq MentionsOf(doc)
  BY <1>1, DocumentFacts
<1>3. \A i \in DOMAIN R : \E m \in MentionsOf(doc) : R[i] = NodeFor(m)
  BY <1>2
<1>4. Filled(doc, stable, Way, nodes, R, Len(R), out) /\ HaveProps(doc, out)
  BY <1>1, <1>3, AddedNodes
<1>5. Way = "entity" /\ Way \in Ways /\ out = Inserted(Way, nodes, R)
  BY <1>1 DEF Way, Ways, Added
<1>6. DOMAIN R = 1..Len(R)
  BY DEF AreNodes
<1>7. ASSUME ~stable
      PROVE  Settled(R, Len(R), out)
  <2>1. \A i \in DOMAIN nodes : nodes[i].id \notin doc.late
    <3> TAKE i \in DOMAIN nodes
    <3>1. nodes[i].id \in nodes[i].of
      BY <1>1, <1>7 DEF AreNodes, IsNode
    <3> QED
      BY <1>1, <3>1
  <2>2. \A i \in DOMAIN R : R[i].id \in doc.late
    BY <1>1, <1>2, <1>7, NodeForNode
  <2>3. IdsOf(nodes) \cap IdsOf(R) = {}
    BY <2>1, <2>2 DEF IdsOf
  <2> QED
    BY <1>1, <1>5, <1>7, <2>3, InsertedSettles
<1> HIDE DEF out
<1>8. \A m : Covers(nodes, m) => Covers(out, m)
  BY <1>4 DEF Filled, Covers
<1>9. ASSUME NEW id, NEW m, Carries(nodes, id, m)
      PROVE  Carries(out, id, m)
  BY <1>4, <1>9 DEF Filled, Carries
<1>10. ASSUME NEW id, NEW m, Carries(R, id, m), id \in IdsOf(out)
       PROVE  Carries(out, id, m)
  <2>1. PICK j \in DOMAIN R : R[j].id = id /\ m \in R[j].of
    BY <1>10 DEF Carries
  <2>2. CASE stable
    <3>1. PICK i \in DOMAIN out : R[j].of \subseteq out[i].of /\ out[i].id = R[j].id
      BY <1>4, <1>5, <1>6, <2>2 DEF Filled
    <3> QED
      BY <2>1, <3>1 DEF Carries
  <2>3. CASE ~stable
    <3>1. PICK i \in DOMAIN out : out[i].id = R[j].id /\ R[j].of \subseteq out[i].of
      BY <1>6, <1>7, <1>10, <2>1, <2>3 DEF Settled
    <3> QED
      BY <2>1, <3>1 DEF Carries
  <2> QED
    BY <2>2, <2>3
<1>11. AreNodes(doc, stable, out) /\ Unique(out)
  BY <1>1, <1>4, <1>5 DEF Filled
<1> QED
  BY <1>4, <1>8, <1>9, <1>10, <1>11 DEF out

\* A chunk is looked at again; with the last one what was found is merged in.
LEMMA RefineBuild == ASSUME BuildInv, Refine PROVE BuildInv'
<1>1. /\ doc \in Documents /\ mode \in {"single", "multi"} /\ stable \in BOOLEAN
      /\ chunk \in 1..doc.chunks /\ AreNodes(doc, stable, nodes) /\ AreNodes(doc, stable, resolved)
      /\ edges \subseteq Edges(doc)
  BY DEF BuildInv, TypesHold
<1>2. /\ step = "refine" /\ mode = "multi" /\ grouped = {} /\ ~chained
      /\ HaveProps(doc, nodes) /\ HaveProps(doc, resolved) /\ Unique(nodes)
      /\ \A i \in DOMAIN nodes : nodes[i].of \cap doc.late = {}
      /\ Blends(doc, nodes) => mixed
  BY DEF BuildInv, PhasesHold, UniqueHolds, FreshHolds, NamesHold, Refine
<1>3. /\ UNCHANGED <<input, grouped, revisit, disputed, overlap, chained, emptied>>
      /\ doc' = doc /\ mode' = mode /\ stable' = stable
      /\ mixed' = (mixed \/ Mixes(nodes'))
  BY DEF Refine, input
<1>4. PICK new : /\ \/ new = NodesFor(MentionsIn(chunk) \cap doc.late) \/ new = <<>>
                 /\ edges' \in Extended(nodes \o new, chunk)
                 /\ IF chunk < LastChunk
                    THEN resolved' = resolved \o new /\ UNCHANGED nodes
                    ELSE resolved' = <<>> /\ nodes' = Added(nodes, resolved \o new)
  BY DEF Refine
<1>5. doc.chunks \in Nat \ {0} /\ doc.late \subseteq MentionsOf(doc)
  BY <1>1, DocumentFacts
<1> DEFINE R == resolved \o new
           N == nodes \o new
           L == nodes \o R
<1>6. /\ AreNodes(doc, stable, new) /\ AreNodes(doc, stable, R)
      /\ \A i \in DOMAIN resolved : \E j \in DOMAIN R : R[j] = resolved[i]
      /\ \A i \in DOMAIN new : \E j \in DOMAIN R : R[j] = new[i]
      /\ \A i \in DOMAIN R : \E m \in doc.late : doc.chunk[m] <= chunk /\ R[i] = NodeFor(m)
      /\ ~stable => Unique(R)
      /\ HaveProps(doc, R) /\ ~Blends(doc, new)
  BY <1>2, <1>4, FoundNodes
<1>7. \/ chunk < doc.chunks /\ chunk' = chunk + 1 /\ step' = "refine" /\ resolved' = R /\ nodes' = nodes
      \/ chunk' = 1 /\ step' = "compare" /\ resolved' = <<>> /\ nodes' = Added(nodes, R)
  BY <1>1, <1>2, <1>4, <1>5 DEF Refine, LastChunk
<1>8. /\ AreNodes(doc, stable, N)
      /\ \A i \in DOMAIN nodes : i \in DOMAIN N /\ N[i] = nodes[i]
      /\ \A j \in DOMAIN new : \E i \in DOMAIN N : N[i] = new[j]
      /\ \A i \in DOMAIN N :
           (i \in DOMAIN nodes /\ N[i] = nodes[i]) \/ (\E j \in DOMAIN new : N[i] = new[j])
      /\ (Unique(nodes) /\ Unique(new) /\ IdsOf(nodes) \cap IdsOf(new) = {}) => Unique(N)
  BY <1>1, <1>6, Concatenated
<1>9. Listed = nodes \o resolved
  BY <1>2 DEF Listed
<1>10. edges' \in Extended(N, chunk)
  BY <1>4
<1> HIDE DEF N
<1>11. /\ edges' \subseteq Edges(doc)
       /\ \A e \in edges' : e \in edges \/
            /\ ~e.auto /\ {e.src, e.dst} \subseteq IdsOf(N)
            /\ ~Blends(doc, N) => Meant(doc, N, e.src, e.from) /\ Meant(doc, N, e.dst, e.to)
  <2>1. DOMAIN nodes = 1..Len(nodes) /\ Len(nodes) \in Nat /\ DOMAIN N \subseteq Nat
    BY <1>1, <1>8 DEF AreNodes
  <2>2. ASSUME NEW i \in DOMAIN N
        PROVE  \/ i \in DOMAIN nodes /\ N[i].of \cap doc.late = {}
               \/ i \notin DOMAIN nodes /\ N[i].of \subseteq doc.late
    <3>1. CASE i \in DOMAIN nodes
      BY <1>2, <1>8, <3>1
    <3>2. CASE i \notin DOMAIN nodes
      <4>1. PICK j \in DOMAIN new : N[i] = new[j]
        BY <1>8, <3>2
      <4>2. PICK m \in doc.late : new[j] = NodeFor(m)
        BY <1>6
      <4>3. NodeFor(m).of = {m}
        BY DEF NodeFor
      <4> QED
        BY <3>2, <4>1, <4>2, <4>3
    <3> QED
      BY <3>1, <3>2
  <2>3. EarlyFirst(doc, N)
    <3> SUFFICES ASSUME NEW i \in DOMAIN N, NEW j \in DOMAIN N,
                        N[i].of \cap doc.late # {}, N[j].of \ doc.late # {}
                 PROVE  j < i
      BY DEF EarlyFirst
    <3>1. i \notin DOMAIN nodes /\ j \in DOMAIN nodes
      BY <2>2
    <3>2. i \in Nat /\ j \in Nat /\ i # 0 /\ Len(nodes) < i /\ j <= Len(nodes)
      <4>1. i \in Nat /\ i # 0
        BY <1>8 DEF AreNodes
      <4> QED
        BY <2>1, <3>1, <4>1
    <3> QED
      BY <2>1, <3>2
  <2> QED
    BY <1>1, <1>8, <1>10, <2>3, ExtendedEdges
<1>12. \A id, m : Carries(nodes \o resolved, id, m) => Carries(nodes, id, m) \/ Carries(resolved, id, m)
  <2> DEFINE C == nodes \o resolved
  <2>1. /\ AreNodes(doc, stable, C)
        /\ \A i \in DOMAIN nodes : i \in DOMAIN C /\ C[i] = nodes[i]
        /\ \A j \in DOMAIN resolved : \E i \in DOMAIN C : C[i] = resolved[j]
        /\ \A i \in DOMAIN C :
             (i \in DOMAIN nodes /\ C[i] = nodes[i]) \/ (\E j \in DOMAIN resolved : C[i] = resolved[j])
        /\ (Unique(nodes) /\ Unique(resolved) /\ IdsOf(nodes) \cap IdsOf(resolved) = {}) => Unique(C)
    BY <1>1, Concatenated
  <2> HIDE DEF C
  <2>2. \A id, m : Carries(C, id, m) => Carries(nodes, id, m) \/ Carries(resolved, id, m)
    BY <2>1 DEF Carries
  <2> QED
    BY <2>2 DEF C
<1> HIDE DEF R
<1>13. ASSUME ~mixed, NEW e \in edges', ~e.auto
       PROVE  /\ Meant(doc, nodes, e.src, e.from) \/ Meant(doc, R, e.src, e.from)
              /\ Meant(doc, nodes, e.dst, e.to) \/ Meant(doc, R, e.dst, e.to)
  <2>1. CASE e \in edges
    <3>1. Meant(doc, Listed, e.src, e.from) /\ Meant(doc, Listed, e.dst, e.to)
      BY <1>2, <1>13, <2>1 DEF BuildInv, NamesHold
    <3>2. \A id, m : Carries(resolved, id, m) => Carries(R, id, m)
      BY <1>6, CarriesOn
    <3> QED
      BY <1>9, <1>12, <3>1, <3>2 DEF Meant
  <2>2. CASE e \notin edges
    <3>1. ~Blends(doc, N)
      BY <1>2, <1>6, <1>8, <1>13 DEF Blends
    <3>2. Meant(doc, N, e.src, e.from) /\ Meant(doc, N, e.dst, e.to)
      BY <1>11, <2>2, <3>1
    <3>3. \A id, m : Carries(N, id, m) => Carries(nodes, id, m) \/ Carries(R, id, m)
      BY <1>6, <1>8 DEF Carries
    <3> QED
      BY <3>2, <3>3 DEF Meant
  <2> QED
    BY <2>1, <2>2
<1>14. CASE /\ chunk < doc.chunks /\ chunk' = chunk + 1 /\ step' = "refine"
            /\ resolved' = R /\ nodes' = nodes
  <2>1. TypesHold'
    <3>1. chunk' \in 1..doc.chunks
      BY <1>1, <1>5, <1>14
    <3> QED
      BY <1>3, <1>6, <1>11, <1>14, <3>1 DEF BuildInv, TypesHold
  <2>2. PhasesHold'
    BY <1>2, <1>3, <1>6, <1>14 DEF PhasesHold
  <2>3. CoverHolds'
    BY <1>2, <1>3, <1>14 DEF BuildInv, CoverHolds
  <2>4. UniqueHolds'
    BY <1>2, <1>3, <1>14 DEF BuildInv, UniqueHolds
  <2>5. FreshHolds'
    <3>1. \A i \in DOMAIN R : \E m \in doc.late : doc.chunk[m] < chunk' /\ R[i] = NodeFor(m)'
      <4> TAKE i \in DOMAIN R
      <4>1. PICK m \in doc.late : doc.chunk[m] <= chunk /\ R[i] = NodeFor(m)
        BY <1>6
      <4>2. doc.chunk[m] \in 1..doc.chunks
        BY <1>1, <1>5, DocumentFacts
      <4>3. doc.chunk[m] < chunk'
        BY <1>1, <1>5, <1>14, <4>1, <4>2
      <4>4. NodeFor(m)' = NodeFor(m)
        BY <1>3, NodeForStays
      <4> QED
        BY <4>1, <4>3, <4>4
    <3> QED
      BY <1>2, <1>3, <1>6, <1>14, <3>1 DEF FreshHolds
  <2>6. NamesHold'
    <3>1. Listed' = L
      BY <1>14 DEF Listed
    <3>2. \A id, m : (Carries(nodes, id, m) \/ Carries(R, id, m)) => Carries(L, id, m)
      <4>1. /\ AreNodes(doc, stable, L)
            /\ \A i \in DOMAIN nodes : i \in DOMAIN L /\ L[i] = nodes[i]
            /\ \A j \in DOMAIN R : \E i \in DOMAIN L : L[i] = R[j]
            /\ \A i \in DOMAIN L :
                 (i \in DOMAIN nodes /\ L[i] = nodes[i]) \/ (\E j \in DOMAIN R : L[i] = R[j])
            /\ (Unique(nodes) /\ Unique(R) /\ IdsOf(nodes) \cap IdsOf(R) = {}) => Unique(L)
        BY <1>1, <1>6, Concatenated
      <4> HIDE DEF L
      <4> QED
        BY <4>1 DEF Carries
    <3>3. Blends(doc, nodes') => mixed'
      BY <1>3, MixesBlends
    <3>4. ASSUME ~mixed', NEW e \in edges', ~e.auto
          PROVE  Meant(doc, L, e.src, e.from) /\ Meant(doc, L, e.dst, e.to)
      <4>1. ~mixed
        BY <1>3, <3>4
      <4> HIDE DEF L
      <4> QED
        BY <1>13, <3>2, <3>4, <4>1 DEF Meant
    <3> HIDE DEF L
    <3> QED
      BY <1>3, <1>14, <3>1, <3>3, <3>4 DEF NamesHold
  <2>7. EndsHold'
    BY <1>2, <1>3 DEF EndsHold
  <2> QED
    BY <2>1, <2>2, <2>3, <2>4, <2>5, <2>6, <2>7 DEF BuildInv
<1>15. CASE /\ chunk' = 1 /\ step' = "compare" /\ resolved' = <<>> /\ nodes' = Added(nodes, R)
  <2>1. /\ AreNodes(doc, stable, nodes') /\ HaveProps(doc, nodes') /\ Unique(nodes')
        /\ \A m : Covers(nodes, m) => Covers(nodes', m)
        /\ \A id, m : (Carries(nodes, id, m) \/ Carries(R, id, m)) =>
             (id \in IdsOf(nodes') => Carries(nodes', id, m))
    <3> DEFINE out == Added(nodes, R)
    <3>1. \A i \in DOMAIN R : \E m \in doc.late : R[i] = NodeFor(m)
      BY <1>6
    <3>2. /\ AreNodes(doc, stable, out) /\ HaveProps(doc, out) /\ Unique(out)
          /\ \A m : Covers(nodes, m) => Covers(out, m)
          /\ \A id, m : (Carries(nodes, id, m) \/ Carries(R, id, m)) =>
               (id \in IdsOf(out) => Carries(out, id, m))
      BY <1>2, <1>6, <3>1, MergedNames
    <3>3. nodes' = out
      BY <1>15
    <3> HIDE DEF out
    <3> QED
      BY <3>2, <3>3
  <2>2. AreNodes(doc, stable, <<>>) /\ HaveProps(doc, <<>>)
    BY DEF AreNodes, HaveProps
  <2>3. TypesHold'
    <3>1. chunk' \in 1..doc.chunks
      BY <1>5, <1>15
    <3>2. grouped' \subseteq IdsOf(nodes')
      BY <1>2, <1>3
    <3> QED
      BY <1>1, <1>3, <1>11, <1>15, <2>1, <2>2, <3>1, <3>2 DEF BuildInv, TypesHold
  <2>4. PhasesHold'
    BY <1>2, <1>3, <1>15, <2>1, <2>2 DEF PhasesHold
  <2>5. CoverHolds'
    BY <1>2, <1>3, <1>15, <2>1 DEF BuildInv, CoverHolds
  <2>6. UniqueHolds'
    BY <1>15, <2>1 DEF UniqueHolds
  <2>7. FreshHolds'
    BY <1>15 DEF FreshHolds
  <2>8. NamesHold'
    <3>1. Blends(doc, nodes') => mixed'
      BY <1>3, MixesBlends
    <3>2. ASSUME ~mixed', NEW e \in edges', ~e.auto
          PROVE  /\ e.src \in IdsOf(nodes') => Meant(doc, nodes', e.src, e.from)
                 /\ e.dst \in IdsOf(nodes') => Meant(doc, nodes', e.dst, e.to)
      <4>1. ~mixed
        BY <1>3, <3>2
      <4> QED
        BY <1>13, <2>1, <3>2, <4>1 DEF Meant
    <3> QED
      BY <1>3, <1>15, <3>1, <3>2 DEF NamesHold
  <2>9. EndsHold'
    BY <1>2, <1>3 DEF EndsHold
  <2> QED
    BY <2>3, <2>4, <2>5, <2>6, <2>7, <2>8, <2>9 DEF BuildInv
<1> QED
  BY <1>7, <1>14, <1>15

-----------------------------------------------------------------------------
(* Orphans *)

\* A chunk with an orphan is asked again.
LEMMA RevisitBuild == ASSUME BuildInv, RevisitChunk PROVE BuildInv'
<1>1. /\ doc \in Documents /\ AreNodes(doc, stable, nodes) /\ edges \subseteq Edges(doc)
      /\ revisit \subseteq 1..doc.chunks
  BY DEF BuildInv, TypesHold
<1>2. PICK c \in revisit : edges' \in Extended(nodes, c) /\ revisit' = revisit \ {c}
  BY DEF RevisitChunk
<1>3. /\ step = "orphans" /\ step' = "orphans" /\ chunk' = chunk
      /\ doc' = doc /\ mode' = mode /\ stable' = stable
      /\ UNCHANGED <<nodes, resolved, grouped, mixed, overlap, chained, emptied>>
  BY DEF RevisitChunk, input, accidents
<1>4. /\ edges' \subseteq Edges(doc)
      /\ \A e \in edges' : e \in edges \/
            /\ ~e.auto /\ {e.src, e.dst} \subseteq IdsOf(nodes)
            /\ ~Blends(doc, nodes) => Meant(doc, nodes, e.src, e.from) /\ Meant(doc, nodes, e.dst, e.to)
  <2>1. mode = "single"
    BY <1>3 DEF BuildInv, PhasesHold
  <2>2. EarlyFirst(doc, nodes)
    BY <2>1, NothingLate
  <2> QED
    BY <1>1, <1>2, <2>2, ExtendedEdges
<1>5. TypesHold'
  BY <1>1, <1>2, <1>3, <1>4 DEF BuildInv, TypesHold
<1>6. PhasesHold'
  BY <1>3 DEF BuildInv, PhasesHold
<1>7. CoverHolds'
  BY <1>3 DEF BuildInv, CoverHolds
<1>8. UniqueHolds'
  BY <1>3 DEF BuildInv, UniqueHolds
<1>9. FreshHolds'
  BY <1>3 DEF BuildInv, FreshHolds
<1>10. NamesHold'
  <2>1. Blends(doc, nodes) => mixed
    BY DEF BuildInv, NamesHold
  <2>2. ASSUME ~mixed, NEW e \in edges', ~e.auto
        PROVE  /\ e.src \in IdsOf(nodes) => Meant(doc, nodes, e.src, e.from)
               /\ e.dst \in IdsOf(nodes) => Meant(doc, nodes, e.dst, e.to)
    <3>1. CASE e \in edges
      BY <1>3, <2>2, <3>1 DEF BuildInv, NamesHold
    <3>2. CASE e \notin edges
      BY <1>4, <2>1, <2>2, <3>2
    <3> QED
      BY <3>1, <3>2
  <2> QED
    BY <1>3, <2>1, <2>2 DEF NamesHold
<1>11. EndsHold'
  BY <1>3, <1>4 DEF BuildInv, EndsHold
<1> QED
  BY <1>5, <1>6, <1>7, <1>8, <1>9, <1>10, <1>11 DEF BuildInv

\* Nothing but the step changes.
LEMMA OrphansDoneBuild == ASSUME BuildInv, OrphansDone PROVE BuildInv'
<1>1. /\ step = "orphans" /\ step' = "prune"
      /\ doc' = doc /\ mode' = mode /\ stable' = stable
      /\ UNCHANGED <<chunk, nodes, resolved, grouped, edges, revisit, mixed, overlap, chained, emptied>>
  BY DEF OrphansDone, input, accidents
<1>2. TypesHold'
  BY <1>1 DEF BuildInv, TypesHold
<1>3. PhasesHold'
  BY <1>1 DEF BuildInv, PhasesHold
<1>4. CoverHolds'
  BY <1>1 DEF BuildInv, CoverHolds
<1>5. UniqueHolds'
  BY <1>1 DEF BuildInv, UniqueHolds
<1>6. FreshHolds'
  BY <1>1 DEF BuildInv, FreshHolds
<1>7. NamesHold'
  BY <1>1 DEF BuildInv, NamesHold
<1>8. EndsHold'
  BY <1>1 DEF BuildInv, EndsHold
<1> QED
  BY <1>2, <1>3, <1>4, <1>5, <1>6, <1>7, <1>8 DEF BuildInv

\* A relationship made for an orphan has two nodes of the list.
LEMMA LinkedEnds ==
    ASSUME doc \in Documents, AreNodes(doc, stable, nodes),
           NEW i \in DOMAIN nodes, Cardinality(Partners(i)) = 1
    PROVE  [src |-> nodes[i].id, dst |-> nodes[Min(Partners(i))].id,
            from |-> 0, to |-> 0, auto |-> TRUE] \in Edges(doc)
<1>1. Len(nodes) \in Nat /\ DOMAIN nodes = 1..Len(nodes)
  BY DEF AreNodes
<1>2. Partners(i) \in SUBSET DOMAIN nodes /\ Partners(i) # {}
  <2>1. Partners(i) # {}
    BY FS_EmptySet
  <2> QED
    BY <2>1 DEF Partners
<1>3. Min(Partners(i)) \in DOMAIN nodes
  <2>1. Partners(i) \in SUBSET Nat
    BY <1>1, <1>2
  <2> QED
    BY <1>2, <2>1, LeastOf
<1>4. \A j \in DOMAIN nodes : nodes[j].id \in MentionsOf(doc)
  BY NodeFields DEF AreNodes
<1>5. 0 \in 0..Len(doc.chunk)
  BY DocumentFacts
<1> QED
  BY <1>3, <1>4, <1>5 DEF Edges

\* What goes has no relationship and no properties.
LEMMA PruneBuild == ASSUME BuildInv, PruneOrphans PROVE BuildInv'
<1>1. /\ doc \in Documents /\ mode \in {"single", "multi"} /\ stable \in BOOLEAN
      /\ AreNodes(doc, stable, nodes) /\ edges \subseteq Edges(doc)
  BY DEF BuildInv, TypesHold
<1>2. /\ step = "prune" /\ resolved = <<>> /\ grouped = {}
  BY DEF BuildInv, PhasesHold, PruneOrphans
<1>3. /\ step' = "done" /\ doc' = doc /\ mode' = mode /\ stable' = stable
      /\ UNCHANGED <<chunk, resolved, grouped, revisit, mixed, overlap, chained, emptied>>
  BY DEF PruneOrphans, input, accidents
<1> DEFINE part == \A i \in DOMAIN nodes' : \E j \in DOMAIN nodes : nodes'[i] = nodes[j]
<1>4. /\ AreNodes(doc, stable, nodes') /\ part
      /\ Unique(nodes) => Unique(nodes')
      /\ \A i \in DOMAIN nodes : nodes[i].props => \E j \in DOMAIN nodes' : nodes'[j] = nodes[i]
      /\ \A i \in DOMAIN nodes, e \in edges :
           nodes[i].id \in {e.src, e.dst} => \E j \in DOMAIN nodes' : nodes'[j] = nodes[i]
      /\ edges' \subseteq Edges(doc)
      /\ \A e \in edges' : e \in edges \/ e.auto
  <2>1. CASE edges = {}
    <3>1. nodes' = nodes /\ edges' = edges
      BY <2>1 DEF PruneOrphans
    <3> QED
      BY <1>1, <3>1
  <2>2. CASE edges # {}
    <3> DEFINE linked == {i \in Prunable : Cardinality(Partners(i)) = 1}
               left == DOMAIN nodes \ (Prunable \ linked)
               Link(i) == [src |-> nodes[i].id, dst |-> nodes[Min(Partners(i))].id,
                           from |-> 0, to |-> 0, auto |-> TRUE]
               f == [i \in left |-> nodes[i]]
    <3>1. nodes' = List(f) /\ edges' = edges \cup {Link(i) : i \in linked}
      BY <2>2 DEF PruneOrphans
    <3>2. \A i \in Prunable : i \in DOMAIN nodes /\ ~nodes[i].props
      BY DEF Prunable, Orphans
    <3>3. \A i \in Prunable, e \in edges : nodes[i].id \notin {e.src, e.dst}
      BY DEF Prunable, Orphans
    <3>4. left \in SUBSET Nat /\ IsFiniteSet(left)
      <4>1. Len(nodes) \in Nat /\ DOMAIN nodes = 1..Len(nodes)
        BY <1>1 DEF AreNodes
      <4>2. IsFiniteSet(1..Len(nodes))
        BY <4>1, FS_Interval
      <4>3. left \in SUBSET (1..Len(nodes))
        BY <4>1
      <4>4. left \in SUBSET Nat
        BY <4>1, <4>3
      <4> HIDE DEF left
      <4>5. IsFiniteSet(left)
        BY <4>2, <4>3, FS_Subset
      <4> QED
        BY <4>4, <4>5
    <3>5. \A i \in DOMAIN nodes : i \in left \/ i \in Prunable
      OBVIOUS
    <3>6. \A i \in linked : Link(i) \in Edges(doc) /\ Link(i).auto
      BY <1>1, <3>2, LinkedEnds
    <3>7. DOMAIN f = left /\ \A i \in left : i \in DOMAIN nodes /\ f[i] = nodes[i]
      OBVIOUS
    <3> HIDE DEF linked, left, Link, f
    <3> HIDE DEF part
    <3>8. DOMAIN f = left /\ \A x \in left : IsNode(doc, stable, f[x])
      BY <1>1, <3>7 DEF AreNodes
    <3>9. /\ AreNodes(doc, stable, List(f))
          /\ \A i \in DOMAIN List(f) : \E x \in left : List(f)[i] = f[x]
          /\ \A x \in left : \E i \in DOMAIN List(f) : List(f)[i] = f[x]
          /\ (\A x, y \in left : f[x].id = f[y].id => x = y) => Unique(List(f))
      <4>1. Lists(doc, stable, left, f, List(f))
        BY <3>4, <3>8, ListNodes
      <4> QED
        BY <4>1 DEF Lists
    <3>10. Unique(nodes) => Unique(nodes')
      BY <3>1, <3>7, <3>9 DEF Unique
    <3>11. \A i \in left : \E j \in DOMAIN nodes' : nodes'[j] = nodes[i]
      BY <3>1, <3>7, <3>9
    <3>12. part
      BY <3>1, <3>7, <3>9 DEF part
    <3>13. edges' \subseteq Edges(doc) /\ \A e \in edges' : e \in edges \/ e.auto
      BY <1>1, <3>1, <3>6
    <3>14. AreNodes(doc, stable, nodes')
      BY <3>1, <3>9
    <3> QED
      BY <3>2, <3>3, <3>5, <3>10, <3>11, <3>12, <3>13, <3>14
  <2> QED
    BY <2>1, <2>2
<1>5. TypesHold'
  BY <1>2, <1>3, <1>4 DEF BuildInv, TypesHold
<1>6. PhasesHold'
  BY <1>2, <1>3 DEF PhasesHold
<1>7. CoverHolds'
  <2>1. ASSUME NEW m \in (doc.props \ emptied) \ doc.late
        PROVE  Covers(nodes', m)
    <3>1. m \in MentionsOf(doc)
      BY <1>1, DocumentFacts
    <3>2. PICK i \in DOMAIN nodes : m \in nodes[i].of
      BY <1>2, <3>1 DEF BuildInv, CoverHolds, Covers
    <3>3. nodes[i].props
      BY <1>2, <3>2 DEF BuildInv, CoverHolds
    <3> QED
      BY <1>4, <3>2, <3>3 DEF Covers
  <2> QED
    BY <1>3, <2>1 DEF CoverHolds
<1>8. UniqueHolds'
  BY <1>2, <1>3, <1>4 DEF BuildInv, UniqueHolds
<1>9. FreshHolds'
  BY <1>3 DEF FreshHolds
<1>10. NamesHold'
  <2>1. Blends(doc, nodes') => mixed
    BY <1>4 DEF BuildInv, NamesHold, Blends
  <2>2. ASSUME ~mixed, NEW e \in edges', ~e.auto
        PROVE  /\ e.src \in IdsOf(nodes') => Meant(doc, nodes', e.src, e.from)
               /\ e.dst \in IdsOf(nodes') => Meant(doc, nodes', e.dst, e.to)
    <3>1. e \in edges
      BY <1>4, <2>2
    <3>2. /\ e.src \in IdsOf(nodes) => Meant(doc, nodes, e.src, e.from)
          /\ e.dst \in IdsOf(nodes) => Meant(doc, nodes, e.dst, e.to)
      BY <1>2, <2>2, <3>1 DEF BuildInv, NamesHold
    <3>3. IdsOf(nodes') \subseteq IdsOf(nodes)
      BY <1>4 DEF IdsOf
    <3>4. /\ \A m : Carries(nodes, e.src, m) => Carries(nodes', e.src, m)
          /\ \A m : Carries(nodes, e.dst, m) => Carries(nodes', e.dst, m)
      BY <1>4, <3>1 DEF Carries
    <3> QED
      BY <3>2, <3>3, <3>4 DEF Meant
  <2> QED
    BY <1>3, <2>1, <2>2 DEF NamesHold
<1>11. EndsHold'
  <2>1. ASSUME mode = "single", ~chained, NEW e \in edges', ~e.auto
        PROVE  {e.src, e.dst} \subseteq IdsOf(nodes')
    <3>1. e \in edges
      BY <1>4, <2>1
    <3>2. {e.src, e.dst} \subseteq IdsOf(nodes)
      BY <2>1, <3>1 DEF BuildInv, EndsHold
    <3> QED
      BY <1>4, <3>1, <3>2 DEF IdsOf
  <2> QED
    BY <1>3, <2>1 DEF EndsHold
<1> QED
  BY <1>5, <1>6, <1>7, <1>8, <1>9, <1>10, <1>11 DEF BuildInv

-----------------------------------------------------------------------------
(* Deduplication *)

\* Places of a list that are counted type by type stay apart.
LEMMA WeightsDiffer ==
    ASSUME NEW L \in Nat, NEW a \in Nat, NEW b \in Nat, NEW i \in 1..L, NEW j \in 1..L,
           a * L + i = b * L + j
    PROVE  i = j
<1>1. ASSUME NEW x \in Nat, NEW y \in Nat, x < y
      PROVE  y * L >= x * L + L
  <2>1. PICK n \in Nat : y = x + 1 + n
    <3>1. y - x - 1 \in Nat /\ y = x + 1 + (y - x - 1)
      BY <1>1
    <3> QED
      BY <3>1
  <2>2. y * L = x * L + L + n * L
    BY <2>1
  <2>3. n * L \in Nat /\ x * L \in Nat
    OBVIOUS
  <2> QED
    BY <2>2, <2>3
<1>2. a * L \in Int /\ b * L \in Int
  OBVIOUS
<1>3. CASE a < b
  <2>1. b * L >= a * L + L
    BY <1>1, <1>3
  <2> QED
    BY <1>2, <2>1
<1>4. CASE b < a
  <2>1. a * L >= b * L + L
    BY <1>1, <1>4
  <2> QED
    BY <1>2, <2>1
<1>5. CASE a = b
  BY <1>2, <1>5
<1> QED
  BY <1>3, <1>4, <1>5

\* The nodes in another order.
LEMMA ByTypeNodes ==
    ASSUME doc \in Documents, AreNodes(doc, stable, nodes)
    PROVE  /\ AreNodes(doc, stable, ByType)
           /\ \A i \in DOMAIN ByType : \E j \in DOMAIN nodes : ByType[i] = nodes[j]
           /\ \A j \in DOMAIN nodes : \E i \in DOMAIN ByType : ByType[i] = nodes[j]
           /\ Unique(nodes) => Unique(ByType)
<1> DEFINE L == Len(nodes)
           D == DOMAIN nodes
           Since(t) == Min({i \in DOMAIN nodes : nodes[i].type = t})
           w == [i \in DOMAIN nodes |-> Since(nodes[i].type) * Len(nodes) + i]
           N == Cardinality(D)
<1>1. L \in Nat /\ D = 1..L /\ IsFiniteSet(D) /\ N \in Nat
  BY FS_Interval, FS_CardinalityType DEF AreNodes
<1>2. ASSUME NEW i \in D
      PROVE  Since(nodes[i].type) \in Nat
  <2> DEFINE T == {j \in D : nodes[j].type = nodes[i].type}
  <2>1. T \in SUBSET Nat /\ T # {}
    BY <1>1
  <2> HIDE DEF T
  <2>2. Min(T) \in T
    BY <2>1, LeastOf
  <2>3. Min(T) \in Nat
    BY <2>1, <2>2
  <2> QED
    BY <2>3 DEF T
<1>3. ByType = ListBy(nodes, w)
  BY DEF ByType
<1> HIDE DEF Since
<1>4. \A i \in D : w[i] = Since(nodes[i].type) * L + i /\ w[i] \in Int
  BY <1>1, <1>2
<1>5. \A i, j \in D : w[i] = w[j] => i = j
  <2> SUFFICES ASSUME NEW i \in D, NEW j \in D, w[i] = w[j] PROVE i = j
    OBVIOUS
  <2>1. Since(nodes[i].type) * L + i = Since(nodes[j].type) * L + j
    BY <1>4
  <2>2. /\ Since(nodes[i].type) \in Nat /\ Since(nodes[j].type) \in Nat
        /\ L \in Nat /\ i \in 1..L /\ j \in 1..L
    BY <1>1, <1>2
  <2> QED
    BY <2>1, <2>2, WeightsDiffer
<1>6. w \in [D -> Int]
  BY <1>4
<1> HIDE DEF w
<1>7. /\ ByType = [k \in 1..N |-> ByType[k]]
      /\ \E p \in Bijection(1..N, D) : \A k \in 1..N : ByType[k] = nodes[p[k]]
  BY <1>1, <1>3, <1>5, <1>6, OrderedList
<1>8. DOMAIN ByType = 1..N
  BY <1>7
<1>9. PICK p \in Bijection(1..N, D) : \A k \in 1..N : ByType[k] = nodes[p[k]]
  BY <1>7
<1>10. /\ \A i \in 1..N : p[i] \in D
       /\ \A i, j \in 1..N : p[i] = p[j] => i = j
       /\ \A x \in D : \E i \in 1..N : p[i] = x
  BY <1>9 DEF Bijection, Injection, Surjection, IsInjective
<1>11. \A i \in DOMAIN ByType : \E j \in DOMAIN nodes : ByType[i] = nodes[j]
  BY <1>8, <1>9, <1>10
<1>12. \A j \in DOMAIN nodes : \E i \in DOMAIN ByType : ByType[i] = nodes[j]
  <2> TAKE j \in DOMAIN nodes
  <2>1. PICK i \in 1..N : p[i] = j
    BY <1>10
  <2> QED
    BY <1>8, <1>9, <2>1
<1>13. AreNodes(doc, stable, ByType)
  <2>1. \A i \in DOMAIN ByType : IsNode(doc, stable, ByType[i])
    BY <1>11 DEF AreNodes
  <2>2. \A k \in 1..N : ByType[k] \in NodeSet(doc)
    BY <1>8, <2>1 DEF IsNode
  <2>3. ByType \in Seq(NodeSet(doc))
    <3>1. ByType \in [1..N -> NodeSet(doc)]
      BY <1>7, <2>2
    <3> QED
      BY <1>1, <3>1
  <2> QED
    BY <2>1, <2>3 DEF AreNodes
<1>14. ASSUME Unique(nodes)
       PROVE  Unique(ByType)
  <2> SUFFICES ASSUME NEW i \in 1..N, NEW j \in 1..N, ByType[i].id = ByType[j].id
               PROVE  i = j
    BY <1>8 DEF Unique
  <2>1. p[i] \in D /\ p[j] \in D /\ nodes[p[i]].id = nodes[p[j]].id
    BY <1>9, <1>10
  <2>2. p[i] = p[j]
    BY <1>14, <2>1 DEF Unique
  <2> QED
    BY <1>10, <2>2
<1> QED
  BY <1>11, <1>12, <1>13, <1>14

\* A map of ids to representatives that are not mapped on, of the same type.
Fits(d, ns, map) ==
    \A x \in DOMAIN map :
        /\ x \in IdsOf(ns) /\ map[x] \in IdsOf(ns) /\ map[x] \notin DOMAIN map
        /\ d.type[map[x]] = d.type[x]

\* The first node of a key is mapped to none.
LEMMA HeuristicFits ==
    ASSUME doc \in Documents, AreNodes(doc, stable, nodes)
    PROVE  Fits(doc, nodes, Heuristic)
<1> DEFINE H == Heuristic
           dups == {i \in DOMAIN nodes : nodes[FirstLike(i)].id # nodes[i].id}
<1>1. \A i \in DOMAIN nodes :
        nodes[i].type = doc.type[nodes[i].id] /\ nodes[i].key = doc.key[nodes[i].id]
  BY NodeFields DEF AreNodes
<1>2. ASSUME NEW i \in DOMAIN nodes
      PROVE  FirstLike(i) \in DOMAIN nodes /\ Alike(i, FirstLike(i))
  <2> DEFINE T == {j \in DOMAIN nodes : Alike(i, j)}
  <2>1. T \in SUBSET Nat /\ i \in T
    BY DEF AreNodes, Alike
  <2> HIDE DEF T
  <2>2. Min(T) \in T
    BY <2>1, LeastOf
  <2> QED
    BY <2>2 DEF T, FirstLike
<1>3. ASSUME NEW i \in DOMAIN nodes, NEW k \in DOMAIN nodes, Alike(i, k)
      PROVE  FirstLike(i) = FirstLike(k)
  <2>1. \A j \in DOMAIN nodes : Alike(i, j) <=> Alike(k, j)
    BY <1>3 DEF Alike
  <2>2. {j \in DOMAIN nodes : Alike(i, j)} = {j \in DOMAIN nodes : Alike(k, j)}
    BY <2>1
  <2> QED
    BY <2>2 DEF FirstLike
<1>4. /\ DOMAIN H = {nodes[i].id : i \in dups}
      /\ \A x \in DOMAIN H : H[x] = nodes[FirstLike(CHOOSE i \in dups : nodes[i].id = x)].id
  BY DEF Heuristic
<1>5. ASSUME NEW x \in DOMAIN H
      PROVE  \E i \in dups : nodes[i].id = x /\ H[x] = nodes[FirstLike(i)].id
  <2> DEFINE c == CHOOSE i \in dups : nodes[i].id = x
  <2>1. \E i \in dups : nodes[i].id = x
    BY <1>4
  <2> HIDE DEF dups
  <2>2. c \in dups /\ nodes[c].id = x
    BY <2>1
  <2>3. H[x] = nodes[FirstLike(c)].id
    BY <1>4
  <2> HIDE DEF c, H
  <2> QED
    BY <2>2, <2>3
<1> HIDE DEF H
<1>6. ASSUME NEW x \in DOMAIN H
      PROVE  /\ x \in IdsOf(nodes) /\ H[x] \in IdsOf(nodes) /\ H[x] \notin DOMAIN H
             /\ doc.type[H[x]] = doc.type[x]
  <2>1. PICK i \in dups : nodes[i].id = x /\ H[x] = nodes[FirstLike(i)].id
    BY <1>5
  <2>2. i \in DOMAIN nodes /\ FirstLike(i) \in DOMAIN nodes /\ Alike(i, FirstLike(i))
    BY <1>2
  <2>3. doc.type[H[x]] = doc.type[x]
    BY <1>1, <2>1, <2>2 DEF Alike
  <2>4. ASSUME H[x] \in DOMAIN H
        PROVE  FALSE
    <3>1. PICK k \in dups : nodes[k].id = H[x]
      BY <1>4, <2>4
    <3>2. k \in DOMAIN nodes /\ nodes[FirstLike(k)].id # nodes[k].id
      OBVIOUS
    <3>3. Alike(k, FirstLike(i))
      BY <1>1, <2>1, <2>2, <3>1, <3>2 DEF Alike
    <3>4. FirstLike(k) = FirstLike(FirstLike(i)) /\ FirstLike(i) = FirstLike(FirstLike(i))
      BY <1>3, <2>2, <3>2, <3>3
    <3> QED
      BY <2>1, <3>1, <3>2, <3>4
  <2> QED
    BY <2>1, <2>2, <2>3, <2>4 DEF IdsOf
<1> QED
  BY <1>6 DEF Fits, H

\* What a representative is.
LEMMA RepFacts ==
    ASSUME NEW d, NEW ns, NEW map, Fits(d, ns, map), NEW x \in IdsOf(ns)
    PROVE  /\ Rep(map, x) \in IdsOf(ns) /\ Rep(map, x) \notin DOMAIN map
           /\ d.type[Rep(map, x)] = d.type[x] /\ Rep(map, Rep(map, x)) = Rep(map, x)
BY DEF Fits, Rep

\* What is left for a place of the list that is its representative's first.
LEMMA RepresentedNode ==
    ASSUME NEW d \in Documents, NEW s, NEW ns, AreNodes(d, s, ns), NEW map, Fits(d, ns, map),
           NEW i \in DOMAIN ns
    PROVE  LET n == Represented(ns, map, i) IN
           /\ IsNode(d, s, n) /\ n.id = Rep(map, ns[i].id)
           /\ \A j \in DOMAIN ns :
                Rep(map, ns[j].id) = Rep(map, ns[i].id) => ns[j].of \subseteq n.of
           /\ \A m \in n.of : Covers(ns, m)
<1> DEFINE rep == Rep(map, ns[i].id)
           A == {j \in DOMAIN ns : Rep(map, ns[j].id) = rep}
           T == {j \in DOMAIN ns : ns[j].id = rep}
           OF == UNION {ns[j].of : j \in A}
           n == Represented(ns, map, i)
<1>1. \A j \in DOMAIN ns : ns[j].id \in IdsOf(ns)
  BY DEF IdsOf
<1>2. /\ rep \in IdsOf(ns) /\ rep \notin DOMAIN map
      /\ d.type[rep] = d.type[ns[i].id] /\ Rep(map, rep) = rep
  BY <1>1, RepFacts
<1>3. T \in SUBSET (0..Len(ns)) /\ T # {} /\ Len(ns) \in Nat
  BY <1>2 DEF IdsOf, AreNodes
<1>4. Max(T) \in T
  BY <1>3, GreatestOf
<1> DEFINE q == Max(T)
           a == ns[q]
<1>5. n = [a EXCEPT !.of = OF]
  BY DEF Represented
<1>6. q \in DOMAIN ns /\ a.id = rep
  BY <1>4
<1>7. q \in A
  BY <1>2, <1>6
<1>8. a.of \subseteq OF
  BY <1>7
<1> HIDE DEF q, T
<1>9. IsNode(d, s, a)
  BY <1>6 DEF AreNodes
<1>10. /\ a = [id |-> a.id, type |-> a.type, key |-> a.key, text |-> a.text,
               aliases |-> a.aliases, chunks |-> a.chunks, props |-> a.props, of |-> a.of]
       /\ a.type = d.type[a.id]
  BY <1>9, NodeFields
<1>11. ASSUME NEW j \in A
       PROVE  ns[j].of \subseteq MentionsOf(d) /\ \A m \in ns[j].of : d.type[m] = a.type
  <2>1. j \in DOMAIN ns /\ IsNode(d, s, ns[j])
    BY DEF AreNodes
  <2>2. ns[j].type = d.type[ns[j].id]
    BY <2>1, NodeFields
  <2>3. d.type[Rep(map, ns[j].id)] = d.type[ns[j].id]
    BY <1>1, <2>1, RepFacts
  <2>4. ns[j].type = a.type
    BY <1>6, <1>10, <2>2, <2>3
  <2>5. ns[j].of \subseteq MentionsOf(d) /\ \A m \in ns[j].of : d.type[m] = ns[j].type
    BY <2>1, NodeFields, NodeParts
  <2> QED
    BY <2>4, <2>5
<1>12. OF \subseteq MentionsOf(d) /\ \A m \in OF : d.type[m] = a.type /\ Covers(ns, m)
  BY <1>11 DEF Covers
<1>13. \A j \in DOMAIN ns : Rep(map, ns[j].id) = rep => ns[j].of \subseteq OF
  OBVIOUS
<1> HIDE DEF OF, n, a
<1>14. /\ n.id = a.id /\ n.type = a.type /\ n.key = a.key /\ n.text = a.text
       /\ n.aliases = a.aliases /\ n.chunks = a.chunks /\ n.of = OF
  BY <1>5, <1>10
<1>15. n \in NodeSet(d)
  <2>1. a \in NodeSet(d)
    BY <1>9 DEF IsNode
  <2> QED
    BY <1>5, <1>12, <2>1 DEF NodeSet
<1>16. IsNode(d, s, n)
  <2>1. /\ a.aliases \subseteq {d.alias[m] : m \in a.of}
        /\ a.chunks \subseteq {d.chunk[m] : m \in a.of}
    BY <1>9, NodeParts
  <2>2. /\ n.aliases \subseteq {d.alias[m] : m \in n.of}
        /\ n.chunks \subseteq {d.chunk[m] : m \in n.of}
        /\ \A m \in n.of : d.type[m] = n.type
        /\ a.of \subseteq n.of /\ a.chunks \subseteq n.chunks
    BY <1>8, <1>12, <1>14, <2>1
  <2> QED
    BY <1>9, <1>14, <1>15, <2>2, GrownNode
<1>17. n.id = rep
  BY <1>6, <1>14
<1> QED
  BY <1>12, <1>13, <1>14, <1>16, <1>17 DEF n

\* What a map of duplicates to representatives leaves of a list.
Replaces(d, s, ns, map, out) ==
    /\ AreNodes(d, s, out)
    /\ \A j \in DOMAIN ns : \E i \in DOMAIN out :
         out[i].id = Rep(map, ns[j].id) /\ ns[j].of \subseteq out[i].of
    /\ \A i \in DOMAIN out : \E j \in DOMAIN ns : out[i].id = Rep(map, ns[j].id)
    /\ \A i \in DOMAIN out : \A m \in out[i].of : Covers(ns, m)
    /\ Unique(ns) => Unique(out)

\* Reduced leaves one node for all of one representative.
LEMMA ReducedReplaces ==
    ASSUME NEW d \in Documents, NEW s, NEW ns, AreNodes(d, s, ns), NEW map, Fits(d, ns, map)
    PROVE  Replaces(d, s, ns, map, Reduced(ns, map))
<1> DEFINE types == Mapped(ns, map)
           left == {i \in DOMAIN ns : ns[i].type \in types =>
                       \A j \in DOMAIN ns : Rep(map, ns[j].id) = Rep(map, ns[i].id) => i <= j}
           f == [i \in left |-> IF ns[i].type \in types THEN Represented(ns, map, i) ELSE ns[i]]
           out == Reduced(ns, map)
<1>1. Len(ns) \in Nat /\ DOMAIN ns = 1..Len(ns) /\ \A i \in DOMAIN ns : IsNode(d, s, ns[i])
  BY DEF AreNodes
<1>2. \A i \in DOMAIN ns : ns[i].id \in IdsOf(ns) /\ ns[i].type = d.type[ns[i].id]
  BY <1>1, NodeFields DEF IdsOf
<1>3. \A i \in DOMAIN ns : ns[i].id \in DOMAIN map => ns[i].type \in types
  BY DEF Mapped
<1>4. \A i \in DOMAIN ns : ns[i].type \notin types => Rep(map, ns[i].id) = ns[i].id
  BY <1>3 DEF Rep
<1>5. \A i, j \in DOMAIN ns : Rep(map, ns[i].id) = Rep(map, ns[j].id) => ns[i].type = ns[j].type
  <2> TAKE i, j \in DOMAIN ns
  <2>1. d.type[Rep(map, ns[i].id)] = d.type[ns[i].id] /\ d.type[Rep(map, ns[j].id)] = d.type[ns[j].id]
    BY <1>2, RepFacts
  <2> QED
    BY <1>2, <2>1
<1> HIDE DEF types
<1>6. left \in SUBSET Nat /\ IsFiniteSet(left)
  <2>1. left \in SUBSET (1..Len(ns)) /\ IsFiniteSet(1..Len(ns))
    BY <1>1, FS_Interval
  <2> HIDE DEF left
  <2>2. left \in SUBSET Nat
    BY <1>1, <2>1
  <2>3. IsFiniteSet(left)
    BY <2>1, FS_Subset
  <2> QED
    BY <2>2, <2>3
<1>7. /\ DOMAIN f = left
      /\ \A i \in left : ns[i].type \in types => f[i] = Represented(ns, map, i)
      /\ \A i \in left : ns[i].type \notin types => f[i] = ns[i]
  OBVIOUS
<1>8. /\ \A i \in left : i \in DOMAIN ns
      /\ \A i \in left : ns[i].type \in types =>
           \A j \in DOMAIN ns : Rep(map, ns[j].id) = Rep(map, ns[i].id) => i <= j
      /\ \A i \in DOMAIN ns : ns[i].type \notin types => i \in left
      /\ \A i \in DOMAIN ns :
           (\A j \in DOMAIN ns : Rep(map, ns[j].id) = Rep(map, ns[i].id) => i <= j) => i \in left
  OBVIOUS
<1>9. out = List(f)
  BY DEF Reduced, types
<1> HIDE DEF f, left, out
<1>10. ASSUME NEW i \in left
       PROVE  /\ IsNode(d, s, f[i]) /\ f[i].id = Rep(map, ns[i].id)
              /\ ns[i].of \subseteq f[i].of /\ \A m \in f[i].of : Covers(ns, m)
              /\ ns[i].type \in types => \A j \in DOMAIN ns :
                    Rep(map, ns[j].id) = Rep(map, ns[i].id) => ns[j].of \subseteq f[i].of
  <2>1. i \in DOMAIN ns
    BY <1>8
  <2>2. CASE ns[i].type \in types
    BY <1>7, <2>1, <2>2, RepresentedNode
  <2>3. CASE ns[i].type \notin types
    BY <1>1, <1>4, <1>7, <2>1, <2>3 DEF Covers
  <2> QED
    BY <2>2, <2>3
<1>11. /\ AreNodes(d, s, out)
       /\ \A i \in DOMAIN out : \E x \in left : out[i] = f[x]
       /\ \A x \in left : \E i \in DOMAIN out : out[i] = f[x]
       /\ (\A x, y \in left : f[x].id = f[y].id => x = y) => Unique(out)
  <2>1. DOMAIN f = left /\ \A x \in left : IsNode(d, s, f[x])
    BY <1>7, <1>10
  <2>2. Lists(d, s, left, f, out)
    BY <1>6, <1>9, <2>1, ListNodes
  <2> QED
    BY <2>2 DEF Lists
<1>12. ASSUME NEW j \in DOMAIN ns
       PROVE  \E i \in left : f[i].id = Rep(map, ns[j].id) /\ ns[j].of \subseteq f[i].of
  <2>1. CASE ns[j].type \notin types
    <3>1. j \in left
      BY <1>8, <2>1
    <3> QED
      BY <1>10, <3>1
  <2>2. CASE ns[j].type \in types
    <3> DEFINE S == {k \in DOMAIN ns : Rep(map, ns[k].id) = Rep(map, ns[j].id)}
    <3>1. S \in SUBSET Nat /\ S # {}
      BY <1>1
    <3> HIDE DEF S
    <3>2. PICK i \in S : \A k \in S : i <= k
      BY <3>1, HasLeast
    <3>3. i \in DOMAIN ns /\ Rep(map, ns[i].id) = Rep(map, ns[j].id)
      BY DEF S
    <3>4. \A k \in DOMAIN ns : Rep(map, ns[k].id) = Rep(map, ns[i].id) => i <= k
      BY <3>2, <3>3 DEF S
    <3>5. i \in left
      BY <1>8, <3>3, <3>4
    <3>6. ns[i].type \in types
      BY <1>5, <2>2, <3>3
    <3> QED
      BY <1>10, <3>3, <3>5, <3>6
  <2> QED
    BY <2>1, <2>2
<1>13. \A j \in DOMAIN ns : \E i \in DOMAIN out :
         out[i].id = Rep(map, ns[j].id) /\ ns[j].of \subseteq out[i].of
  <2> TAKE j \in DOMAIN ns
  <2>1. PICK x \in left : f[x].id = Rep(map, ns[j].id) /\ ns[j].of \subseteq f[x].of
    BY <1>12
  <2>2. PICK i \in DOMAIN out : out[i] = f[x]
    BY <1>11
  <2> QED
    BY <2>1, <2>2
<1>14. \A i \in DOMAIN out : \E j \in DOMAIN ns : out[i].id = Rep(map, ns[j].id)
  BY <1>8, <1>10, <1>11
<1>15. \A i \in DOMAIN out : \A m \in out[i].of : Covers(ns, m)
  BY <1>10, <1>11
<1>16. ASSUME Unique(ns)
       PROVE  Unique(out)
  <2>1. ASSUME NEW x \in left, NEW y \in left, f[x].id = f[y].id
        PROVE  x = y
    <3>1. x \in DOMAIN ns /\ y \in DOMAIN ns /\ Rep(map, ns[x].id) = Rep(map, ns[y].id)
      BY <1>8, <1>10, <2>1
    <3>2. ns[x].type = ns[y].type
      BY <1>5, <3>1
    <3>3. CASE ns[x].type \in types
      <4>1. x <= y /\ y <= x
        BY <1>8, <3>1, <3>2, <3>3
      <4>2. x \in Nat /\ y \in Nat
        BY <1>1, <3>1
      <4> QED
        BY <4>1, <4>2
    <3>4. CASE ns[x].type \notin types
      <4>1. ns[x].id = ns[y].id
        BY <1>4, <3>1, <3>2, <3>4
      <4> QED
        BY <1>16, <3>1, <4>1 DEF Unique
    <3> QED
      BY <3>3, <3>4
  <2> QED
    BY <1>11, <2>1
<1> QED
  BY <1>11, <1>13, <1>14, <1>15, <1>16 DEF Replaces, out

\* Splink maps one node of what is left to another.
LEMMA MatchFits ==
    ASSUME doc \in Documents, NEW left, left = Reduced(ByType, Heuristic),
           AreNodes(doc, stable, left), NEW match \in Matches
    PROVE  Fits(doc, left, match)
<1>1. CASE match = NoMatch
  BY <1>1 DEF NoMatch, Fits
<1>2. CASE match # NoMatch
  <2>1. PICK p \in (DOMAIN left) \X (DOMAIN left) :
          /\ match = [z \in {left[p[1]].id} |-> left[p[2]].id]
          /\ left[p[1]].type = left[p[2]].type /\ left[p[1]].id # left[p[2]].id
    BY <1>2 DEF Matches
  <2> DEFINE x == left[p[1]].id
             y == left[p[2]].id
  <2>2. p[1] \in DOMAIN left /\ p[2] \in DOMAIN left
    BY <2>1
  <2>3. x \in IdsOf(left) /\ y \in IdsOf(left) /\ x # y
    BY <2>1, <2>2 DEF IdsOf
  <2>4. doc.type[x] = left[p[1]].type /\ doc.type[y] = left[p[2]].type
    BY <2>2, NodeFields DEF AreNodes
  <2>5. match = [z \in {x} |-> y]
    BY <2>1
  <2>6. doc.type[x] = doc.type[y]
    BY <2>1, <2>4
  <2> HIDE DEF x, y
  <2>7. DOMAIN match = {x} /\ match[x] = y
    BY <2>5
  <2> QED
    BY <2>3, <2>6, <2>7 DEF Fits
<1> QED
  BY <1>1, <1>2

\* Mapped once or twice, an end goes to one node, unless its representative is
\* mapped on: then it is no node's.
LEMMA MappedOnce ==
    ASSUME NEW d, NEW a, NEW b, NEW h, NEW g, Fits(d, a, h), Fits(d, b, g),
           IdsOf(b) \subseteq {Rep(h, x) : x \in IdsOf(a)}, NEW x
    PROVE  LET r == Rep(Updated(h, g), x) IN
           /\ r = x \/ r \in IdsOf(a)
           /\ x \notin IdsOf(a) => r = x
           /\ \/ r = Rep(g, Rep(h, x))
              \/ r \in DOMAIN g /\ x \in DOMAIN h /\ h[x] \in DOMAIN g
<1>1. IdsOf(b) \subseteq IdsOf(a) /\ IdsOf(b) \cap DOMAIN h = {}
  BY RepFacts
<1>2. DOMAIN h \subseteq IdsOf(a) /\ DOMAIN g \subseteq IdsOf(b)
  BY DEF Fits
<1>3. /\ DOMAIN Updated(h, g) = DOMAIN g \cup DOMAIN h
      /\ \A y \in DOMAIN g : Updated(h, g)[y] = g[y]
      /\ \A y \in DOMAIN h : y \notin DOMAIN g => Updated(h, g)[y] = h[y]
  BY DEF Updated
<1>4. CASE x \in DOMAIN g
  <2>1. Rep(Updated(h, g), x) = g[x] /\ Rep(h, x) = x /\ Rep(g, x) = g[x]
    BY <1>1, <1>2, <1>3, <1>4 DEF Rep
  <2>2. g[x] \in IdsOf(a) /\ x \in IdsOf(a)
    BY <1>1, <1>2, <1>4 DEF Fits
  <2> QED
    BY <2>1, <2>2
<1>5. CASE x \notin DOMAIN g /\ x \in DOMAIN h
  <2>1. Rep(Updated(h, g), x) = h[x] /\ Rep(h, x) = h[x]
    BY <1>3, <1>5 DEF Rep
  <2>2. h[x] \in IdsOf(a) /\ x \in IdsOf(a)
    BY <1>2, <1>5 DEF Fits
  <2>3. h[x] \notin DOMAIN g => Rep(g, h[x]) = h[x]
    BY DEF Rep
  <2> QED
    BY <1>5, <2>1, <2>2, <2>3
<1>6. CASE x \notin DOMAIN g /\ x \notin DOMAIN h
  <2>1. Rep(Updated(h, g), x) = x /\ Rep(h, x) = x /\ Rep(g, x) = x
    BY <1>3, <1>6 DEF Rep
  <2> QED
    BY <2>1
<1> QED
  BY <1>4, <1>5, <1>6

\* What is left of the nodes after both passes, and where the ends have gone.
LEMMA DedupedNodes ==
    ASSUME doc \in Documents, AreNodes(doc, stable, nodes), NEW match \in Matches,
           NEW out, out = Reduced(Reduced(ByType, Heuristic), match)
    PROVE  /\ AreNodes(doc, stable, out) /\ (Unique(nodes) => Unique(out))
           /\ \A m : Covers(nodes, m) <=> Covers(out, m)
           /\ \A x : LET r == Rep(Updated(Heuristic, match), x) IN
                /\ r = x \/ r \in IdsOf(nodes)
                /\ r \in IdsOf(out) =>
                     x \in IdsOf(nodes) /\ \A m : Carries(nodes, x, m) => Carries(out, r, m)
                /\ x \in IdsOf(nodes) =>
                     r \in IdsOf(out) \/ \E y \in DOMAIN Heuristic : Heuristic[y] \in DOMAIN match
<1> DEFINE H == Heuristic
           B == ByType
           L == Reduced(B, H)
<1>1. /\ AreNodes(doc, stable, B)
      /\ \A i \in DOMAIN B : \E j \in DOMAIN nodes : B[i] = nodes[j]
      /\ \A j \in DOMAIN nodes : \E i \in DOMAIN B : B[i] = nodes[j]
      /\ Unique(nodes) => Unique(B)
  BY ByTypeNodes
<1>2. Fits(doc, nodes, H)
  BY HeuristicFits
<1>3. out = Reduced(L, match)
  OBVIOUS
<1> HIDE DEF B
<1>4. IdsOf(B) = IdsOf(nodes)
  <2>1. IdsOf(B) \subseteq IdsOf(nodes)
    BY <1>1 DEF IdsOf
  <2>2. IdsOf(nodes) \subseteq IdsOf(B)
    BY <1>1 DEF IdsOf
  <2> QED
    BY <2>1, <2>2
<1> HIDE DEF H
<1>5. Fits(doc, B, H)
  BY <1>2, <1>4 DEF Fits
<1>6. Replaces(doc, stable, B, H, L)
  BY <1>1, <1>5, ReducedReplaces
<1>7. AreNodes(doc, stable, L)
  BY <1>6 DEF Replaces
<1>8. Fits(doc, L, match)
  <2>1. L = Reduced(ByType, Heuristic)
    BY DEF B, H
  <2> HIDE DEF L
  <2> QED
    BY <1>7, <2>1, MatchFits
<1> HIDE DEF L
<1>9. Replaces(doc, stable, L, match, out)
  BY <1>3, <1>7, <1>8, ReducedReplaces
<1>10. AreNodes(doc, stable, out) /\ (Unique(nodes) => Unique(out))
  BY <1>1, <1>6, <1>9 DEF Replaces
<1>11. \A m : Covers(nodes, m) <=> Covers(out, m)
  <2>1. \A m : Covers(nodes, m) <=> Covers(B, m)
    BY <1>1 DEF Covers
  <2>2. \A m : Covers(B, m) <=> Covers(L, m)
    BY <1>6 DEF Replaces, Covers
  <2>3. \A m : Covers(L, m) <=> Covers(out, m)
    BY <1>9 DEF Replaces, Covers
  <2> QED
    BY <2>1, <2>2, <2>3
<1>12. \A x, m : Carries(nodes, x, m) => Carries(out, Rep(match, Rep(H, x)), m)
  <2>1. \A x, m : Carries(nodes, x, m) => Carries(B, x, m)
    BY <1>1 DEF Carries
  <2>2. \A x, m : Carries(B, x, m) => Carries(L, Rep(H, x), m)
    BY <1>6 DEF Replaces, Carries
  <2>3. \A x, m : Carries(L, x, m) => Carries(out, Rep(match, x), m)
    BY <1>9 DEF Replaces, Carries
  <2> QED
    BY <2>1, <2>2, <2>3
<1>13. IdsOf(L) = {Rep(H, x) : x \in IdsOf(nodes)}
  <2>1. IdsOf(L) \subseteq {Rep(H, x) : x \in IdsOf(B)}
    BY <1>6 DEF Replaces, IdsOf
  <2>2. \A x \in IdsOf(B) : Rep(H, x) \in IdsOf(L)
    BY <1>6 DEF Replaces, IdsOf
  <2> QED
    BY <1>4, <2>1, <2>2
<1>14. IdsOf(out) = {Rep(match, x) : x \in IdsOf(L)}
  <2>1. IdsOf(out) \subseteq {Rep(match, x) : x \in IdsOf(L)}
    BY <1>9 DEF Replaces, IdsOf
  <2>2. \A x \in IdsOf(L) : Rep(match, x) \in IdsOf(out)
    BY <1>9 DEF Replaces, IdsOf
  <2> QED
    BY <2>1, <2>2
<1>15. IdsOf(out) \subseteq IdsOf(nodes) /\ IdsOf(out) \cap DOMAIN match = {}
  <2>1. \A x \in IdsOf(L) : Rep(match, x) \in IdsOf(L) /\ Rep(match, x) \notin DOMAIN match
    BY <1>8, RepFacts
  <2>2. \A x \in IdsOf(nodes) : Rep(H, x) \in IdsOf(nodes)
    BY <1>2, RepFacts
  <2> QED
    BY <1>13, <1>14, <2>1, <2>2
<1>16. ASSUME NEW x
       PROVE  LET r == Rep(Updated(H, match), x) IN
              /\ r = x \/ r \in IdsOf(nodes)
              /\ r \in IdsOf(out) =>
                   x \in IdsOf(nodes) /\ \A m : Carries(nodes, x, m) => Carries(out, r, m)
              /\ x \in IdsOf(nodes) =>
                   r \in IdsOf(out) \/ \E y \in DOMAIN H : H[y] \in DOMAIN match
  <2> DEFINE r == Rep(Updated(H, match), x)
  <2>1. IdsOf(L) \subseteq {Rep(H, y) : y \in IdsOf(nodes)}
    BY <1>13
  <2>2. /\ r = x \/ r \in IdsOf(nodes)
        /\ x \notin IdsOf(nodes) => r = x
        /\ \/ r = Rep(match, Rep(H, x))
           \/ r \in DOMAIN match /\ x \in DOMAIN H /\ H[x] \in DOMAIN match
    BY <1>2, <1>8, <2>1, MappedOnce
  <2> HIDE DEF r
  <2>3. ASSUME r \in IdsOf(out)
        PROVE  x \in IdsOf(nodes) /\ \A m : Carries(nodes, x, m) => Carries(out, r, m)
    <3>1. r = Rep(match, Rep(H, x))
      BY <1>15, <2>2, <2>3
    <3> QED
      BY <1>12, <1>15, <2>2, <2>3, <3>1
  <2>4. ASSUME x \in IdsOf(nodes)
        PROVE  r \in IdsOf(out) \/ \E y \in DOMAIN H : H[y] \in DOMAIN match
    <3>1. Rep(match, Rep(H, x)) \in IdsOf(out)
      BY <1>13, <1>14, <2>4
    <3> QED
      BY <2>2, <3>1
  <2> QED
    BY <2>2, <2>3, <2>4 DEF r
<1> QED
  BY <1>10, <1>11, <1>16 DEF H

\* Nodes and ends are mapped alike, or nothing is.
LEMMA DeduplicateBuild == ASSUME BuildInv, Deduplicate PROVE BuildInv'
<1>1. /\ doc \in Documents /\ mode \in {"single", "multi"} /\ stable \in BOOLEAN
      /\ AreNodes(doc, stable, nodes) /\ edges \subseteq Edges(doc) /\ chained \in BOOLEAN
      /\ revisit \subseteq 1..doc.chunks
  BY DEF BuildInv, TypesHold
<1>2. /\ step = "dedup" /\ resolved = <<>> /\ grouped = {} /\ ~chained /\ HaveProps(doc, nodes)
  BY DEF BuildInv, PhasesHold, Deduplicate
<1>3. /\ doc' = doc /\ mode' = mode /\ stable' = stable
      /\ UNCHANGED <<chunk, resolved, grouped, overlap>>
      /\ mixed' = (mixed \/ Mixes(nodes'))
      /\ emptied' = {m \in doc.props :
                      /\ \E i \in DOMAIN nodes : m \in nodes[i].of /\ nodes[i].props
                      /\ \E i \in DOMAIN nodes' : m \in nodes'[i].of /\ ~nodes'[i].props}
  BY DEF Deduplicate, input
<1>4. IF mode = "single"
      THEN step' = "orphans" /\ revisit' = UNION {nodes'[i].chunks : i \in Orphans(nodes', edges')}
      ELSE step' = "prune" /\ revisit' = revisit
  BY DEF Deduplicate
\* What the mapping, or the exception that leaves all as it was, does to the lists.
<1>5. /\ AreNodes(doc, stable, nodes') /\ (Unique(nodes) => Unique(nodes'))
      /\ \A m : Covers(nodes, m) <=> Covers(nodes', m)
      /\ chained' \in BOOLEAN /\ edges' \subseteq Edges(doc)
      /\ \A e \in edges' : \E o \in edges :
            /\ e.auto = o.auto /\ e.from = o.from /\ e.to = o.to
            /\ e.src \in IdsOf(nodes') =>
                 o.src \in IdsOf(nodes) /\ \A m : Carries(nodes, o.src, m) => Carries(nodes', e.src, m)
            /\ e.dst \in IdsOf(nodes') =>
                 o.dst \in IdsOf(nodes) /\ \A m : Carries(nodes, o.dst, m) => Carries(nodes', e.dst, m)
            /\ (o.src \in IdsOf(nodes) /\ ~chained') => e.src \in IdsOf(nodes')
            /\ (o.dst \in IdsOf(nodes) /\ ~chained') => e.dst \in IdsOf(nodes')
  <2>1. CASE UNCHANGED <<nodes, edges, chained>>
    <3>1. nodes' = nodes /\ edges' = edges /\ chained' = chained
      BY <1>2, <2>1
    <3>2. ASSUME NEW e \in edges'
          PROVE  /\ e \in edges
                 /\ e.src \in IdsOf(nodes') =>
                      e.src \in IdsOf(nodes) /\ \A m : Carries(nodes, e.src, m) => Carries(nodes', e.src, m)
                 /\ e.dst \in IdsOf(nodes') =>
                      e.dst \in IdsOf(nodes) /\ \A m : Carries(nodes, e.dst, m) => Carries(nodes', e.dst, m)
                 /\ e.src \in IdsOf(nodes) => e.src \in IdsOf(nodes')
                 /\ e.dst \in IdsOf(nodes) => e.dst \in IdsOf(nodes')
      BY <3>1
    <3>3. /\ AreNodes(doc, stable, nodes') /\ (Unique(nodes) => Unique(nodes'))
          /\ \A m : Covers(nodes, m) <=> Covers(nodes', m)
          /\ chained' \in BOOLEAN /\ edges' \subseteq Edges(doc)
      BY <1>1, <3>1
    <3> QED
      BY <3>2, <3>3
  <2>2. CASE \E match \in Matches :
               /\ nodes' = Reduced(Reduced(ByType, Heuristic), match)
               /\ edges' = Rewritten(Updated(Heuristic, match))
               /\ chained' = (\E x \in DOMAIN Heuristic : Heuristic[x] \in DOMAIN match)
    <3>1. PICK match \in Matches :
            /\ nodes' = Reduced(Reduced(ByType, Heuristic), match)
            /\ edges' = Rewritten(Updated(Heuristic, match))
            /\ chained' = (\E x \in DOMAIN Heuristic : Heuristic[x] \in DOMAIN match)
      BY <2>2
    <3> DEFINE map == Updated(Heuristic, match)
               To(x) == Rep(map, x)
               Moved(e) == [e EXCEPT !.src = To(@), !.dst = To(@)]
    <3>2. /\ AreNodes(doc, stable, nodes') /\ (Unique(nodes) => Unique(nodes'))
          /\ \A m : Covers(nodes, m) <=> Covers(nodes', m)
          /\ \A x :
                /\ To(x) = x \/ To(x) \in IdsOf(nodes)
                /\ To(x) \in IdsOf(nodes') =>
                     x \in IdsOf(nodes) /\ \A m : Carries(nodes, x, m) => Carries(nodes', To(x), m)
                /\ x \in IdsOf(nodes) =>
                     To(x) \in IdsOf(nodes') \/ \E y \in DOMAIN Heuristic : Heuristic[y] \in DOMAIN match
      <4> DEFINE out == Reduced(Reduced(ByType, Heuristic), match)
      <4>1. /\ AreNodes(doc, stable, out) /\ (Unique(nodes) => Unique(out))
            /\ \A m : Covers(nodes, m) <=> Covers(out, m)
            /\ \A x : LET r == Rep(Updated(Heuristic, match), x) IN
                 /\ r = x \/ r \in IdsOf(nodes)
                 /\ r \in IdsOf(out) =>
                      x \in IdsOf(nodes) /\ \A m : Carries(nodes, x, m) => Carries(out, r, m)
                 /\ x \in IdsOf(nodes) =>
                      r \in IdsOf(out) \/ \E y \in DOMAIN Heuristic : Heuristic[y] \in DOMAIN match
        BY <1>1, DedupedNodes
      <4>2. nodes' = out
        BY <3>1
      <4> HIDE DEF out
      <4> QED
        BY <4>1, <4>2
    <3>3. \A e \in edges' : \E o \in edges : e = Moved(o)
      BY <3>1 DEF Rewritten
    <3> HIDE DEF To
    <3>4. \A o \in Edges(doc) :
            /\ o.src \in MentionsOf(doc) /\ o.dst \in MentionsOf(doc)
            /\ Moved(o) = [src |-> To(o.src), dst |-> To(o.dst), from |-> o.from, to |-> o.to, auto |-> o.auto]
      <4> TAKE o \in Edges(doc)
      <4>1. /\ o.src \in MentionsOf(doc) /\ o.dst \in MentionsOf(doc)
            /\ o = [src |-> o.src, dst |-> o.dst, from |-> o.from, to |-> o.to, auto |-> o.auto]
        BY DEF Edges
      <4>2. Moved(o) = [o EXCEPT !.src = To(o.src), !.dst = To(o.dst)]
        OBVIOUS
      <4> HIDE DEF Moved
      <4> QED
        BY <4>1, <4>2
    <3>5. \A o \in Edges(doc) :
            /\ Moved(o).src = To(o.src) /\ Moved(o).dst = To(o.dst)
            /\ Moved(o).from = o.from /\ Moved(o).to = o.to /\ Moved(o).auto = o.auto
      BY <3>4
    <3>6. \A x \in MentionsOf(doc) : To(x) \in MentionsOf(doc)
      <4>1. IdsOf(nodes) \subseteq MentionsOf(doc)
        BY <1>1, NodeFields DEF IdsOf, AreNodes
      <4> QED
        BY <3>2, <4>1
    <3>7. \A o \in Edges(doc) : Moved(o) \in Edges(doc)
      BY <3>6 DEF Edges
    <3> HIDE DEF Moved
    <3>8. edges' \subseteq Edges(doc)
      BY <1>1, <3>3, <3>7
    <3>9. chained' \in BOOLEAN /\ (~chained' => ~\E x \in DOMAIN Heuristic : Heuristic[x] \in DOMAIN match)
      BY <3>1
    <3>10. ASSUME NEW e \in edges'
           PROVE  \E o \in edges :
              /\ e.auto = o.auto /\ e.from = o.from /\ e.to = o.to
              /\ e.src \in IdsOf(nodes') =>
                   o.src \in IdsOf(nodes) /\ \A m : Carries(nodes, o.src, m) => Carries(nodes', e.src, m)
              /\ e.dst \in IdsOf(nodes') =>
                   o.dst \in IdsOf(nodes) /\ \A m : Carries(nodes, o.dst, m) => Carries(nodes', e.dst, m)
              /\ (o.src \in IdsOf(nodes) /\ ~chained') => e.src \in IdsOf(nodes')
              /\ (o.dst \in IdsOf(nodes) /\ ~chained') => e.dst \in IdsOf(nodes')
      <4>1. PICK o \in edges : e = Moved(o)
        BY <3>3
      <4>2. /\ e.src = To(o.src) /\ e.dst = To(o.dst)
            /\ e.from = o.from /\ e.to = o.to /\ e.auto = o.auto
        BY <1>1, <3>5, <4>1
      <4> QED
        BY <3>2, <3>9, <4>2
    <3> QED
      BY <3>2, <3>8, <3>9, <3>10
  <2> QED
    BY <2>1, <2>2 DEF Deduplicate
<1>6. TypesHold'
  <2>1. revisit' \subseteq 1..doc.chunks
    <3>1. \A i \in DOMAIN nodes' : nodes'[i].chunks \subseteq 1..doc.chunks
      BY <1>5, NodeFields DEF AreNodes
    <3>2. Orphans(nodes', edges') \subseteq DOMAIN nodes'
      BY DEF Orphans
    <3>3. CASE mode = "single"
      <4>1. revisit' = UNION {nodes'[i].chunks : i \in Orphans(nodes', edges')}
        BY <1>4, <3>3
      <4> QED
        BY <3>1, <3>2, <4>1
    <3>4. CASE mode # "single"
      BY <1>1, <1>4, <3>4
    <3> QED
      BY <3>3, <3>4
  <2>2. emptied' \subseteq doc.props /\ mixed' \in BOOLEAN
    <3>1. emptied' \subseteq doc.props
      BY <1>3
    <3>2. mixed' \in BOOLEAN
      BY <1>3
    <3> QED
      BY <3>1, <3>2
  <2>3. step' \in {"orphans", "prune"}
    BY <1>4
  <2>4. grouped' \subseteq IdsOf(nodes')
    BY <1>2, <1>3
  <2> QED
    BY <1>1, <1>3, <1>5, <2>1, <2>2, <2>3, <2>4 DEF BuildInv, TypesHold
<1>7. PhasesHold'
  BY <1>2, <1>3, <1>4 DEF PhasesHold
<1>8. CoverHolds'
  <2>1. \A m \in MentionsOf(doc) \ doc.late : Covers(nodes', m)
    BY <1>2, <1>5 DEF BuildInv, CoverHolds
  <2>2. ASSUME NEW i \in DOMAIN nodes', ~nodes'[i].props, NEW m \in nodes'[i].of \cap doc.props
        PROVE  m \in emptied'
    <3>1. Covers(nodes', m)
      BY <2>2 DEF Covers
    <3>2. PICK j \in DOMAIN nodes : m \in nodes[j].of
      BY <1>5, <3>1 DEF Covers
    <3>3. nodes[j].props
      BY <1>2, <2>2, <3>2 DEF HaveProps
    <3> QED
      BY <1>3, <2>2, <3>2, <3>3
  <2>3. \A i \in DOMAIN nodes' : ~nodes'[i].props => nodes'[i].of \cap doc.props \subseteq emptied'
    BY <2>2
  <2> QED
    BY <1>3, <1>4, <2>1, <2>3 DEF CoverHolds
<1>9. UniqueHolds'
  BY <1>2, <1>3, <1>4, <1>5 DEF BuildInv, UniqueHolds
<1>10. FreshHolds'
  BY <1>4 DEF FreshHolds
<1>11. NamesHold'
  <2>1. Blends(doc, nodes') => mixed'
    BY <1>3, MixesBlends
  <2>2. ASSUME ~mixed', NEW e \in edges', ~e.auto
        PROVE  /\ e.src \in IdsOf(nodes') => Meant(doc, nodes', e.src, e.from)
               /\ e.dst \in IdsOf(nodes') => Meant(doc, nodes', e.dst, e.to)
    <3>1. ~mixed
      BY <1>3, <2>2
    <3>2. PICK o \in edges :
            /\ e.auto = o.auto /\ e.from = o.from /\ e.to = o.to
            /\ e.src \in IdsOf(nodes') =>
                 o.src \in IdsOf(nodes) /\ \A m : Carries(nodes, o.src, m) => Carries(nodes', e.src, m)
            /\ e.dst \in IdsOf(nodes') =>
                 o.dst \in IdsOf(nodes) /\ \A m : Carries(nodes, o.dst, m) => Carries(nodes', e.dst, m)
      BY <1>5
    <3>3. /\ o.src \in IdsOf(nodes) => Meant(doc, nodes, o.src, o.from)
          /\ o.dst \in IdsOf(nodes) => Meant(doc, nodes, o.dst, o.to)
      BY <1>2, <2>2, <3>1, <3>2 DEF BuildInv, NamesHold
    <3> QED
      BY <3>2, <3>3 DEF Meant
  <2> QED
    BY <1>3, <1>4, <2>1, <2>2 DEF NamesHold
<1>12. EndsHold'
  <2> SUFFICES ASSUME mode = "single", ~chained', NEW e \in edges', ~e.auto
               PROVE  {e.src, e.dst} \subseteq IdsOf(nodes')
    BY <1>3 DEF EndsHold
  <2>1. PICK o \in edges :
          /\ e.auto = o.auto
          /\ (o.src \in IdsOf(nodes) /\ ~chained') => e.src \in IdsOf(nodes')
          /\ (o.dst \in IdsOf(nodes) /\ ~chained') => e.dst \in IdsOf(nodes')
    BY <1>5
  <2>2. o.src \in IdsOf(nodes) /\ o.dst \in IdsOf(nodes)
    BY <1>2, <2>1 DEF BuildInv, EndsHold
  <2> QED
    BY <2>1, <2>2
<1> QED
  BY <1>6, <1>7, <1>8, <1>9, <1>10, <1>11, <1>12 DEF BuildInv

-----------------------------------------------------------------------------
(* Graph construction: the theorems *)

\* Every step keeps the invariant.
LEMMA BuildStep == BuildInv /\ [BuildNext]_buildVars => BuildInv'
<1> SUFFICES ASSUME BuildInv, [BuildNext]_buildVars PROVE BuildInv'
  OBVIOUS
<1>1. CASE ExtractNodes
  BY <1>1, ExtractBuild
<1>2. CASE CompareById
  BY <1>2, CompareBuild
<1>3. CASE ResolveGroup
  BY <1>3, GroupBuild
<1>4. CASE ResolvedAll
  BY <1>4, ResolvedBuild
<1>5. CASE Proceed
  BY <1>5, ProceedBuild
<1>6. CASE RelateChunk
  BY <1>6, RelateBuild
<1>7. CASE Refine
  BY <1>7, RefineBuild
<1>8. CASE Accept
  BY <1>8, AcceptBuild
<1>9. CASE Deduplicate
  BY <1>9, DeduplicateBuild
<1>10. CASE RevisitChunk
  BY <1>10, RevisitBuild
<1>11. CASE OrphansDone
  BY <1>11, OrphansDoneBuild
<1>12. CASE PruneOrphans
  BY <1>12, PruneBuild
<1>13. CASE UNCHANGED buildVars
  <2>1. /\ doc' = doc /\ mode' = mode /\ stable' = stable
        /\ UNCHANGED <<step, chunk, nodes, resolved, grouped, edges, revisit>>
        /\ UNCHANGED <<mixed, overlap, chained, emptied>>
    BY <1>13 DEF buildVars, input, accidents
  <2>2. TypesHold' /\ PhasesHold' /\ CoverHolds' /\ UniqueHolds' /\ EndsHold'
    BY <2>1 DEF BuildInv, TypesHold, PhasesHold, CoverHolds, UniqueHolds, EndsHold
  <2>3. FreshHolds'
    <3>1. \A m : NodeFor(m)' = NodeFor(m)
      BY <2>1, NodeForStays DEF input
    <3> QED
      BY <2>1, <3>1 DEF BuildInv, FreshHolds
  <2>4. NamesHold'
    BY <2>1 DEF BuildInv, NamesHold, Listed
  <2> QED
    BY <2>2, <2>3, <2>4 DEF BuildInv
<1> QED
  BY <1>1, <1>2, <1>3, <1>4, <1>5, <1>6, <1>7, <1>8, <1>9, <1>10, <1>11, <1>12, <1>13
     DEF BuildNext, Done

\* So it always holds.
LEMMA BuildInvariant == BuildSpec => []BuildInv
<1>1. BuildInit => BuildInv
  BY InitBuild
<1>2. BuildInv /\ [BuildNext]_buildVars => BuildInv'
  BY BuildStep
<1> QED
  BY <1>1, <1>2, PTL DEF BuildSpec

\* The lists stay what the steps take them for.
THEOREM BuildTypeCorrect == BuildSpec => []BuildTypeOK
<1>1. BuildInv => BuildTypeOK
  <2> SUFFICES ASSUME BuildInv PROVE BuildTypeOK
    OBVIOUS
  <2>1. TypesHold /\ PhasesHold
    BY DEF BuildInv
  <2>2. ASSUME NEW i \in DOMAIN nodes
        PROVE  /\ nodes[i].id \in Mentions
               /\ nodes[i].of # {} /\ nodes[i].of \subseteq Mentions
               /\ \A m \in nodes[i].of : doc.type[m] = nodes[i].type
    <3>1. IsNode(doc, stable, nodes[i])
      BY <2>1 DEF TypesHold, AreNodes
    <3> QED
      BY <3>1, NodeFields, NodeParts DEF Mentions, MentionsOf
  <2>3. \A e \in edges : {e.src, e.dst} \subseteq Mentions
    BY <2>1 DEF TypesHold, Edges, Mentions, MentionsOf
  <2>4. grouped \subseteq Ids
    BY <2>1 DEF TypesHold, Ids, IdsOf
  <2>5. step = "resolved" => resolved = <<>>
    BY <2>1 DEF PhasesHold
  <2>6. {mixed, overlap, chained} \subseteq BOOLEAN
    BY <2>1 DEF TypesHold
  <2> QED
    BY <2>1, <2>2, <2>3, <2>4, <2>5, <2>6 DEF TypesHold, BuildTypeOK, LastChunk
<1> QED
  BY <1>1, BuildInvariant, PTL

\* In the single-pass path no relationship but one that pruning has made misses
\* an end, whatever is merged or mapped, unless a representative was mapped on.
THEOREM EndsExist == BuildSpec => []EndsExistUntilPruned
<1>1. BuildInv => EndsExistUntilPruned
  BY DEF BuildInv, EndsHold, EndsExistUntilPruned, Ids, IdsOf
<1> QED
  BY <1>1, BuildInvariant, PTL

\* Whatever is merged, mapped, left out by the LLM or pruned, an extracted
\* mention has a node that stands for it.
THEOREM NothingIsLost == BuildSpec => []NothingExtractedIsLost
<1>1. BuildInv => NothingExtractedIsLost
  <2> SUFFICES ASSUME BuildInv, step # "extract", NEW m \in Mentions \ doc.late,
                      step # "done" \/ m \in doc.props \ emptied
               PROVE  Covers(nodes, m)
    BY DEF NothingExtractedIsLost, Covers
  <2>1. m \in MentionsOf(doc)
    BY DEF Mentions, MentionsOf
  <2> QED
    BY <2>1 DEF BuildInv, CoverHolds
<1> QED
  BY <1>1, BuildInvariant, PTL

\* A relationship ends where the text means it to, as long as no node stands for
\* mentions of several chunks or has lost a positional id; only an end that a
\* refinement pass has given a positional id its chunk has used for another mention
\* may be another's.
THEOREM EndsAreNamed == BuildSpec => []EndsAreThoseNamed
<1>1. BuildInv => EndsAreThoseNamed
  <2> SUFFICES ASSUME BuildInv, ~mixed, NEW e \in edges, ~e.auto
               PROVE  /\ Renumbered(e.from) \/ StandsFor(e.src, e.from)
                      /\ Renumbered(e.to) \/ StandsFor(e.dst, e.to)
    BY DEF EndsAreThoseNamed
  <2>1. IF step \in {"relate", "refine"}
        THEN Meant(doc, Listed, e.src, e.from) /\ Meant(doc, Listed, e.dst, e.to)
        ELSE /\ e.src \in IdsOf(nodes) => Meant(doc, nodes, e.src, e.from)
             /\ e.dst \in IdsOf(nodes) => Meant(doc, nodes, e.dst, e.to)
    BY DEF BuildInv, NamesHold
  <2>2. step \notin {"relate", "refine"} => Listed = nodes
    BY DEF Listed
  <2>3. \A m : Reused(doc, m) => Renumbered(m)
    BY DocumentFacts DEF Reused, Renumbered, BuildInv, TypesHold, MentionsIn, Mentions, MentionsOf
  <2>4. \A id, m : (id \in IdsOf(nodes) => Carries(nodes, id, m)) => (id \in Ids => Carries(nodes, id, m))
    BY DEF Ids, IdsOf
  <2>5. \A id, m : Carries(Listed, id, m) => StandsFor(id, m)
    BY DEF StandsFor, Carries
  <2>6. /\ Reused(doc, e.from) \/ StandsFor(e.src, e.from)
        /\ Reused(doc, e.to) \/ StandsFor(e.dst, e.to)
    <3>1. CASE step \in {"relate", "refine"}
      BY <2>1, <2>5, <3>1 DEF Meant
    <3>2. CASE step \notin {"relate", "refine"}
      <4>1. \A id, m : (id \in Ids => Carries(nodes, id, m)) => StandsFor(id, m)
        BY <2>2, <3>2 DEF StandsFor, Carries
      <4> QED
        BY <2>1, <2>4, <3>2, <4>1 DEF Meant
    <3> QED
      BY <3>1, <3>2
  <2> QED
    BY <2>3, <2>6
<1> QED
  BY <1>1, BuildInvariant, PTL

\* No two nodes handed to storage have one id, unless the LLM has put a node
\* into two of its groups.
THEOREM IdsStayUnique == BuildSpec => []IdsAreUnique
<1>1. BuildInv => IdsAreUnique
  BY DEF BuildInv, UniqueHolds, IdsAreUnique, Unique
<1> QED
  BY <1>1, BuildInvariant, PTL
=============================================================================
