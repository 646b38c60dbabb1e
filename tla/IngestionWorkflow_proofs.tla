---------------------- MODULE IngestionWorkflow_proofs ----------------------
(***************************************************************************)
(* For any number of runs of one document and paragraphs of any number of  *)
(* stages: receipts are backed and kept, a run ends once and is captured   *)
(* with its change set, only runs at a time do one paragraph twice, and a  *)
(* supervisor that returns leaves nothing that runs.                       *)
(*                                                                         *)
(* The evidence only grows, so that what is once backed stays backed; what *)
(* is left is what each process knows of the paragraph that it is in       *)
(* (BackedInv), what it may say of itself when it closes (ClosureInv), what*)
(* the supervisor saw of it (SupervisionInv), and what it may assume while *)
(* nobody runs beside it (AloneOf).                                        *)
(***************************************************************************)
EXTENDS IngestionWorkflow, TLAPS

\* Where a process is when it needs to know what it does.
Placed ==
  \A p \in Runs :
    /\ pc[p] \in {"stage", "half", "receipt"} => Paragraph(p) \in Paragraphs
    /\ pc[p] = "record" => why[p] \in Failures

TypeInv == TypeOK /\ Placed

LEMMA InitType == Init => TypeInv
  <1> SUFFICES ASSUME Init
               PROVE  TypeInv
    OBVIOUS
  <1>1. [paragraph |-> 1, stage |-> 1] \in [paragraph : 1 .. length + 1, stage : 1 .. LastStage]
    BY WorkflowAssumption DEF Init
  <1>2. Placed
    BY DEF Init, Placed
  <1> QED
    BY <1>1, <1>2, WorkflowAssumption DEF Init, TypeInv, TypeOK, Over, Receipts

LEMMA NextType == TypeInv /\ [Next]_vars => TypeInv'
  <1> SUFFICES ASSUME TypeInv, [Next]_vars
               PROVE  TypeInv'
    OBVIOUS
  <1> USE WorkflowAssumption
      DEF TypeInv, TypeOK, Placed, Paragraphs, Paragraph, Stage, Over, Receipts, Failures, At, Go,
          Proceed, closed, evidence, local, supervision, fixed
  <1>1. ASSUME NEW p \in Runs, StartRun(p)
        PROVE  TypeInv'
    BY <1>1 DEF StartRun
  <1>2. ASSUME NEW p \in Runs, CaptureSource(p)
        PROVE  TypeInv'
    BY <1>2 DEF CaptureSource
  <1>3. ASSUME NEW p \in Runs, CaptureFails(p)
        PROVE  TypeInv'
    BY <1>3 DEF CaptureFails, Fail
  <1>4. ASSUME NEW p \in Runs, ReuseReceipt(p)
        PROVE  TypeInv'
    <2>1. [paragraph |-> Paragraph(p) + 1, stage |-> 1]
            \in [paragraph : 1 .. length + 1, stage : 1 .. LastStage]
      BY <1>4 DEF ReuseReceipt
    <2> QED
      BY <1>4, <2>1 DEF ReuseReceipt, Move
  <1>5. ASSUME NEW p \in Runs, BeginParagraph(p)
        PROVE  TypeInv'
    BY <1>5 DEF BeginParagraph, Missing
  <1>6. ASSUME NEW p \in Runs, FirstHalf(p)
        PROVE  TypeInv'
    <2>1. /\ modelRuns' \subseteq Runs \X Paragraphs \X (1 .. LastStage)
          /\ outputs' \subseteq (Runs \cup {None}) \X Paragraphs \X (1 .. LastStage)
      BY <1>6 DEF FirstHalf, PutOutput, CommitStage, Author
    <2> QED
      BY <1>6, <2>1 DEF FirstHalf
  <1>7. ASSUME NEW p \in Runs, SecondHalf(p)
        PROVE  TypeInv'
    <2>1. place' \in [Runs -> [paragraph : 1 .. length + 1, stage : 1 .. LastStage]]
      <3>1. CASE UNCHANGED place
        BY <3>1
      <3>2. CASE Stage(p) < LastStage /\ Move(p, Paragraph(p), Stage(p) + 1)
        BY <1>7, <3>2 DEF Move
      <3> QED
        BY <1>7, <3>1, <3>2 DEF SecondHalf
    <2>2. /\ modelRuns' \subseteq Runs \X Paragraphs \X (1 .. LastStage)
          /\ outputs' \subseteq (Runs \cup {None}) \X Paragraphs \X (1 .. LastStage)
      BY <1>7 DEF SecondHalf, StageEnds, PutOutput, CommitStage, Author
    <2>3. Placed'
      BY <1>7 DEF SecondHalf, Move
    <2>4. pc' \in [Runs -> {"idle", "capture", "work", "stage", "half", "receipt", "record", "compose"}
                            \cup Over]
      BY <1>7 DEF SecondHalf
    <2>5. UNCHANGED <<length, supervised, run, changeSet, analysis, receipts, executed, why, beside,
                      watcher, cancelled, signalled, message, reported>>
      BY <1>7 DEF SecondHalf
    <2> QED
      BY <2>1, <2>2, <2>3, <2>4, <2>5
  <1>8. ASSUME NEW p \in Runs, PublishReceipt(p)
        PROVE  TypeInv'
    BY <1>8 DEF PublishReceipt, MayPut, Receipt, Author, Move
  <1>9. ASSUME NEW p \in Runs, CloseDocument(p)
        PROVE  TypeInv'
    <2>1. analysis' \in [Paragraphs -> Receipts]
      BY <1>9 DEF CloseDocument, Reusable
    <2>2. changeSet' \in [Runs -> {None, "executed", "reused"}]
      BY <1>9 DEF CloseDocument, Origin
    <2> QED
      BY <1>9, <2>1, <2>2 DEF CloseDocument, StatusAfter
  <1>10. ASSUME NEW p \in Runs, ExtractionFails(p)
        PROVE  TypeInv'
    BY <1>10 DEF ExtractionFails, Fail
  <1>11. ASSUME NEW p \in Runs, RecordError(p)
        PROVE  TypeInv'
    BY <1>11 DEF RecordError, Finish
  <1>12. ASSUME NEW p \in Runs, Escape(p)
        PROVE  TypeInv'
    BY <1>12 DEF Escape, Finish
  <1>13. ASSUME NEW p \in Runs, Compose(p)
        PROVE  TypeInv'
    BY <1>13 DEF Compose, Finish
  <1>14. ASSUME NEW p \in Runs, Die(p)
        PROVE  TypeInv'
    BY <1>14 DEF Die
  <1>15. ASSUME Supervise
        PROVE  TypeInv'
    BY <1>15 DEF Supervise, Launch, LaunchCancelled, Observe, LoopEnds, Signal, Reap, CloseRun,
       StillRunning, Watch, Work
  <1>16. ASSUME Cancel
        PROVE  TypeInv'
    BY <1>16 DEF Cancel, Work
  <1>17. ASSUME GiveUp
        PROVE  TypeInv'
    BY <1>17 DEF GiveUp, Watch, Work
  <1>18. CASE UNCHANGED vars
    BY <1>18 DEF vars
  <1> QED
    BY <1>1, <1>2, <1>3, <1>4, <1>5, <1>6, <1>7, <1>8, <1>9, <1>10, <1>11, <1>12,
       <1>13, <1>14, <1>15, <1>16, <1>17, <1>18 DEF Next
-----------------------------------------------------------------------------
(* Evidence only grows *)

Grows ==
  /\ UNCHANGED <<length, supervised>>
  /\ modelRuns \subseteq modelRuns' /\ outputs \subseteq outputs'
  /\ \A q \in Paragraphs : receipts[q] # None => receipts'[q] = receipts[q]

LEMMA EvidenceGrows ==
  ASSUME TypeInv, [Next]_vars
  PROVE  Grows
  <1> USE DEF Grows, TypeInv, TypeOK, Proceed, closed, evidence, local, fixed
  <1>1. ASSUME NEW p \in Runs, StartRun(p)
        PROVE  Grows
    BY <1>1 DEF StartRun
  <1>2. ASSUME NEW p \in Runs, CaptureSource(p)
        PROVE  Grows
    BY <1>2 DEF CaptureSource
  <1>3. ASSUME NEW p \in Runs, CaptureFails(p)
        PROVE  Grows
    BY <1>3 DEF CaptureFails, Fail
  <1>4. ASSUME NEW p \in Runs, ReuseReceipt(p)
        PROVE  Grows
    BY <1>4 DEF ReuseReceipt, Move
  <1>5. ASSUME NEW p \in Runs, BeginParagraph(p)
        PROVE  Grows
    BY <1>5 DEF BeginParagraph, Missing
  <1>6. ASSUME NEW p \in Runs, FirstHalf(p)
        PROVE  Grows
    BY <1>6 DEF FirstHalf, PutOutput, CommitStage, Author
  <1>7. ASSUME NEW p \in Runs, SecondHalf(p)
        PROVE  Grows
    BY <1>7 DEF SecondHalf, StageEnds, PutOutput, CommitStage, Author, Move, Blocked
  <1>8. ASSUME NEW p \in Runs, PublishReceipt(p)
        PROVE  Grows
    BY <1>8 DEF PublishReceipt, MayPut, Receipt, Author, Move
  <1>9. ASSUME NEW p \in Runs, CloseDocument(p)
        PROVE  Grows
    BY <1>9 DEF CloseDocument, Reusable, Origin, StatusAfter
  <1>10. ASSUME NEW p \in Runs, ExtractionFails(p)
        PROVE  Grows
    BY <1>10 DEF ExtractionFails, Fail
  <1>11. ASSUME NEW p \in Runs, RecordError(p)
        PROVE  Grows
    BY <1>11 DEF RecordError, Finish
  <1>12. ASSUME NEW p \in Runs, Escape(p)
        PROVE  Grows
    BY <1>12 DEF Escape, Finish
  <1>13. ASSUME NEW p \in Runs, Compose(p)
        PROVE  Grows
    BY <1>13 DEF Compose, Finish
  <1>14. ASSUME NEW p \in Runs, Die(p)
        PROVE  Grows
    BY <1>14 DEF Die
  <1>15. CASE Supervise
    BY <1>15 DEF Supervise, Launch, LaunchCancelled, Observe, LoopEnds, Signal, Reap, CloseRun,
       StillRunning, Watch, Work
  <1>16. CASE Cancel
    BY <1>16 DEF Cancel, Work
  <1>17. CASE GiveUp
    BY <1>17 DEF GiveUp, Watch, Work
  <1>18. CASE UNCHANGED vars
    BY <1>18 DEF vars
  <1> QED
    BY <1>1, <1>2, <1>3, <1>4, <1>5, <1>6, <1>7, <1>8, <1>9, <1>10, <1>11, <1>12, <1>13, <1>14,
       <1>15, <1>16, <1>17, <1>18 DEF Next

-----------------------------------------------------------------------------
(* Who does what *)

Does(p) ==
  \/ StartRun(p) \/ CaptureSource(p) \/ CaptureFails(p) \/ ReuseReceipt(p) \/ BeginParagraph(p)
  \/ FirstHalf(p) \/ SecondHalf(p) \/ PublishReceipt(p) \/ CloseDocument(p)
  \/ ExtractionFails(p) \/ RecordError(p) \/ Escape(p) \/ Compose(p) \/ Die(p)

Supervises == supervised # None /\ (Supervise \/ Cancel \/ GiveUp)

LEMMA Steps ==
  ASSUME [Next]_vars
  PROVE  (\E p \in Runs : Does(p)) \/ Supervises \/ UNCHANGED vars
  BY DEF Next, Does, Supervises, Supervise, Cancel

Same(q) ==
  /\ pc'[q] = pc[q] /\ place'[q] = place[q] /\ executed'[q] = executed[q] /\ why'[q] = why[q]
  /\ run'[q] = run[q] /\ changeSet'[q] = changeSet[q]

\* A process does nothing to another one but through the evidence and the analysis.
LEMMA OthersSame ==
  ASSUME TypeInv, NEW p \in Runs, Does(p), NEW q \in Runs, q # p
  PROVE  Same(q)
  <1> USE DEF Same, TypeInv, TypeOK, Proceed, Go, Fail, Finish, Move, closed, evidence, local, fixed
  <1>1. CASE StartRun(p) \/ CaptureSource(p) \/ CaptureFails(p) \/ ReuseReceipt(p) \/ BeginParagraph(p)
    BY <1>1 DEF StartRun, CaptureSource, CaptureFails, ReuseReceipt, BeginParagraph
  <1>2. CASE FirstHalf(p) \/ SecondHalf(p) \/ PublishReceipt(p) \/ CloseDocument(p)
    BY <1>2 DEF FirstHalf, SecondHalf, PublishReceipt, CloseDocument
  <1>3. CASE ExtractionFails(p) \/ RecordError(p) \/ Escape(p) \/ Compose(p) \/ Die(p)
    BY <1>3 DEF ExtractionFails, RecordError, Escape, Compose, Die
  <1> QED
    BY <1>1, <1>2, <1>3 DEF Does

LEMMA SupervisorLeaves ==
  ASSUME TypeInv, Supervises \/ UNCHANGED vars
  PROVE  /\ UNCHANGED <<pc, place, executed, why, modelRuns, outputs, receipts, changeSet, analysis,
                        beside, message, length, supervised>>
         /\ \A q \in Runs : q # supervised => run'[q] = run[q]
  BY DEF TypeInv, TypeOK, Supervises, Supervise, Launch, LaunchCancelled, Observe, LoopEnds, Signal,
     Reap, CloseRun, Cancel, GiveUp, Watch, Work, closed, evidence, local, fixed, vars

-----------------------------------------------------------------------------
(* Receipts are backed *)

LEMMA ReceiptsChange ==
  ASSUME TypeInv, NEW p \in Runs, Does(p), ~PublishReceipt(p)
  PROVE  receipts' = receipts
  <1> USE DEF Proceed, Fail, Finish, closed, evidence, local, fixed
  <1>1. CASE StartRun(p) \/ CaptureSource(p) \/ CaptureFails(p) \/ ReuseReceipt(p) \/ BeginParagraph(p)
    BY <1>1 DEF StartRun, CaptureSource, CaptureFails, ReuseReceipt, BeginParagraph
  <1>2. CASE FirstHalf(p) \/ SecondHalf(p) \/ CloseDocument(p)
    BY <1>2 DEF FirstHalf, SecondHalf, CloseDocument
  <1>3. CASE ExtractionFails(p) \/ RecordError(p) \/ Escape(p) \/ Compose(p) \/ Die(p)
    BY <1>3 DEF ExtractionFails, RecordError, Escape, Compose, Die
  <1> QED
    BY <1>1, <1>2, <1>3 DEF Does

StageDone(p, q, s) ==
  /\ <<Author(p, q), q, s>> \in outputs
  /\ q \notin Unasked => <<p, q, s>> \in modelRuns

HalfDone(p, q, s) ==
  IF s \in Late THEN q \notin Unasked => <<p, q, s>> \in modelRuns
  ELSE <<Author(p, q), q, s>> \in outputs

\* The stages that a process has done of its paragraph.
WorkedOf(p) ==
  /\ pc[p] \in {"idle", "capture", "work"} => Stage(p) = 1
  /\ pc[p] \in {"stage", "half", "receipt"} =>
       \A s \in 1 .. LastStage : s < Stage(p) => StageDone(p, Paragraph(p), s)
  /\ pc[p] = "half" => HalfDone(p, Paragraph(p), Stage(p))
  /\ pc[p] = "receipt" => StageDone(p, Paragraph(p), Stage(p))

BackedInv == (\A p \in Runs : WorkedOf(p)) /\ ReceiptsBacked

LEMMA InitBacked == Init => BackedInv
  BY WorkflowAssumption DEF Init, BackedInv, WorkedOf, ReceiptsBacked, Paragraphs, Stage

LEMMA WorkStays ==
  ASSUME Grows, NEW q \in Runs, WorkedOf(q), pc'[q] = pc[q], place'[q] = place[q]
  PROVE  WorkedOf(q)'
  BY DEF Grows, WorkedOf, StageDone, HalfDone, Paragraph, Stage, Author

LEMMA DoneStays ==
  ASSUME Grows, NEW p, NEW q, NEW s, StageDone(p, q, s)
  PROVE  StageDone(p, q, s)'
  BY DEF Grows, StageDone, Author

LEMMA BackingStays ==
  ASSUME TypeInv, Grows, ReceiptsBacked, NEW q \in Paragraphs, receipts[q] # None
  PROVE  receipts'[q] = receipts[q] /\ Valid(q, receipts[q])'
  BY DEF Grows, ReceiptsBacked, Valid

LEMMA PublishedBacked ==
  ASSUME TypeInv, NEW p \in Runs, WorkedOf(p), PublishReceipt(p), NEW q, q = Paragraph(p)
  PROVE  Valid(q, receipts[q])'
  <1>1. pc[p] = "receipt" /\ Stage(p) \in 1 .. LastStage /\ q \in Paragraphs
    BY DEF PublishReceipt, Proceed, At, TypeInv, TypeOK, Placed, Stage
  <1>2. ASSUME NEW s \in 1 .. Stage(p)
        PROVE  StageDone(p, q, s)
    <2>1. s \in 1 .. LastStage /\ (s < Stage(p) \/ s = Stage(p))
      BY <1>1, WorkflowAssumption
    <2> QED
      BY <1>1, <2>1 DEF WorkedOf
  <1>3. UNCHANGED <<outputs, modelRuns>>
    BY DEF PublishReceipt, Proceed, closed
  <1>4. receipts'[q] = [by |-> Author(p, q), stages |-> Stage(p)]
    BY <1>1, WorkflowAssumption DEF PublishReceipt, Receipt, TypeInv, TypeOK, Paragraphs
  <1> QED
    BY <1>2, <1>3, <1>4 DEF Valid, StageDone, Author

LEMMA NextBacked == TypeInv /\ BackedInv /\ [Next]_vars => BackedInv'
  <1> SUFFICES ASSUME TypeInv, BackedInv, [Next]_vars
               PROVE  BackedInv'
    OBVIOUS
  <1>1. Grows
    BY EvidenceGrows
  <1>2. ASSUME NEW p \in Runs, Does(p)
        PROVE  WorkedOf(p)'
    <2>0. WorkedOf(p)
      BY DEF BackedInv
    <2>1. CASE pc'[p] \in {"record", "compose", "ended", "killed"}
      BY <2>1 DEF WorkedOf
    <2>2. CASE StartRun(p) \/ CaptureSource(p)
      BY <2>2 DEF StartRun, CaptureSource, Proceed, At, Go, local, BackedInv, WorkedOf, TypeInv,
         TypeOK, Stage
    <2>3. CASE ReuseReceipt(p) \/ PublishReceipt(p)
      BY <2>3 DEF ReuseReceipt, PublishReceipt, Proceed, Go, Move, WorkedOf, TypeInv, TypeOK, Stage
    <2>4. CASE BeginParagraph(p)
      <3>1. Stage(p)' = 1 /\ pc'[p] = "stage"
        BY <2>0, <2>4 DEF BeginParagraph, Proceed, At, Go, WorkedOf, TypeInv, TypeOK, Stage
      <3> QED
        BY <3>1, WorkflowAssumption DEF WorkedOf
    <2>5. CASE FirstHalf(p)
      <3>1. Stage(p)' = Stage(p) /\ Paragraph(p)' = Paragraph(p) /\ pc'[p] = "half" /\ pc[p] = "stage"
        BY <2>5 DEF FirstHalf, At, Go, local, TypeInv, TypeOK, Stage, Paragraph
      <3>2. \A s \in 1 .. LastStage : s < Stage(p) => StageDone(p, Paragraph(p), s)
        BY <2>0, <3>1 DEF WorkedOf
      <3>3. ASSUME NEW q, NEW s, q = Paragraph(p), s = Stage(p)
            PROVE  HalfDone(p, q, s)'
        BY <2>5, <3>3 DEF FirstHalf, CommitStage, PutOutput, HalfDone, Author
      <3>4. ASSUME NEW q, NEW s \in 1 .. LastStage, q = Paragraph(p), s < Stage(p)
            PROVE  StageDone(p, q, s)'
        BY <1>1, <3>2, <3>4, DoneStays
      <3> QED
        BY <3>1, <3>3, <3>4 DEF WorkedOf
    <2>6. CASE SecondHalf(p)
      <3>1. Paragraph(p)' = Paragraph(p) /\ pc[p] = "half" /\ Stage(p) \in 1 .. LastStage
        BY <2>6 DEF SecondHalf, Move, At, TypeInv, TypeOK, Stage, Paragraph
      <3>2. ASSUME NEW q, NEW s \in 1 .. LastStage, q = Paragraph(p), s < Stage(p)
            PROVE  StageDone(p, q, s)'
        BY <1>1, <2>0, <3>1, <3>2, DoneStays DEF WorkedOf
      <3>3. ASSUME NEW q, NEW s, q = Paragraph(p), s = Stage(p)
            PROVE  StageDone(p, q, s)'
        <4>1. HalfDone(p, q, s)
          BY <2>0, <3>1, <3>3 DEF WorkedOf
        <4> QED
          BY <2>6, <3>3, <4>1 DEF SecondHalf, StageEnds, CommitStage, PutOutput, StageDone,
             HalfDone, Author
      <3>4. CASE pc'[p] = "receipt" /\ UNCHANGED place
        <4>1. Stage(p)' = Stage(p)
          BY <3>4 DEF Stage
        <4> QED
          BY <3>1, <3>2, <3>3, <3>4, <4>1 DEF WorkedOf
      <3>5. CASE pc'[p] = "stage" /\ Move(p, Paragraph(p), Stage(p) + 1)
        <4>1. Stage(p)' = Stage(p) + 1
          BY <3>5 DEF Move, TypeInv, TypeOK, Stage
        <4>2. ASSUME NEW s \in 1 .. LastStage, s < Stage(p) + 1
              PROVE  s < Stage(p) \/ s = Stage(p)
          BY <3>1, <4>2, WorkflowAssumption
        <4> QED
          BY <3>1, <3>2, <3>3, <3>5, <4>1, <4>2 DEF WorkedOf
      <3> QED
        BY <2>6, <3>4, <3>5 DEF SecondHalf, Go, TypeInv, TypeOK
    <2> QED
      BY <1>2, <2>1, <2>2, <2>3, <2>4, <2>5, <2>6 DEF Does, CaptureFails, CloseDocument,
         ExtractionFails, RecordError, Escape, Compose, Die, Finish, Proceed, Go, TypeInv, TypeOK
  <1>3. \A p \in Runs : WorkedOf(p)'
    BY <1>1, <1>2, Steps, OthersSame, SupervisorLeaves, WorkStays DEF BackedInv, Same
  <1>4. ASSUME NEW q \in Paragraphs, receipts'[q] # None
        PROVE  Valid(q, receipts[q])'
    <2>1. CASE receipts[q] # None
      BY <1>1, <2>1, BackingStays DEF BackedInv
    <2>2. CASE receipts[q] = None
      <3>1. PICK p \in Runs : PublishReceipt(p)
        BY <1>4, <2>2, Steps, ReceiptsChange, SupervisorLeaves
      <3>2. q = Paragraph(p)
        BY <1>4, <2>2, <3>1 DEF PublishReceipt, TypeInv, TypeOK
      <3> QED
        BY <3>1, <3>2, PublishedBacked DEF BackedInv
    <2> QED
      BY <2>1, <2>2
  <1> QED
    BY <1>1, <1>3, <1>4 DEF BackedInv, ReceiptsBacked, Grows, Paragraphs

-----------------------------------------------------------------------------
(* A captured run is closed *)

\* A status that is not "running" is the last one.
StatusMoves(p) ==
  \/ run'[p] = run[p]
  \/ pc[p] = "idle" /\ run[p] = None /\ run'[p] = "running"
  \/ run[p] = "running" /\ run'[p] \in Failures \cup {"captured"}

ClosedOf(p) ==
  /\ pc[p] = "idle" => run[p] = None
  /\ changeSet[p] # None <=> run[p] = "captured"
  /\ run[p] = "captured" => pc[p] \in {"compose"} \cup Over
  /\ pc[p] = "compose" => run[p] = "captured"

LEMMA StatusNames ==
  /\ \A f \in Failures : f \notin {None, "running", "captured"}
  /\ "running" # None /\ "captured" # None
  BY WorkflowAssumption DEF Failures

LEMMA SupervisorCloses ==
  ASSUME TypeInv, Supervises \/ UNCHANGED vars, NEW p \in Runs
  PROVE  run'[p] = run[p] \/ (run[p] = "running" /\ run'[p] \in Failures)
  BY DEF TypeInv, TypeOK, Supervises, Supervise, Launch, LaunchCancelled, Observe, LoopEnds, Signal,
     Reap, CloseRun, StillRunning, Cancel, GiveUp, Watch, Work, closed, evidence, local, fixed,
     vars, Failures

\* Only the transaction of the close makes a run captured.
LEMMA OnlyCloseCaptures ==
  ASSUME TypeInv, NEW p \in Runs, ClosedOf(p), Does(p), ~CloseDocument(p)
  PROVE  /\ UNCHANGED <<changeSet, analysis>>
         /\ ClosedOf(p)' /\ StatusMoves(p)
         /\ run'[p] = "captured" => run[p] = "captured"
  <1> USE StatusNames
      DEF TypeInv, TypeOK, Placed, ClosedOf, StatusMoves, Over, At, Go, Proceed, closed, evidence,
          local, fixed, Failures
  <1>1. CASE StartRun(p)
    BY <1>1 DEF StartRun
  <1>2. CASE CaptureSource(p) \/ CaptureFails(p) \/ ReuseReceipt(p) \/ BeginParagraph(p)
    BY <1>2 DEF CaptureSource, CaptureFails, ReuseReceipt, BeginParagraph
  <1>3. CASE FirstHalf(p) \/ SecondHalf(p)
    BY <1>3 DEF FirstHalf, SecondHalf
  <1>4. CASE PublishReceipt(p) \/ ExtractionFails(p)
    BY <1>4 DEF PublishReceipt, ExtractionFails
  <1>5. CASE RecordError(p)
    BY <1>5 DEF RecordError, Finish
  <1>6. CASE Escape(p) \/ Compose(p)
    BY <1>6 DEF Escape, Compose, Finish
  <1>7. CASE Die(p)
    BY <1>7 DEF Die, Active
  <1> QED
    BY <1>1, <1>2, <1>3, <1>4, <1>5, <1>6, <1>7 DEF Does

LEMMA CloseCloses ==
  ASSUME TypeInv, NEW p \in Runs, ClosedOf(p), CloseDocument(p)
  PROVE  /\ pc[p] = "work" /\ changeSet[p] = None /\ changeSet'[p] = Origin(p)
         /\ ClosedOf(p)' /\ StatusMoves(p) /\ run'[p] = "captured"
  BY StatusNames, WorkflowAssumption
  DEF TypeInv, TypeOK, ClosedOf, StatusMoves, CloseDocument, StatusAfter, Origin, At, Go

LEMMA InitClosed == Init => \A p \in Runs : ClosedOf(p)
  BY StatusNames DEF Init, ClosedOf

LEMMA NextClosed ==
  ASSUME TypeInv, \A p \in Runs : ClosedOf(p), [Next]_vars, NEW p \in Runs
  PROVE  /\ ClosedOf(p)' /\ StatusMoves(p)
         /\ changeSet[p] # None => changeSet'[p] = changeSet[p]
  <1>1. CASE Does(p)
    BY <1>1, OnlyCloseCaptures, CloseCloses
  <1>2. ASSUME NEW r \in Runs, r # p, Does(r)
        PROVE  Same(p)
    BY <1>2, OthersSame
  <1>3. CASE Same(p)
    BY <1>3 DEF Same, ClosedOf, StatusMoves
  <1>4. CASE Supervises \/ UNCHANGED vars
    BY <1>4, SupervisorLeaves, SupervisorCloses, StatusNames DEF ClosedOf, StatusMoves
  <1> QED
    BY <1>1, <1>2, <1>3, <1>4, Steps

\* The receipts that a process leaves behind are its own.
ExecutedOf(p) ==
  /\ pc[p] \in {"stage", "half", "receipt"} => Paragraph(p) \in executed[p]
  /\ \A q \in executed[p] :
       \/ pc[p] \in {"record"} \cup Over
       \/ pc[p] \in {"stage", "half", "receipt"} /\ q = Paragraph(p)
       \/ receipts[q] # None /\ receipts[q].by = Author(p, q)

AnalysisInv ==
  /\ (\E p \in Runs : run[p] = "captured") <=> analysis # None
  /\ analysis # None => \A q \in Paragraphs : receipts[q] # None /\ analysis[q] = receipts[q]

ModelRunsExecuted == \A m \in modelRuns : m[2] \in executed[m[1]]

ClosureInv ==
  /\ \A p \in Runs : ClosedOf(p) /\ ExecutedOf(p)
  /\ AnalysisInv /\ ModelRunsExecuted /\ OriginIsTrue

LEMMA InitClosure == Init => ClosureInv
  <1> SUFFICES ASSUME Init
               PROVE  ClosureInv
    OBVIOUS
  <1>1. \A p \in Runs : ExecutedOf(p)
    BY DEF Init, ExecutedOf
  <1>2. AnalysisInv /\ ModelRunsExecuted
    BY StatusNames DEF Init, AnalysisInv, ModelRunsExecuted
  <1>3. OriginIsTrue
    BY WorkflowAssumption DEF Init, OriginIsTrue
  <1> QED
    BY <1>1, <1>2, <1>3, InitClosed DEF ClosureInv

\* What a process executes it does at a paragraph that it is in.
LEMMA ExecutionMoves ==
  ASSUME TypeInv, NEW p \in Runs, ExecutedOf(p), ModelRunsExecuted, Does(p), Grows
  PROVE  /\ ExecutedOf(p)'
         /\ executed[p] \subseteq executed'[p]
         /\ \A m \in modelRuns' :
              m \in modelRuns \/ (m[1] = p /\ m[2] \in executed[p] /\ pc[p] \in {"stage", "half"})
  <1> USE WorkflowAssumption DEF TypeInv, TypeOK, Placed, Over, At, Go, Proceed, Active, closed,
        evidence, local, fixed
  <1>1. CASE \/ StartRun(p) \/ CaptureSource(p) \/ CaptureFails(p) \/ ExtractionFails(p)
             \/ RecordError(p) \/ Escape(p) \/ Compose(p) \/ Die(p) \/ CloseDocument(p)
    <2>1. UNCHANGED <<place, executed, receipts, modelRuns>>
      BY <1>1 DEF StartRun, CaptureSource, CaptureFails, RecordError, Escape, Compose, Die,
         ExtractionFails, CloseDocument, Finish, Fail
    <2>2. \/ pc'[p] \in {"record"} \cup Over
          \/ pc[p] \notin {"stage", "half", "receipt", "record"} \cup Over
             /\ pc'[p] \notin {"stage", "half", "receipt"}
      BY <1>1 DEF StartRun, CaptureSource, CaptureFails, RecordError, Escape, Compose, Die,
         ExtractionFails, CloseDocument, Finish
    <2> QED
      BY <2>1, <2>2 DEF ExecutedOf, Author
  <1>2. CASE ReuseReceipt(p)
    BY <1>2 DEF ReuseReceipt, Move, ExecutedOf, Author
  <1>3. CASE BeginParagraph(p)
    BY <1>3 DEF BeginParagraph, ExecutedOf, Author, Paragraph
  <1>4. CASE FirstHalf(p)
    BY <1>4 DEF FirstHalf, CommitStage, PutOutput, ExecutedOf, Author, Paragraph
  <1>5. CASE SecondHalf(p)
    <2>1. Paragraph(p)' = Paragraph(p) /\ pc[p] = "half" /\ pc'[p] \in {"stage", "receipt"}
      BY <1>5 DEF SecondHalf, Move, Paragraph
    <2>2. UNCHANGED <<executed, receipts>>
      BY <1>5 DEF SecondHalf
    <2>3. \A m \in modelRuns' : m \in modelRuns \/ (m[1] = p /\ m[2] = Paragraph(p))
      BY <1>5 DEF SecondHalf, StageEnds, CommitStage, PutOutput
    <2> QED
      BY <2>1, <2>2, <2>3 DEF ExecutedOf, Author
  <1>6. CASE PublishReceipt(p)
    <2>1. receipts'[Paragraph(p)] = [by |-> Author(p, Paragraph(p)), stages |-> Stage(p)]
      BY <1>6 DEF PublishReceipt, Receipt, Paragraphs
    <2>2. receipts'[Paragraph(p)] # None /\ receipts'[Paragraph(p)].by = Author(p, Paragraph(p))
      <3>1. Stage(p) \in 1 .. LastStage /\ Author(p, Paragraph(p)) \in Runs \cup {None}
        BY <1>6 DEF Stage, Author
      <3> QED
        BY <2>1, <3>1
    <2>3. /\ UNCHANGED <<executed, modelRuns>> /\ pc[p] = "receipt" /\ pc'[p] = "work"
      BY <1>6 DEF PublishReceipt
    <2>4. \A q \in executed[p] : q = Paragraph(p) \/ (receipts[q] # None /\ receipts[q].by = Author(p, q))
      BY <2>3 DEF ExecutedOf
    <2>5. \A q \in executed[p] : receipts'[q] # None /\ receipts'[q].by = Author(p, q)
      BY <2>2, <2>4 DEF Grows
    <2> QED
      BY <2>3, <2>5 DEF ExecutedOf, Author
  <1> QED
    BY <1>1, <1>2, <1>3, <1>4, <1>5, <1>6 DEF Does

LEMMA ExecutionStays ==
  ASSUME TypeInv, Grows, NEW q \in Runs, ExecutedOf(q), Same(q)
  PROVE  ExecutedOf(q)'
  BY DEF TypeInv, TypeOK, Grows, Same, ExecutedOf, Paragraph, Author

\* The analysis of a captured document is what the Archive has.
LEMMA AnalysisStays ==
  ASSUME TypeInv, ClosureInv, [Next]_vars
  PROVE  /\ AnalysisInv'
         /\ analysis # None => \A q \in Paragraphs : analysis'[q] = analysis[q]
  <1>1. Grows
    BY EvidenceGrows
  <1>2. ASSUME NEW p \in Runs, CloseDocument(p)
        PROVE  /\ AnalysisInv'
               /\ analysis # None => \A q \in Paragraphs : analysis'[q] = analysis[q]
    <2>1. run'[p] = "captured"
      BY <1>2, CloseCloses DEF ClosureInv
    <2>2. /\ analysis' = [q \in Paragraphs |-> receipts[q]] /\ UNCHANGED <<length, receipts>>
          /\ \A q \in Paragraphs : receipts[q] # None
      BY <1>2 DEF CloseDocument, Reusable, evidence, fixed
    <2>3. analysis' # None
      <3>1. \A q \in Paragraphs : receipts[q] \in Receipts
        BY <2>2, WorkflowAssumption DEF TypeInv, TypeOK, Paragraphs
      <3>2. analysis' \in [1 .. length -> Receipts] /\ length \in 0 .. MaxLength
        BY <2>2, <3>1 DEF Paragraphs, TypeInv, TypeOK
      <3> QED
        BY <3>2, WorkflowAssumption DEF Receipts
    <2> QED
      BY <2>1, <2>2, <2>3 DEF AnalysisInv, ClosureInv, Paragraphs
  <1>3. ASSUME analysis' = analysis, \A p \in Runs : run'[p] = "captured" <=> run[p] = "captured"
        PROVE  AnalysisInv'
    BY <1>1, <1>3 DEF ClosureInv, AnalysisInv, Grows, Paragraphs
  <1>4. ASSUME NEW p \in Runs, Does(p), ~CloseDocument(p)
        PROVE  analysis' = analysis /\ \A r \in Runs : run'[r] = "captured" <=> run[r] = "captured"
    <2>1. /\ analysis' = analysis
          /\ run'[p] = "captured" => run[p] = "captured"
          /\ StatusMoves(p)
      BY <1>4, OnlyCloseCaptures DEF ClosureInv
    <2>2. \A r \in Runs : r # p => run'[r] = run[r]
      BY <1>4, OthersSame DEF Same
    <2> QED
      BY <2>1, <2>2, StatusNames DEF StatusMoves
  <1>5. CASE Supervises \/ UNCHANGED vars
    <2>1. analysis' = analysis /\ \A r \in Runs : run'[r] = "captured" <=> run[r] = "captured"
      BY <1>5, SupervisorLeaves, SupervisorCloses, StatusNames
    <2> QED
      BY <1>3, <2>1
  <1> QED
    BY <1>2, <1>3, <1>4, <1>5, Steps

LEMMA NextClosure == TypeInv /\ ClosureInv /\ [Next]_vars => ClosureInv'
  <1> SUFFICES ASSUME TypeInv, ClosureInv, [Next]_vars
               PROVE  ClosureInv'
    OBVIOUS
  <1>1. Grows /\ AnalysisInv'
    BY EvidenceGrows, AnalysisStays
  <1>2. \A p \in Runs : /\ ClosedOf(p)'
                        /\ changeSet[p] # None => changeSet'[p] = changeSet[p]
    BY NextClosed DEF ClosureInv
  <1>3. ASSUME NEW p \in Runs, Does(p)
        PROVE  ModelRunsExecuted' /\ \A r \in Runs : ExecutedOf(r)'
    <2>1. \A r \in Runs : ExecutedOf(r)' /\ executed[r] \subseteq executed'[r]
      BY <1>1, <1>3, ExecutionMoves, ExecutionStays, OthersSame DEF ClosureInv, Same
    <2>2. \A m \in modelRuns' : m \in modelRuns \/ (m[1] = p /\ m[2] \in executed[p])
      BY <1>1, <1>3, ExecutionMoves DEF ClosureInv
    <2>3. \A m \in modelRuns : m[1] \in Runs
      BY DEF TypeInv, TypeOK
    <2> QED
      BY <2>1, <2>2, <2>3 DEF ClosureInv, ModelRunsExecuted
  <1>4. ASSUME Supervises \/ UNCHANGED vars
        PROVE  ModelRunsExecuted' /\ \A r \in Runs : ExecutedOf(r)'
    BY <1>4, SupervisorLeaves DEF ClosureInv, ModelRunsExecuted, ExecutedOf, Paragraph, Author
  <1>5. ASSUME NEW p \in Runs, changeSet[p] # None
        PROVE  /\ changeSet'[p] = changeSet[p] /\ analysis # None
               /\ \A m \in modelRuns' : m[1] = p => m \in modelRuns
    <2>1. analysis # None /\ pc[p] \in {"compose"} \cup Over
      BY <1>5 DEF ClosureInv, AnalysisInv, ClosedOf
    <2>2. ASSUME NEW r \in Runs, Does(r)
          PROVE  \A m \in modelRuns' : m[1] = p => m \in modelRuns
      BY <1>1, <2>1, <2>2, ExecutionMoves DEF ClosureInv, Over
    <2>3. ASSUME Supervises \/ UNCHANGED vars
          PROVE  modelRuns' = modelRuns
      BY <2>3, SupervisorLeaves
    <2> QED
      BY <1>2, <1>5, <2>1, <2>2, <2>3, Steps
  <1>6. ASSUME NEW p \in Runs, changeSet[p] = None, changeSet'[p] # None
        PROVE  CloseDocument(p)
    BY <1>6, Steps, OthersSame, SupervisorLeaves, OnlyCloseCaptures DEF ClosureInv, Same
  <1>7. ASSUME NEW p \in Runs, length > 0, changeSet'[p] = "reused"
        PROVE  \A m \in modelRuns' : m[1] # p
    <2>1. CASE changeSet[p] # None
      BY <1>5, <1>7, <2>1 DEF ClosureInv, OriginIsTrue
    <2>2. CASE changeSet[p] = None
      <3>1. CloseDocument(p)
        BY <1>6, <1>7, <2>2, StatusNames, WorkflowAssumption
      <3>2. changeSet'[p] = Origin(p) /\ modelRuns' = modelRuns
        BY <3>1, CloseCloses DEF ClosureInv, CloseDocument, evidence
      <3>3. executed[p] = {}
        BY <1>7, <3>2 DEF Origin, TypeInv, TypeOK
      <3> QED
        BY <3>2, <3>3 DEF ClosureInv, ModelRunsExecuted
    <2> QED
      BY <2>1, <2>2
  <1>8. ASSUME NEW p \in Runs, length > 0, changeSet'[p] = "executed"
        PROVE  \E q \in Paragraphs : analysis'[q].by \in {p, None}
    <2>1. CASE changeSet[p] # None
      BY <1>5, <1>8, <2>1, AnalysisStays DEF ClosureInv, OriginIsTrue
    <2>2. CASE changeSet[p] = None
      <3>1. CloseDocument(p)
        BY <1>6, <1>8, <2>2, StatusNames, WorkflowAssumption
      <3>2. changeSet'[p] = Origin(p) /\ pc[p] = "work" /\ analysis' = [q \in Paragraphs |-> receipts[q]]
        BY <3>1, CloseCloses DEF ClosureInv, CloseDocument
      <3>3. PICK q \in executed[p] : TRUE
        BY <1>8, <3>2 DEF Origin, TypeInv, TypeOK
      <3>4. q \in Paragraphs /\ receipts[q].by = Author(p, q)
        BY <3>2, <3>3 DEF ClosureInv, ExecutedOf, TypeInv, TypeOK, Over
      <3> QED
        BY <3>2, <3>4 DEF Author
    <2> QED
      BY <2>1, <2>2
  <1>9. OriginIsTrue'
    BY <1>1, <1>7, <1>8 DEF OriginIsTrue, Grows, Paragraphs
  <1> QED
    BY <1>1, <1>2, <1>3, <1>4, <1>9, Steps DEF ClosureInv

-----------------------------------------------------------------------------
(* When the supervisor returns *)

SupervisionInv ==
  supervised # None =>
    /\ watcher = "off" => At(supervised, "idle")
    /\ ~Stopped => message = None
    /\ message = 0 => run[supervised] = "captured"
    /\ reported # None => reported = message
    /\ watcher \in {"closing", "returned"} => Stopped \/ At(supervised, "idle")
    /\ watcher = "returned" => run[supervised] # "running"
    /\ watcher = "returned" /\ reported = 0 => run[supervised] = "captured"

\* The process that is supervised takes no step once it is over, and sends one message.
LEMMA WorkerSteps ==
  ASSUME TypeInv, NEW p \in Runs, ClosedOf(p), Does(p)
  PROVE  /\ pc[p] \notin Over /\ UNCHANGED supervision
         /\ pc[p] = "idle" => MayStart(p)
         /\ pc'[p] # "idle"
         /\ message' # message =>
              /\ supervised = p /\ pc'[p] \in Over
              /\ message' = 1 \/ (message' = 0 /\ run'[p] = "captured")
  <1> USE DEF TypeInv, TypeOK, Over, At, Go, Proceed, MayStart, supervision
  <1>1. CASE StartRun(p) \/ CaptureSource(p) \/ CaptureFails(p) \/ ReuseReceipt(p) \/ BeginParagraph(p)
    BY <1>1 DEF StartRun, CaptureSource, CaptureFails, ReuseReceipt, BeginParagraph
  <1>2. CASE FirstHalf(p) \/ SecondHalf(p) \/ PublishReceipt(p) \/ CloseDocument(p)
    BY <1>2 DEF FirstHalf, SecondHalf, PublishReceipt, CloseDocument
  <1>3. CASE ExtractionFails(p) \/ Die(p)
    BY <1>3 DEF ExtractionFails, Die, Active
  <1>4. CASE RecordError(p) \/ Escape(p) \/ Compose(p)
    BY <1>4 DEF RecordError, Escape, Compose, Finish, ClosedOf
  <1> QED
    BY <1>1, <1>2, <1>3, <1>4 DEF Does

LEMMA InitSupervision == Init => SupervisionInv
  BY WorkflowAssumption DEF Init, SupervisionInv, At

LEMMA NextSupervision ==
  ASSUME TypeInv, SupervisionInv, \A p \in Runs : ClosedOf(p), [Next]_vars
  PROVE  SupervisionInv'
  <1> SUFFICES ASSUME supervised # None
               PROVE  SupervisionInv'
    BY EvidenceGrows DEF SupervisionInv, Grows
  <1> USE DEF SupervisionInv, Stopped, At
  <1>1. supervised \in Runs /\ UNCHANGED supervised /\ None \notin {0, 1}
    BY EvidenceGrows, WorkflowAssumption DEF Grows, TypeInv, TypeOK
  <1>2. ClosedOf(supervised) /\ StatusMoves(supervised)
    BY <1>1, NextClosed
  <1>3. CASE Does(supervised)
    <2>1. /\ pc[supervised] \notin Over /\ pc'[supervised] # "idle"
          /\ UNCHANGED <<watcher, reported>> /\ message = None
          /\ pc[supervised] = "idle" => watcher \in {"watching", "stopping"}
          /\ message' # message =>
               /\ pc'[supervised] \in Over
               /\ message' = 1 \/ (message' = 0 /\ run'[supervised] = "captured")
      BY <1>1, <1>2, <1>3, WorkerSteps DEF supervision, MayStart
    <2>2. reported = None /\ watcher \in {"watching", "stopping", "unreaped"}
      BY <1>1, <2>1 DEF TypeInv, TypeOK
    <2> QED
      BY <1>1, <2>1, <2>2
  <1>4. ASSUME NEW p \in Runs, p # supervised, Does(p)
        PROVE  SupervisionInv'
    <2>1. UNCHANGED <<watcher, reported, message>>
      BY <1>4, WorkerSteps DEF supervision
    <2>2. pc'[supervised] = pc[supervised] /\ run'[supervised] = run[supervised]
      BY <1>1, <1>4, OthersSame DEF Same
    <2> QED
      BY <1>1, <2>1, <2>2
  <1>5. CASE Supervises
    <2>1. UNCHANGED <<pc, message>>
      BY <1>5, SupervisorLeaves
    <2>2. CASE Supervise
      BY <1>1, <1>2, <2>1, <2>2, StatusNames DEF Supervise, Launch, LaunchCancelled, Observe,
         LoopEnds, Signal, Reap, CloseRun, StillRunning, NeedsClosing, Watch, ClosedOf, TypeInv,
         TypeOK, Failures
    <2>3. CASE Cancel \/ GiveUp
      BY <1>1, <2>1, <2>3 DEF Cancel, GiveUp, Watch
    <2> QED
      BY <1>5, <2>2, <2>3 DEF Supervises
  <1>6. CASE UNCHANGED vars
    BY <1>6 DEF vars
  <1> QED
    BY <1>3, <1>4, <1>5, <1>6, Steps

-----------------------------------------------------------------------------
(* A process that is alone *)

AloneOf(p) ==
  p \notin beside /\ Active(p) =>
    /\ \A r \in Runs : Active(r) => r = p
    /\ pc[p] \in {"stage", "half", "receipt"} => receipts[Paragraph(p)] = None

LEMMA InitAlone == Init => \A p \in Runs : AloneOf(p)
  BY DEF Init, AloneOf, Active

\* A process becomes active by its first step, which sees the others that are.
LEMMA AloneSteps ==
  ASSUME TypeInv, NEW p \in Runs, Does(p)
  PROVE  /\ beside \subseteq beside'
         /\ ~Active(p) /\ Active(p)' =>
              /\ pc'[p] = "capture"
              /\ \A r \in Runs : Active(r) => {p, r} \subseteq beside'
  <1> USE DEF TypeInv, TypeOK, Over, At, Go, Proceed, Active, fixed
  <1>1. CASE StartRun(p)
    BY <1>1 DEF StartRun
  <1>2. CASE CaptureSource(p) \/ CaptureFails(p) \/ ReuseReceipt(p) \/ BeginParagraph(p)
    BY <1>2 DEF CaptureSource, CaptureFails, ReuseReceipt, BeginParagraph
  <1>3. CASE FirstHalf(p) \/ SecondHalf(p) \/ PublishReceipt(p) \/ CloseDocument(p)
    BY <1>3 DEF FirstHalf, SecondHalf, PublishReceipt, CloseDocument
  <1>4. CASE ExtractionFails(p) \/ RecordError(p) \/ Escape(p) \/ Compose(p) \/ Die(p)
    BY <1>4 DEF ExtractionFails, RecordError, Escape, Compose, Die, Finish
  <1> QED
    BY <1>1, <1>2, <1>3, <1>4 DEF Does

\* It works on the paragraph that it began, which had no receipt.
LEMMA AloneWorks ==
  ASSUME TypeInv, NEW p \in Runs, Does(p), pc'[p] \in {"stage", "half", "receipt"}
  PROVE  /\ Active(p) /\ UNCHANGED receipts /\ Paragraph(p)' = Paragraph(p)
         /\ pc[p] \in {"stage", "half", "receipt"} \/ receipts[Paragraph(p)] = None
  <1> USE DEF TypeInv, TypeOK, Over, At, Go, Proceed, Active, Paragraph
  <1>1. CASE BeginParagraph(p) \/ FirstHalf(p)
    BY <1>1 DEF BeginParagraph, Missing, FirstHalf, local
  <1>2. CASE SecondHalf(p)
    BY <1>2 DEF SecondHalf, Move
  <1> QED
    BY <1>1, <1>2 DEF Does, StartRun, CaptureSource, CaptureFails, ReuseReceipt, PublishReceipt,
       CloseDocument, ExtractionFails, RecordError, Escape, Compose, Die, Finish

LEMMA NextAlone ==
  ASSUME TypeInv, \A p \in Runs : AloneOf(p), [Next]_vars
  PROVE  \A p \in Runs : AloneOf(p)'
  <1>1. ASSUME NEW r \in Runs, Does(r), NEW p \in Runs
        PROVE  AloneOf(p)'
    <2>1. \A q \in Runs : q # r => pc'[q] = pc[q] /\ place'[q] = place[q]
      BY <1>1, OthersSame DEF Same
    <2>2. \A q \in Runs : q # r => (Active(q)' <=> Active(q))
      BY <2>1 DEF Active
    <2>3. ASSUME p \notin beside', Active(p)'
          PROVE  \A q \in Runs : Active(q)' => q = p
      BY <1>1, <2>2, <2>3, AloneSteps DEF AloneOf
    <2>4. ASSUME p \notin beside', Active(p)', pc'[p] \in {"stage", "half", "receipt"}
          PROVE  receipts'[Paragraph(p)'] = None
      <3>1. CASE r = p
        BY <1>1, <2>4, <3>1, AloneSteps, AloneWorks DEF AloneOf
      <3>2. CASE r # p
        <4>1. ~Active(r)'
          BY <2>3, <2>4, <3>2
        <4>2. Active(p) /\ p \notin beside /\ Paragraph(p)' = Paragraph(p)
          BY <1>1, <2>1, <2>2, <2>4, <3>2, AloneSteps DEF Paragraph
        <4>3. ~Active(r)
          BY <3>2, <4>2 DEF AloneOf
        <4>4. receipts' = receipts
          BY <1>1, <4>3, ReceiptsChange DEF PublishReceipt, Proceed, At, Active, Over
        <4> QED
          BY <2>1, <2>4, <3>2, <4>2, <4>4 DEF AloneOf
      <3> QED
        BY <3>1, <3>2
    <2> QED
      BY <2>3, <2>4 DEF AloneOf
  <1>2. CASE Supervises \/ UNCHANGED vars
    BY <1>2, SupervisorLeaves DEF AloneOf, Active, Paragraph
  <1> QED
    BY <1>1, <1>2, Steps

-----------------------------------------------------------------------------
(* A process that works is running *)

\* The supervisor closes a run when its process is no more, so that none works on.
RunningOf(p) ==
  pc[p] \in {"capture", "work", "stage", "half", "receipt", "record"} => run[p] = "running"

LEMMA InitRunning == Init => \A p \in Runs : RunningOf(p)
  BY DEF Init, RunningOf

LEMMA SupervisorFails ==
  ASSUME TypeInv, Supervises
  PROVE  \/ run' = run
         \/ /\ watcher = "closing" /\ supervised \in Runs /\ run[supervised] = "running"
            /\ \E failure \in Failures : run' = [run EXCEPT ![supervised] = failure]
  <1>1. supervised \in Runs
    BY DEF TypeInv, TypeOK, Supervises
  <1>2. CASE Supervise /\ ~CloseRun
    BY <1>2 DEF Supervise, Launch, LaunchCancelled, Observe, LoopEnds, Signal, Reap
  <1>3. CASE CloseRun
    <2>1. watcher = "closing" /\ {"interrupted", "extraction_failed"} \subseteq Failures
      BY <1>3 DEF CloseRun, Watch, Failures
    <2>2. CASE cancelled
      BY <1>1, <1>3, <2>1, <2>2 DEF CloseRun, StillRunning
    <2>3. CASE ~cancelled
      BY <1>1, <1>3, <2>1, <2>3 DEF CloseRun, StillRunning
    <2> QED
      BY <2>2, <2>3
  <1>4. CASE Cancel \/ GiveUp
    BY <1>4 DEF Cancel, GiveUp
  <1> QED
    BY <1>2, <1>3, <1>4 DEF Supervises

LEMMA NextRunning ==
  ASSUME TypeInv, SupervisionInv, \A p \in Runs : RunningOf(p), [Next]_vars
  PROVE  \A p \in Runs : RunningOf(p)'
  <1>1. ASSUME NEW p \in Runs, Does(p)
        PROVE  RunningOf(p)'
    <2> USE DEF TypeInv, TypeOK, RunningOf, Over, At, Go, Proceed
    <2>0. RunningOf(p)
      OBVIOUS
    <2>1. CASE StartRun(p)
      BY <2>1 DEF StartRun
    <2>2. CASE CaptureSource(p) \/ CaptureFails(p) \/ ReuseReceipt(p) \/ BeginParagraph(p)
      BY <2>0, <2>2 DEF CaptureSource, CaptureFails, ReuseReceipt, BeginParagraph
    <2>3. CASE FirstHalf(p) \/ SecondHalf(p) \/ PublishReceipt(p) \/ ExtractionFails(p)
      BY <2>0, <2>3 DEF FirstHalf, SecondHalf, PublishReceipt, ExtractionFails
    <2>4. CASE CloseDocument(p) \/ RecordError(p) \/ Escape(p) \/ Compose(p) \/ Die(p)
      BY <2>4 DEF CloseDocument, RecordError, Escape, Compose, Die, Finish
    <2> QED
      BY <1>1, <2>1, <2>2, <2>3, <2>4 DEF Does
  <1>2. ASSUME NEW r \in Runs, Does(r), NEW p \in Runs, p # r
        PROVE  RunningOf(p)'
    BY <1>2, OthersSame DEF Same, RunningOf
  <1>3. ASSUME Supervises, NEW p \in Runs
        PROVE  RunningOf(p)'
    <2>1. UNCHANGED pc /\ supervised # None
      BY <1>3, SupervisorLeaves DEF Supervises
    <2>2. CASE run'[p] = run[p]
      BY <2>1, <2>2 DEF RunningOf
    <2>3. CASE run'[p] # run[p]
      <3>1. p = supervised /\ watcher = "closing"
        BY <1>3, <2>3, SupervisorFails, SupervisorLeaves
      <3>2. pc[p] \in Over \cup {"idle"}
        BY <2>1, <3>1 DEF SupervisionInv, Stopped, At
      <3> QED
        BY <2>1, <3>2 DEF RunningOf, Over
    <2> QED
      BY <2>2, <2>3
  <1>4. CASE UNCHANGED vars
    BY <1>4 DEF vars, RunningOf
  <1> QED
    BY <1>1, <1>2, <1>3, <1>4, Steps

-----------------------------------------------------------------------------
(* What holds of every behaviour *)

IInv ==
  /\ TypeInv /\ BackedInv /\ ClosureInv /\ SupervisionInv
  /\ \A p \in Runs : AloneOf(p) /\ RunningOf(p)

LEMMA Invariance == Spec => []IInv
  <1>1. Init => IInv
    BY InitType, InitBacked, InitClosure, InitSupervision, InitAlone, InitRunning
    DEF IInv
  <1>2. IInv /\ [Next]_vars => IInv'
    <2> SUFFICES ASSUME IInv, [Next]_vars
                 PROVE  IInv'
      OBVIOUS
    <2>1. \A p \in Runs : AloneOf(p)'
      BY NextAlone DEF IInv
    <2>2. SupervisionInv'
      BY NextSupervision DEF IInv, ClosureInv
    <2>3. \A p \in Runs : RunningOf(p)'
      BY NextRunning DEF IInv
    <2> QED
      BY <2>1, <2>2, <2>3, NextType, NextBacked, NextClosure DEF IInv
  <1> QED
    BY <1>1, <1>2, PTL DEF Spec

\* Every variable keeps its type, and no process works outside the document.
THEOREM TypeCorrect == Spec => []TypeOK
  <1>1. IInv => TypeOK
    BY DEF IInv, TypeInv
  <1> QED
    BY <1>1, Invariance, PTL

\* Whatever dies, and however many processes there are: a receipt that is in the
\* Archive has its outputs there and its ModelRuns in the Ledger.
THEOREM ReceiptsStayBacked == Spec => []ReceiptsBacked
  <1>1. IInv => ReceiptsBacked
    BY DEF IInv, BackedInv
  <1> QED
    BY <1>1, Invariance, PTL

\* A run is captured with its change set and the Analysis Run or not at all, and the
\* change set says truly whether the run executed anything that is in it.
THEOREM CapturedStaysClosed == Spec => []CapturedIsClosed
  <1>1. IInv => CapturedIsClosed
    BY DEF IInv, ClosureInv, AnalysisInv, ClosedOf, CapturedIsClosed
  <1> QED
    BY <1>1, Invariance, PTL

\* Only processes that run at a time can have done the same paragraph.
THEOREM WorkIsNotRepeated == Spec => []NoWorkTwice
  <1>1. IInv => NoWorkTwice
    BY DEF IInv, AloneOf, NoWorkTwice, At, Active, Over
  <1> QED
    BY <1>1, Invariance, PTL

\* A supervisor that returns leaves no worker and no run that is "running".
THEOREM ReturnedStaysOver == Spec => []ReturnedIsOver
  <1>1. IInv => ReturnedIsOver
    BY DEF IInv, SupervisionInv, ClosureInv, ClosedOf, ReturnedIsOver, TypeInv, TypeOK, At
  <1> QED
    BY <1>1, Invariance, PTL

\* The end of a run is not replaced by its process, by another one or by the
\* supervisor that closes it.
THEOREM EndsAreKept == Spec => TerminalStays
  <1> DEFINE Step ==
        \A p \in Runs :
          /\ run[p] \notin {None, "running"} => run'[p] = run[p]
          /\ changeSet[p] # None => changeSet'[p] = changeSet[p]
  <1>1. IInv /\ [Next]_vars => Step
    BY NextClosed DEF IInv, ClosureInv, StatusMoves
  <1>2. [][Step]_vars <=> TerminalStays
    BY PTL DEF TerminalStays
  <1> QED
    BY <1>1, <1>2, Invariance, PTL DEF Spec

\* A receipt is neither lost nor replaced.
THEOREM ReceiptsAreKept == Spec => ReceiptsStay
  <1> DEFINE Step == \A q \in Paragraphs : receipts[q] # None => receipts'[q] = receipts[q]
  <1>1. IInv /\ [Next]_vars => Step
    BY EvidenceGrows DEF IInv, Grows
  <1>2. [][Step]_vars <=> ReceiptsStay
    BY PTL DEF ReceiptsStay
  <1> QED
    BY <1>1, <1>2, Invariance, PTL DEF Spec

-----------------------------------------------------------------------------
(* The Ledger and the Archive tell a history of the document *)

LEMMA StartHistory ==
  ASSUME IInv, NEW p \in Runs, StartRun(p)
  PROVE  History!Start(p)
  BY DEF IInv, ClosureInv, ClosedOf, StartRun, At, closed, evidence, History!Start

LEMMA PublishHistory ==
  ASSUME IInv, NEW p \in Runs, PublishReceipt(p)
  PROVE  History!Publish(p) \/ UNCHANGED History!vars
  <1> DEFINE q == Paragraph(p)
             receipt == Receipt(p)
  <1>1. q \in Paragraphs /\ receipt \in Receipts /\ receipt.by \in {p, None}
    BY WorkflowAssumption DEF IInv, TypeInv, TypeOK, Placed, PublishReceipt, Proceed, At, Receipt,
       Receipts, Author, Stage
  <1>2. run[p] = "running"
    BY DEF IInv, RunningOf, PublishReceipt, Proceed, At
  <1>3. /\ receipts' = [receipts EXCEPT ![q] = receipt]
        /\ UNCHANGED <<length, run, changeSet, analysis>>
    BY DEF PublishReceipt, Proceed, closed, fixed
  <1>4. receipts \in [1 .. MaxLength -> Receipts \cup {None}]
    BY DEF IInv, TypeInv, TypeOK
  <1>5. CASE receipts[q] = None
    BY <1>1, <1>2, <1>3, <1>5 DEF History!Publish, History!Running, Paragraphs
  <1>6. CASE receipts[q] = receipt
    BY <1>3, <1>4, <1>6 DEF History!vars
  <1> QED
    BY <1>5, <1>6 DEF PublishReceipt, MayPut

\* A receipt names the run that did the paragraph, by the ModelRuns it is backed with.
LEMMA ReceiptsExecuted ==
  ASSUME IInv, NEW p \in Runs, NEW q \in Paragraphs, receipts[q] # None, receipts[q].by = p
  PROVE  q \in executed[p]
  <1>1. receipts[q] \in Receipts /\ Valid(q, receipts[q])
    BY WorkflowAssumption DEF IInv, TypeInv, TypeOK, BackedInv, ReceiptsBacked, Paragraphs
  <1>2. 1 \in 1 .. receipts[q].stages
    BY <1>1, WorkflowAssumption DEF Receipts
  <1>3. <<p, q, 1>> \in modelRuns
    BY <1>1, <1>2, WorkflowAssumption DEF Valid
  <1> QED
    BY <1>3 DEF IInv, ClosureInv, ModelRunsExecuted

\* What a run says of itself is what the receipts say.
LEMMA CloseIsTrue ==
  ASSUME IInv, NEW p \in Runs, CloseDocument(p)
  PROVE  History!May(p, Origin(p))
  <1>1. CASE length = 0
    BY <1>1 DEF History!May, Origin
  <1>2. CASE length # 0 /\ executed[p] = {}
    <2>1. \A q \in Paragraphs : receipts[q] # None
      BY DEF CloseDocument, Reusable
    <2>2. \A q \in Paragraphs : receipts[q].by # p
      BY <1>2, <2>1, ReceiptsExecuted
    <2> QED
      BY <1>2, <2>2 DEF History!May, Origin, Paragraphs
  <1>3. CASE length # 0 /\ executed[p] # {}
    <2>1. PICK q \in executed[p] : TRUE
      BY <1>3
    <2>2. q \in Paragraphs /\ receipts[q].by = Author(p, q)
      BY <2>1 DEF IInv, ClosureInv, ExecutedOf, TypeInv, TypeOK, CloseDocument, At, Over
    <2> QED
      BY <1>3, <2>2 DEF History!May, Origin, Author, Paragraphs
  <1> QED
    BY <1>1, <1>2, <1>3

LEMMA CloseHistory ==
  ASSUME IInv, NEW p \in Runs, CloseDocument(p)
  PROVE  History!Close(p)
  <1>1. /\ run[p] = "running" /\ run' = [run EXCEPT ![p] = "captured"]
        /\ changeSet' = [changeSet EXCEPT ![p] = Origin(p)]
        /\ analysis' = [q \in Paragraphs |-> receipts[q]]
        /\ \A q \in Paragraphs : receipts[q] # None
        /\ UNCHANGED <<length, receipts>>
    BY DEF CloseDocument, StatusAfter, Reusable, evidence, fixed
  <1>2. ASSUME analysis # None
        PROVE  analysis' = analysis
    <2>1. analysis \in [Paragraphs -> Receipts]
      BY <1>2 DEF IInv, TypeInv, TypeOK
    <2>2. \A q \in Paragraphs : analysis[q] = receipts[q]
      BY <1>2 DEF IInv, ClosureInv, AnalysisInv
    <2> QED
      BY <1>1, <2>1, <2>2
  <1>3. Origin(p) \in {"executed", "reused"}
    BY DEF Origin
  <1> QED
    BY <1>1, <1>2, <1>3, CloseIsTrue DEF History!Close, History!Running, Paragraphs

LEMMA FailHistory ==
  ASSUME IInv, NEW p \in Runs, RecordError(p)
  PROVE  History!Fail(p)
  <1>1. why[p] \in Failures
    BY DEF IInv, TypeInv, Placed, RecordError, At
  <1> QED
    BY <1>1 DEF RecordError, Finish, closed, evidence, fixed, History!Fail, History!Running

LEMMA SilentHistory ==
  ASSUME IInv, NEW p \in Runs, Does(p),
         ~StartRun(p), ~PublishReceipt(p), ~CloseDocument(p), ~RecordError(p)
  PROVE  UNCHANGED History!vars
  <1> USE DEF Proceed, Finish, Fail, closed, evidence, fixed, History!vars
  <1>1. CASE CaptureSource(p) \/ CaptureFails(p) \/ ReuseReceipt(p) \/ BeginParagraph(p)
    BY <1>1 DEF CaptureSource, CaptureFails, ReuseReceipt, BeginParagraph
  <1>2. CASE FirstHalf(p) \/ SecondHalf(p)
    BY <1>2 DEF FirstHalf, SecondHalf
  <1>3. CASE ExtractionFails(p) \/ Escape(p) \/ Compose(p) \/ Die(p)
    BY <1>3 DEF ExtractionFails, Escape, Compose, Die
  <1> QED
    BY <1>1, <1>2, <1>3 DEF Does

LEMMA SupervisorHistory ==
  ASSUME IInv, Supervises
  PROVE  History!Fail(supervised) \/ UNCHANGED History!vars
  <1>1. UNCHANGED <<length, changeSet, analysis, receipts>>
    BY SupervisorLeaves DEF IInv
  <1> QED
    BY <1>1, SupervisorFails DEF IInv, History!Fail, History!Running, History!vars

LEMMA StepRefines == IInv /\ [Next]_vars => [History!Next]_(History!vars)
  <1> SUFFICES ASSUME IInv, [Next]_vars
               PROVE  History!Next \/ UNCHANGED History!vars
    OBVIOUS
  <1>1. ASSUME NEW p \in Runs, Does(p)
        PROVE  History!Next \/ UNCHANGED History!vars
    BY <1>1, StartHistory, PublishHistory, CloseHistory, FailHistory, SilentHistory
    DEF History!Next
  <1>2. CASE Supervises
    <2>1. supervised \in Runs
      BY <1>2 DEF IInv, TypeInv, TypeOK, Supervises
    <2> QED
      BY <1>2, <2>1, SupervisorHistory DEF History!Next
  <1>3. CASE UNCHANGED vars
    BY <1>3 DEF vars, History!vars
  <1> QED
    BY <1>1, <1>2, <1>3, Steps

\* The runs of a document, with what they archive and commit half way, implement one
\* history of it: only a run that is running publishes a receipt, fails or is captured,
\* and it is captured in one step that says truly what it did.
THEOREM HistoryIsImplemented == Spec => ImplementsHistory
  <1>1. Init => History!Init
    BY DEF Init, History!Init
  <1> QED
    BY <1>1, StepRefines, Invariance, PTL DEF Spec, ImplementsHistory, History!Spec
=============================================================================
