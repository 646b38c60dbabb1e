--------------------------- MODULE IngestionWorkflow ---------------------------
(***************************************************************************)
(* ingest_user_file: an Ingestion Run is recorded, its source is captured, *)
(* every paragraph of the document is taken through the hybrid stages or   *)
(* has its receipt reused, and one transaction closes the document.  Runs  *)
(* of the same document share a Ledger and an Archive, at a time or after  *)
(* each other.  The reader instead starts one worker process, alone on a   *)
(* Ledger of its own, supervises it and closes its run if it has to.       *)
(*                                                                         *)
(* SourceIngestion has the capture in detail, ArchivePublication the       *)
(* writing of a receipt, LedgerTransaction what makes a transaction one    *)
(* step here.                                                              *)
(***************************************************************************)
EXTENDS Naturals

CONSTANTS
  Runs,            \* each has the name of its process
  MaxLength,       \* bound of the paragraphs of the document
  LastStage,       \* the stages of a paragraph are numbered
  Late,            \* those whose output is archived after their transaction
  Unasked,         \* paragraphs for which no model is asked anything
  None

ASSUME WorkflowAssumption ==
  /\ MaxLength \in Nat /\ LastStage \in Nat \ {0}
  /\ Late \subseteq 1 .. LastStage /\ Unasked \subseteq 1 .. MaxLength
  /\ None \notin Runs /\ None \notin Nat
  /\ None \notin {"running", "captured", "capture_failed", "extraction_failed", "interrupted"}
  /\ None \notin {"executed", "reused"}
  /\ LET receipt == [by : Runs \cup {None}, stages : 1 .. LastStage]
     IN  /\ None \notin receipt
         /\ \A n \in 0 .. MaxLength : None \notin [1 .. n -> receipt]

VARIABLES
  length,          \* paragraphs of the document
  supervised,      \* the run that the reader supervises, or None
  run,             \* status of the Ingestion Runs in the Ledger
  changeSet,       \* origin of their change sets
  analysis,        \* the receipts that the Analysis Run is about
  modelRuns,       \* <<run, paragraph, stage>> whose transaction is committed
  outputs,         \* <<author, paragraph, stage>> whose output is in the Archive
  receipts,        \* of the paragraphs, in the Archive
  pc,
  place,           \* the paragraph and the stage that a process is at
  executed,        \* paragraphs whose receipt it did not reuse
  why,             \* the failure that it has to record
  beside,          \* history: processes that ran while another one did
  watcher,         \* where the supervisor is
  cancelled, signalled, message, reported

vars == <<length, supervised, run, changeSet, analysis, modelRuns, outputs, receipts, pc, place,
          executed, why, beside, watcher, cancelled, signalled, message, reported>>

closed == <<changeSet, analysis>>
evidence == <<modelRuns, outputs, receipts>>
local == <<place, executed, why>>
supervision == <<watcher, cancelled, signalled, reported>>
fixed == <<length, supervised, beside>>

-----------------------------------------------------------------------------
Paragraphs == 1 .. length

Over == {"ended", "killed"}

Active(p) == pc[p] \notin Over \cup {"idle"}

Failures == {"capture_failed", "extraction_failed", "interrupted"}

At(p, here) == pc[p] = here

Go(p, there) == pc' = [pc EXCEPT ![p] = there]

\* Outputs name the ModelRuns that they come from, whose ids are random: two
\* executions of a paragraph differ, unless no model was asked.
Author(p, q) == IF q \in Unasked THEN None ELSE p

Paragraph(p) == place[p].paragraph

Stage(p) == place[p].stage

Move(p, q, s) == place' = [place EXCEPT ![p] = [paragraph |-> q, stage |-> s]]

-----------------------------------------------------------------------------
(* The process of a run *)

MayStart(p) ==
  \/ supervised = None
  \/ supervised = p /\ watcher \in {"watching", "stopping"}

\* start_ingestion_run, in a transaction of its own.
StartRun(p) ==
  /\ At(p, "idle") /\ MayStart(p)
  /\ run' = [run EXCEPT ![p] = "running"]
  /\ beside' = IF \E r \in Runs : Active(r)
               THEN beside \cup {p} \cup {r \in Runs : Active(r)} ELSE beside
  /\ Go(p, "capture")
  /\ UNCHANGED <<length, supervised, closed, evidence, local, supervision, message>>

\* A step that leaves the Ledger and the supervisor alone.
Proceed(p, here, there) ==
  /\ At(p, here)
  /\ Go(p, there)
  /\ UNCHANGED <<fixed, run, closed, modelRuns, supervision, message>>

CaptureSource(p) == Proceed(p, "capture", "work") /\ UNCHANGED <<outputs, receipts, local>>

Fail(p, failure) ==
  /\ why' = [why EXCEPT ![p] = failure]
  /\ UNCHANGED <<outputs, receipts, place, executed>>

\* Anything that goes wrong in the capture; a blocked or failed representation.
CaptureFails(p) == Proceed(p, "capture", "record") /\ Fail(p, "capture_failed")

\* The evidence that validate_hybrid_paragraph_receipt and
\* _record_hybrid_analysis_attempts ask for.
Valid(q, receipt) ==
  \A s \in 1 .. receipt.stages :
    /\ <<receipt.by, q, s>> \in outputs
    /\ receipt.by # None => <<receipt.by, q, s>> \in modelRuns

Reusable(q) == receipts[q] # None /\ Valid(q, receipts[q])

\* load_reusable_hybrid_paragraph_receipt
ReuseReceipt(p) ==
  /\ Paragraph(p) \in Paragraphs
  /\ Reusable(Paragraph(p))
  /\ Proceed(p, "work", "work")
  /\ Move(p, Paragraph(p) + 1, 1)
  /\ UNCHANGED <<outputs, receipts, executed, why>>

\* Mutant of Missing: the receipts are not looked for.
NotLookedFor(q) == TRUE

Missing(q) == receipts[q] = None

\* _run_paragraph
BeginParagraph(p) ==
  /\ Paragraph(p) \in Paragraphs
  /\ Missing(Paragraph(p))
  /\ Proceed(p, "work", "stage")
  /\ executed' = [executed EXCEPT ![p] = @ \cup {Paragraph(p)}]
  /\ UNCHANGED <<outputs, receipts, place, why>>

PutOutput(p) ==
  /\ outputs' = outputs \cup {<<Author(p, Paragraph(p)), Paragraph(p), Stage(p)>>}
  /\ UNCHANGED modelRuns

CommitStage(p) ==
  /\ modelRuns' = IF Paragraph(p) \in Unasked THEN modelRuns
                  ELSE modelRuns \cup {<<p, Paragraph(p), Stage(p)>>}
  /\ UNCHANGED outputs

\* The output of a stage is archived in its transaction, of a late one after it.
FirstHalf(p) ==
  /\ At(p, "stage")
  /\ IF Stage(p) \in Late THEN CommitStage(p) ELSE PutOutput(p)
  /\ Go(p, "half")
  /\ UNCHANGED <<fixed, run, closed, receipts, local, supervision, message>>

\* Mentions that are blocked end the paragraph after its first stage.
Blocked(p) == Stage(p) = 1 /\ Paragraph(p) \notin Unasked

\* Mutant of StageEnds: the receipt is built before the last transaction commits.
StageEndsEarly(p) ==
  IF Stage(p) = LastStage THEN UNCHANGED <<modelRuns, outputs>>
  ELSE IF Stage(p) \in Late THEN PutOutput(p) ELSE CommitStage(p)

StageEnds(p) == IF Stage(p) \in Late THEN PutOutput(p) ELSE CommitStage(p)

SecondHalf(p) ==
  /\ At(p, "half")
  /\ StageEnds(p)
  /\ \/ (Stage(p) = LastStage \/ Blocked(p)) /\ Go(p, "receipt") /\ UNCHANGED place
     \/ Stage(p) < LastStage /\ Go(p, "stage") /\ Move(p, Paragraph(p), Stage(p) + 1)
  /\ UNCHANGED <<fixed, run, closed, receipts, executed, why, supervision, message>>

Receipt(p) == [by |-> Author(p, Paragraph(p)), stages |-> Stage(p)]

MayPut(p) == receipts[Paragraph(p)] \in {None, Receipt(p)}

\* publish_hybrid_paragraph_receipt
PublishReceipt(p) ==
  /\ Proceed(p, "receipt", "work")
  /\ MayPut(p)
  /\ receipts' = [receipts EXCEPT ![Paragraph(p)] = Receipt(p)]
  /\ Move(p, Paragraph(p) + 1, 1)
  /\ UNCHANGED <<outputs, executed, why>>

Origin(p) ==
  IF length = 0 THEN IF analysis = None THEN "executed" ELSE "reused"
  ELSE IF executed[p] = {} THEN "reused" ELSE "executed"

\* Mutant of StatusAfter: the run is completed in a later transaction.
StatusLater(p) == "running"

StatusAfter(p) == "captured"

\* build_hybrid_document_coverage_report and close_hybrid_document_ingestion: the
\* Analysis Run, if it is the first, the change set and the run in one transaction.
CloseDocument(p) ==
  /\ At(p, "work") /\ Paragraph(p) \notin Paragraphs
  /\ \A q \in Paragraphs : Reusable(q)
  /\ run[p] = "running"
  /\ analysis' = [q \in Paragraphs |-> receipts[q]]
  /\ changeSet' = [changeSet EXCEPT ![p] = Origin(p)]
  /\ run' = [run EXCEPT ![p] = StatusAfter(p)]
  /\ Go(p, "compose")
  /\ UNCHANGED <<fixed, evidence, local, supervision, message>>

\* OSError, sqlite3.Error or ValueError: a receipt that conflicts, a locked Ledger.
ExtractionFails(p) ==
  /\ \E here \in {"work", "stage", "half", "receipt"} : Proceed(p, here, "record")
  /\ Fail(p, "extraction_failed")

Finish(p, code) ==
  /\ Go(p, "ended")
  /\ message' = IF supervised = p THEN code ELSE message
  /\ UNCHANGED <<fixed, closed, evidence, local, supervision>>

\* _record_user_ingestion_error
RecordError(p) ==
  /\ At(p, "record") /\ run[p] = "running"
  /\ run' = [run EXCEPT ![p] = why[p]]
  /\ Finish(p, 1)

\* It does not persist the failure; or the exception is none of those it catches.
Escape(p) ==
  /\ pc[p] \in {"work", "stage", "half", "receipt", "record"}
  /\ Finish(p, 1)
  /\ UNCHANGED run

\* The composition pass never changes the result.
Compose(p) == At(p, "compose") /\ Finish(p, 0) /\ UNCHANGED run

\* By a signal of the supervisor or for any other reason, also before it has done
\* anything.
Die(p) ==
  /\ Active(p) \/ (supervised = p /\ At(p, "idle") /\ watcher \in {"watching", "stopping"})
  /\ Go(p, "killed")
  /\ UNCHANGED <<fixed, run, closed, evidence, local, supervision, message>>

-----------------------------------------------------------------------------
(* The supervisor: IngestionProcess.run in a thread, cancel in another *)

Stopped == pc[supervised] \in Over

Work == <<pc, fixed, closed, evidence, local, message>>

Watch(here, there) == watcher = here /\ watcher' = there /\ UNCHANGED <<Work, cancelled>>

Launch == ~cancelled /\ Watch("off", "watching") /\ UNCHANGED <<run, signalled, reported>>

\* The process is never started.
LaunchCancelled == cancelled /\ Watch("off", "closing") /\ UNCHANGED <<run, signalled, reported>>

\* cancel: the flag, and then the signal if there is a process.
Cancel ==
  /\ supervised # None /\ ~cancelled /\ watcher \notin {"returned", "unreaped"}
  /\ cancelled' = TRUE
  /\ signalled' = (signalled \/ watcher = "watching")
  /\ UNCHANGED <<Work, run, watcher, reported>>

Observe ==
  /\ ~cancelled /\ message # None
  /\ Watch("watching", "stopping")
  /\ reported' = message
  /\ UNCHANGED <<run, signalled>>

\* Mutant of Gone: the supervisor waits for a result.
GoneWithResult == Stopped /\ message # None

\* The poll may have come just before the result, and the look at the process after it.
Gone == Stopped

LoopEnds ==
  /\ cancelled \/ Gone
  /\ Watch("watching", "stopping")
  /\ UNCHANGED <<run, signalled, reported>>

Signal ==
  /\ ~signalled /\ ~Stopped
  /\ Watch("stopping", "stopping")
  /\ signalled' = TRUE
  /\ UNCHANGED <<run, reported>>

\* Mutant of NeedsClosing: only a run that was cancelled.
OnlyCancelled == cancelled

NeedsClosing == cancelled \/ reported # 0

Reap ==
  /\ Stopped
  /\ Watch("stopping", IF NeedsClosing THEN "closing" ELSE "returned")
  /\ UNCHANGED <<run, signalled, reported>>

\* "Unable to reap the ingestion worker."
GiveUp ==
  /\ signalled /\ ~Stopped
  /\ Watch("stopping", "unreaped")
  /\ UNCHANGED <<run, signalled, reported>>

StillRunning == run[supervised] = "running"

\* finalize_inspection_execution
CloseRun ==
  /\ Watch("closing", "returned")
  /\ run' = IF ~StillRunning THEN run
            ELSE [run EXCEPT ![supervised] =
                    IF cancelled THEN "interrupted" ELSE "extraction_failed"]
  /\ UNCHANGED <<signalled, reported>>

-----------------------------------------------------------------------------
Init ==
  /\ length \in 0 .. MaxLength
  /\ supervised \in Runs \cup {None}
  /\ run = [p \in Runs |-> None]
  /\ changeSet = [p \in Runs |-> None]
  /\ analysis = None
  /\ modelRuns = {} /\ outputs = {}
  /\ receipts = [q \in 1 .. MaxLength |-> None]
  /\ pc = [p \in Runs |-> "idle"]
  /\ place = [p \in Runs |-> [paragraph |-> 1, stage |-> 1]]
  /\ executed = [p \in Runs |-> {}]
  /\ why = [p \in Runs |-> None]
  /\ beside = {}
  /\ watcher = "off"
  /\ cancelled = FALSE /\ signalled = FALSE
  /\ message = None /\ reported = None

Supervise ==
  supervised # None /\ (Launch \/ LaunchCancelled \/ Observe \/ LoopEnds \/ Signal \/ Reap \/ CloseRun)

Next ==
  \/ \E p \in Runs :
       \/ StartRun(p) \/ CaptureSource(p) \/ CaptureFails(p) \/ ReuseReceipt(p) \/ BeginParagraph(p)
       \/ FirstHalf(p) \/ SecondHalf(p) \/ PublishReceipt(p) \/ CloseDocument(p)
       \/ ExtractionFails(p) \/ RecordError(p) \/ Escape(p) \/ Compose(p) \/ Die(p)
  \/ Supervise \/ Cancel \/ (supervised # None /\ GiveUp)

\* The supervisor runs, and a process that was sent a signal dies; a worker may be
\* in a model call for ever.
Fairness == WF_vars(Supervise) /\ WF_vars(signalled /\ Die(supervised))

Spec == Init /\ [][Next]_vars /\ Fairness
-----------------------------------------------------------------------------
(* Properties *)

Receipts == [by : Runs \cup {None}, stages : 1 .. LastStage]

TypeOK ==
  /\ length \in 0 .. MaxLength
  /\ supervised \in Runs \cup {None}
  /\ run \in [Runs -> {None, "running", "captured"} \cup Failures]
  /\ changeSet \in [Runs -> {None, "executed", "reused"}]
  /\ analysis \in [Paragraphs -> Receipts] \cup {None}
  /\ modelRuns \subseteq Runs \X Paragraphs \X (1 .. LastStage)
  /\ outputs \subseteq (Runs \cup {None}) \X Paragraphs \X (1 .. LastStage)
  /\ receipts \in [1 .. MaxLength -> Receipts \cup {None}]
  /\ pc \in [Runs -> {"idle", "capture", "work", "stage", "half", "receipt", "record", "compose"}
                     \cup Over]
  /\ place \in [Runs -> [paragraph : 1 .. length + 1, stage : 1 .. LastStage]]
  /\ executed \in [Runs -> SUBSET Paragraphs]
  /\ why \in [Runs -> Failures \cup {None}]
  /\ beside \subseteq Runs
  /\ watcher \in {"off", "watching", "stopping", "closing", "returned", "unreaped"}
  /\ cancelled \in BOOLEAN /\ signalled \in BOOLEAN
  /\ message \in {0, 1, None} /\ reported \in {0, 1, None}

\* Whatever dies in a paragraph, a receipt that is in the Archive can be reused: its
\* outputs are archived and its ModelRuns are committed, and stay so.
ReceiptsBacked == \A q \in Paragraphs : receipts[q] # None => Valid(q, receipts[q])

\* A document is "reused" if no execution of the run is in it, and "executed" if one is.
OriginIsTrue ==
  length > 0 => \A p \in Runs :
    /\ changeSet[p] = "reused" => \A m \in modelRuns : m[1] # p
    /\ changeSet[p] = "executed" => \E q \in Paragraphs : analysis[q].by \in {p, None}

\* "The Adapter stores set closure atomically with captured IngestionRun completion",
\* over an Analysis Run that accounts for every paragraph with the receipt that the
\* Archive has for it, and calls the document what the run did with it.
CapturedIsClosed ==
  /\ \A p \in Runs : changeSet[p] # None <=> run[p] = "captured"
  /\ (\E p \in Runs : run[p] = "captured") <=> analysis # None
  /\ analysis # None => \A q \in Paragraphs : receipts[q] # None /\ analysis[q] = receipts[q]
  /\ OriginIsTrue

\* "A valid reusable Paragraph Receipt prevents every model call for its paragraph":
\* the work of a paragraph is done twice only by processes that ran at a time.
NoWorkTwice ==
  \A p \in Runs : At(p, "receipt") /\ receipts[Paragraph(p)] # None => p \in beside

\* A run ends once, whoever ends it, and its change set is never replaced.
TerminalStays ==
  [][\A p \in Runs :
       /\ run[p] \notin {None, "running"} => run'[p] = run[p]
       /\ changeSet[p] # None => changeSet'[p] = changeSet[p]]_vars

\* "One paragraph failure cannot remove a prior Paragraph Receipt", nor can a second
\* execution replace it.
ReceiptsStay == [][\A q \in Paragraphs : receipts[q] # None => receipts'[q] = receipts[q]]_vars

\* When the supervisor returns, the worker is no more and its run is not "running":
\* captured if the worker said so, and an error otherwise unless it had been captured.
ReturnedIsOver ==
  supervised # None /\ watcher = "returned" =>
    /\ run[supervised] # "running"
    /\ reported = 0 => run[supervised] = "captured"
    /\ Stopped \/ (At(supervised, "idle") /\ run[supervised] = None)

\* A worker that is cancelled, dies or ends is noticed, whatever it was doing.
SupervisorReturns ==
  supervised # None /\ (cancelled \/ Stopped) ~> watcher \in {"returned", "unreaped"}

History == INSTANCE IngestionHistory

\* However runs of a document and the supervisor of one of them interleave, fail and
\* stop half way, the Ledger and the Archive tell one history of it: a run that is
\* over publishes nothing, ends once, and is captured with a change set that is true,
\* in the step that closes the document over one analysis for all.
ImplementsHistory == History!Spec
=============================================================================
