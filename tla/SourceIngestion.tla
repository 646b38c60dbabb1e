---------------------------- MODULE SourceIngestion ----------------------------
(***************************************************************************)
(* commit_authoritative_capture and commit_authoritative_pdf_capture: one  *)
(* file is put into the Archive, captured in the Ledger and processed to a *)
(* Document Representation, under a ProcessingTask whose attempts are kept *)
(* for good.  Processes ingest the same file at a time or after each       *)
(* other, and may die at any step.                                         *)
(*                                                                         *)
(* A process that read the Ledger in its transaction keeps it from being   *)
(* changed until it commits or rolls back; one that cannot commit for too  *)
(* long gets "database is locked".  ArchivePublication has the writing of  *)
(* the object in detail.                                                   *)
(***************************************************************************)
EXTENDS Naturals, FiniteSets

CONSTANTS
  Processes,      \* each makes one attempt, which has its name
  Size,           \* pieces in which the raw object is written
  Outputs,        \* representations that a text may be, or a PDF parser give for the file
  Unusable,       \* those of them that their quality report blocks: an empty text
  None

ASSUME OutputsAssumption ==
  /\ Size \in Nat \ {0}
  /\ Unusable \subseteq Outputs
  /\ {None, "blocked", "error"} \cap Outputs = {}
  /\ None \notin {"blocked", "error", "succeeded", "failed", "interrupted"}
  /\ None \notin 0 .. Size
  /\ None \notin [by : Processes, output : Outputs]

VARIABLES
  text,            \* the representation of the text, or None: the file is a PDF
  update,          \* its URL had another Document, of which it is the update
  raw,             \* the length of the raw object, or None
  captured,        \* Source, SourceCapture and Document are in the Ledger
  attempts,
  outcome,         \* the outcome of each attempt that has one
  accounted,       \* attempts whose PDF page accounting is in the Ledger
  representation,  \* what was published, and the attempt that did
  readers,         \* processes with a transaction that has read
  pc,
  known,           \* what a process found when it began
  parsed,          \* what its parser gave
  beside           \* history: processes that ran while another one did

vars == <<text, update, raw, captured, attempts, outcome, accounted, representation, readers, pc,
          known, parsed, beside>>

file == <<text, update>>
archive == <<raw>>
ledger == <<captured, attempts, outcome, accounted, representation>>
local == <<known, parsed>>

-----------------------------------------------------------------------------
Ended == {"done", "failed", "crashed"}

Active(p) == pc[p] \notin Ended \cup {"idle"}

Open(p) == p \in attempts /\ outcome[p] = None

At(p, here) == pc[p] = here

Go(p, there) == pc' = [pc EXCEPT ![p] = there]

\* A step that leaves the Ledger alone.
Step(p, here, there) ==
  /\ At(p, here)
  /\ Go(p, there)
  /\ UNCHANGED <<file, ledger, readers, parsed, known, beside>>

\* The end of a transaction, which is over for good or rolled back.
Release(p) == readers' = readers \ {p}

MayCommit(p) == readers \subseteq {p}

Archived == raw = Size

IsPdf == text = None

-----------------------------------------------------------------------------
(* The capture, and the start of the attempt *)

Found ==
  IF ~captured THEN "nothing"
  ELSE IF ~IsPdf /\ representation # None THEN "closure" ELSE "document"

\* The first queries of the transaction.
Read(p) ==
  /\ At(p, "idle")
  /\ readers' = readers \cup {p}
  /\ known' = [known EXCEPT ![p] = Found]
  /\ beside' = IF \E q \in Processes : Active(q)
               THEN beside \cup {p} \cup {q \in Processes : Active(q)} ELSE beside
  /\ Go(p, IF Found = "closure" THEN "start" ELSE "put")
  /\ UNCHANGED <<file, archive, ledger, parsed>>

\* Mutant of Acceptable: an object that exists is taken for complete.
Present == raw # None

Acceptable == Archived

\* put_if_absent_or_identical
FindObject(p) == Acceptable /\ Step(p, "put", "start") /\ UNCHANGED archive

CreateObject(p) == Step(p, "put", "write") /\ raw = None /\ raw' = 0

WriteObject(p) == Step(p, "write", "write") /\ raw < Size /\ raw' = raw + 1

ObjectWritten(p) == Archived /\ Step(p, "write", "start") /\ UNCHANGED archive

\* A conflict, a lost race or a full disk: the transaction is rolled back.
PutFails(p) ==
  /\ \/ At(p, "put") /\ raw # None /\ ~Acceptable
     \/ At(p, "write") /\ ~Archived
  /\ Release(p)
  /\ Go(p, "failed")
  /\ UNCHANGED <<file, archive, ledger, local, beside>>

\* Mutant of Reconciled: open attempts are left to their processes.
LeftOpen(p) == outcome

\* reconcile_interrupted_processing_attempts
Reconciled(p) == [q \in Processes |-> IF Open(q) THEN "interrupted" ELSE outcome[q]]

\* The request says UPDATE only if the Document is not there yet, so that the repeated
\* capture of an update asks for an ORIGINAL.
Conflicting(p) == update /\ known[p] # "nothing"

\* "Capture idempotency conflict.": nothing is committed.
CaptureConflicts(p) ==
  /\ At(p, "start")
  /\ Conflicting(p)
  /\ Release(p)
  /\ Go(p, "failed")
  /\ UNCHANGED <<file, archive, ledger, local, beside>>

\* capture_source, the reconciliation and the new attempt are committed together.
StartAttempt(p) ==
  /\ At(p, "start")
  /\ ~Conflicting(p)
  /\ MayCommit(p)
  /\ captured' = TRUE
  /\ outcome' = Reconciled(p)
  /\ attempts' = attempts \cup {p}
  /\ Release(p)
  /\ Go(p, IF IsPdf THEN "parse" ELSE "check")
  /\ UNCHANGED <<file, archive, accounted, representation, local, beside>>

-----------------------------------------------------------------------------
(* The operation *)

\* Mutant of ClosureUsable: a Document without its Representation is damage.
ClosureComplete(p) == known[p] # "nothing" => Archived /\ representation # None

\* _require_complete_existing_closure, and _require_repairable_capture_closure when
\* the Document was known without its Representation.
ClosureUsable(p) ==
  CASE known[p] = "closure"  -> Archived /\ representation # None
    [] known[p] = "document" -> Archived /\ representation = None
    [] OTHER                 -> TRUE

CheckClosure(p) ==
  /\ At(p, "check")
  /\ parsed' = [parsed EXCEPT ![p] = text]
  /\ Go(p, IF ~ClosureUsable(p) THEN "record"
           ELSE IF known[p] = "closure" THEN "reuse" ELSE "publish")
  /\ UNCHANGED <<file, archive, ledger, readers, known, beside>>

\* The parser gives a representation, or reasons why there is none, or raises.
Parse(p) ==
  /\ At(p, "parse")
  /\ \E result \in Outputs \cup {"blocked", "error"} : parsed' = [parsed EXCEPT ![p] = result]
  /\ Go(p, "account")
  /\ UNCHANGED <<file, archive, ledger, readers, known, beside>>

\* commit_pdf_page_accounting has a commit of its own.
Account(p) ==
  /\ At(p, "account")
  /\ MayCommit(p)
  /\ accounted' = accounted \cup {p}
  /\ Go(p, CASE parsed[p] = "error" -> "record"
             [] parsed[p] = "blocked" -> "block"
             [] OTHER -> "publish")
  /\ UNCHANGED <<file, archive, captured, attempts, outcome, representation, readers, local,
                 beside>>

\* The key of an outcome is its attempt: the INSERT fails if there is one.
Close(p, how) ==
  /\ MayCommit(p)
  /\ outcome[p] = None
  /\ outcome' = [outcome EXCEPT ![p] = how]
  /\ UNCHANGED <<file, archive, captured, attempts, accounted, readers, local, beside>>

Creates(p) == representation = None

Same(p) == representation # None /\ representation.output = parsed[p]

\* Mutant of Status: the outcome is left to a later transaction.
StatusLater(p) == None

\* Also if the quality report blocks the text.
TextStatus == "succeeded"

Status(p) ==
  IF ~IsPdf THEN TextStatus
  ELSE IF parsed[p] \in Unusable THEN "blocked" ELSE "succeeded"

\* commit_document_representation_processing, commit_pdf_document_processing: the
\* bundle and the outcome in one savepoint, whose release commits.
Publish(p) ==
  /\ At(p, "publish")
  /\ IsPdf => p \in accounted
  /\ Creates(p) \/ Same(p)
  /\ Close(p, Status(p))
  /\ representation' = IF Creates(p) THEN [by |-> p, output |-> parsed[p]] ELSE representation
  /\ Go(p, "done")

\* NonDeterministicParserOutputConflict, or somebody closed the attempt.
PublishFails(p) ==
  /\ outcome[p] # None \/ ~(Creates(p) \/ Same(p))
  /\ Step(p, "publish", "record") /\ UNCHANGED archive

\* The append after a usable closure; commit_blocked_pdf_processing.
Reuse(p) == At(p, "reuse") /\ Close(p, "succeeded") /\ Go(p, "done") /\ UNCHANGED representation

Block(p) == At(p, "block") /\ Close(p, "blocked") /\ Go(p, "done") /\ UNCHANGED representation

\* Neither is inside the try statement that records failures.
CloseFails(p) ==
  /\ outcome[p] # None
  /\ Step(p, "reuse", "failed") \/ Step(p, "block", "failed")
  /\ UNCHANGED archive

FailureStatus == "failed"

\* record_failed_processing_attempt_outcome
RecordFailure(p) ==
  At(p, "record") /\ Close(p, FailureStatus) /\ Go(p, "failed") /\ UNCHANGED representation

RecordingFails(p) == outcome[p] # None /\ Step(p, "record", "failed") /\ UNCHANGED archive

\* "database is locked"
Busy(p) ==
  /\ ~MayCommit(p)
  /\ pc[p] \in {"start", "account", "publish", "reuse", "block", "record"}
  /\ Go(p, IF At(p, "publish") THEN "record" ELSE "failed")
  /\ Release(p)
  /\ UNCHANGED <<file, archive, ledger, local, beside>>

Crash(p) ==
  /\ Active(p)
  /\ Release(p)
  /\ Go(p, "crashed")
  /\ UNCHANGED <<file, archive, ledger, local, beside>>

-----------------------------------------------------------------------------
Init ==
  /\ text \in Outputs \cup {None}
  /\ update \in BOOLEAN
  /\ raw = None
  /\ captured = FALSE
  /\ attempts = {}
  /\ outcome = [p \in Processes |-> None]
  /\ accounted = {}
  /\ representation = None
  /\ readers = {}
  /\ pc = [p \in Processes |-> "idle"]
  /\ known = [p \in Processes |-> "nothing"]
  /\ parsed = [p \in Processes |-> None]
  /\ beside = {}

Next ==
  \E p \in Processes :
    \/ Read(p) \/ FindObject(p) \/ CreateObject(p) \/ WriteObject(p) \/ ObjectWritten(p)
    \/ PutFails(p) \/ CaptureConflicts(p) \/ StartAttempt(p) \/ CheckClosure(p) \/ Parse(p)
    \/ Account(p) \/ Publish(p) \/ PublishFails(p) \/ Reuse(p) \/ Block(p) \/ CloseFails(p)
    \/ RecordFailure(p) \/ RecordingFails(p) \/ Busy(p) \/ Crash(p)

Spec == Init /\ [][Next]_vars
-----------------------------------------------------------------------------
(* Properties *)

Outcomes == {"succeeded", "blocked", "failed", "interrupted"}

TypeOK ==
  /\ text \in Outputs \cup {None}
  /\ update \in BOOLEAN
  /\ raw \in 0 .. Size \cup {None}
  /\ captured \in BOOLEAN
  /\ attempts \subseteq Processes
  /\ outcome \in [Processes -> Outcomes \cup {None}]
  /\ accounted \subseteq attempts
  /\ representation \in [by : attempts, output : Outputs] \cup {None}
  /\ readers \subseteq Processes
  /\ pc \in [Processes -> {"idle", "put", "write", "start", "check", "parse", "account", "publish",
                           "reuse", "block", "record"} \cup Ended]
  /\ known \in [Processes -> {"nothing", "document", "closure"}]
  /\ parsed \in [Processes -> Outputs \cup {"blocked", "error", None}]
  /\ beside \subseteq Processes

\* The Ledger never refers to an object that the Archive does not have in full:
\* whoever wrote it, died writing it or found it, the put comes before the commit.
CapturedIsArchived == captured => Archived

\* Of the attempts of a task at most one is open: the others have their outcome,
\* whatever died and whichever order they started in.
OneOpenAttempt == \A p, q \in attempts : Open(p) /\ Open(q) => p = q

\* What is published was published by an attempt that says so, and says of a PDF that
\* it is blocked if its quality report does: one that failed, was interrupted or has
\* no outcome published nothing, and its process reports nothing.
PublishedByItsAttempt ==
  /\ representation # None =>
       outcome[representation.by] =
         IF IsPdf /\ representation.output \in Unusable THEN "blocked" ELSE "succeeded"
  /\ \A p \in Processes : pc[p] = "done" =>
       outcome[p] \in {"succeeded", "blocked"} /\ (outcome[p] = "succeeded" => representation # None)

\* An outcome and a published representation are immutable, also for an attempt
\* that another process closed while it was at work.
HistoryStays ==
  [][/\ \A p \in Processes : outcome[p] # None => outcome'[p] = outcome[p]
     /\ representation # None => representation' = representation]_vars

\* "converges after restart": after any crash or race, a process that ingests the
\* text by itself succeeds and leaves no attempt open, unless a truncated object
\* is in its way, its own write fails, or the text is an update that was captured
\* before, which no repetition gets past.
AloneConverges ==
  [][\A p \in Processes :
       /\ ~IsPdf /\ p \notin beside'
       /\ pc[p] # "failed" /\ pc'[p] = "failed"
       => ~Archived \/ (update /\ known[p] # "nothing")]_vars
=============================================================================
