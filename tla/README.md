# KoteKomi: a verification project in TLA+

KoteKomi turns source files into an accepted ledger of Assertions: it captures
what it reads, extracts proposals with language models that run in worker
processes, and lets a person approve, edit or reject each proposal. This
directory holds TLA+ models of the parts of that program whose state and
interleavings decide whether the ledger can be trusted, the TLC instances that
check them, and TLAPS proofs about all ten of them.

The paths below are relative to the repository (`src/` in `PROJECT.json`), and
short: `application/` is `packages/application/src/kotekomi_application/`,
`adapters/` is `packages/adapters/src/kotekomi_adapters/` and `pipelines/` is
`packages/pipelines/src/kotekomi_pipelines/`. `PROJECT.json` maps every
definition to the lines it models.

## 1. The system

KoteKomi is a set of command-line processes (`pipelines/cli.py`) over ports and
adapters. Nothing is a server and there is no event loop: concurrency is several
processes on one SQLite file and one archive directory, threads that share a
model worker, and the reader's thread beside the process it supervises. The
application layer is straight-line code inside one ledger transaction for each
use case.

| component | state it keeps | operations | hard behaviour | what makes it correct |
|---|---|---|---|---|
| **Review and acceptance** (`application/proposed_change_review.py`, `grounded_candidates.py`, `planned_proposals.py`) | ProposedChanges, Assertions, entities, evidence links, review activities | submit a grounded or planned batch, approve, edit, reject | long sequences of legal reviews; acceptance overwrites an Assertion by id | inferences stay acyclic and end in direct Assertions; one successor; each direct Assertion tied to evidence; decisions final and attributed |
| **Review queue and drain** (`application/review_queue_packet.py`, `pipelines/cli.py`) | nothing of its own: the pending ProposedChanges, the results of one drain | queue, next, run-next, drain | each item is a transaction of its own beside extraction and other reviewers | what is reported is what was decided; it ends; its order spares failures, but for one pair of types; no accepted reference to a record that is not accepted |
| **Ledger transaction** (`adapters/sqlite_ledger.py`) | SQLite's locks, the open transaction of each process | begin, read, write, commit, rollback | deferred BEGIN: the check is made before the write lock | a use case is as good as one step |
| **Ledger migrations** (`adapters/sqlite_ledger.py`) | the schema, `ledger_migrations` | initialize at every init and ingest | `executescript` commits statement by statement; concurrent starts; crashes | what is recorded is complete; success is true; a failed start can be repeated |
| **Source capture** (`application/source_capture.py`, `source_file_ingest.py`, `structured_news_ingest.py`) | Sources, RawBlobs, SourceCaptures, Documents, resolutions, revision relations | capture with every branch for what is already stored | retries under idempotency keys, versions of a provider, the same bytes for several Sources | one outcome for one key; what a capture stands for is stored; revisions only go forward; deposits of a URL follow each other |
| **Correlated worker transport** (`adapters/correlated_worker_transport.py`) | the worker process and its pipes behind a lock | request, discard, close | late, partial and stray output, exits, a worker that will not die | each request gets its own answer or a failure; one worker at a time; every operation returns |
| **Local archive and candidate wiki** (`adapters/local_archive.py`, `application/briefing_generation.py`) | files named by their content or inputs, staged files, wiki builds and the active one | put, stage and link, publish and activate a build, stage and promote a Briefing | two processes put one object; a crash in the middle of a write; a disk that is full; the Archive and the Ledger commit apart | what is reported is whole and stays; only complete builds and evidence are visible; a row names files that are there |
| **Processing attempts and file ingestion** (`application/processing.py`, `source_file_ingest.py`, `pdf_ingest.py`) | the raw object, the capture, attempts and their outcomes, page accounting, the representation | put, capture, start (committed at once), parse, account, publish, block, fail, reuse | a crash between start and outcome; an attempt closed by another process while it works; failures that roll back the caller's connection; parsers that disagree | nothing captured that is not archived; one open attempt; what is published was published by an attempt that says so; a retry converges, unless it repeats an update |
| **Ingestion runs and hybrid orchestration** (`pipelines/cli.py`, `hybrid_document_ingestion.py`, `application/ingestion_runs.py`, `hybrid_document_orchestration.py`) | runs, change sets, the Analysis Run, ModelRuns, stage outputs, paragraph receipts | start, capture, reuse or run a paragraph, publish its receipt, close the document, record an error | interruption between a transaction and a publication; two runs of one document | a receipt is backed and stays; a run ends once; it is captured exactly when its document is closed |
| **The reader's supervisor** (`adapters/extraction_view/execution.py`, `pipelines/replay_reader/`) | one worker process, the flag and the signal of a cancellation | run, cancel, close the run that stopped | results, deaths and cancellations that cross each other | when it returns, the worker is gone and its run is over; it returns |
| **Model resources** (`adapters/model_resources.py`) | the installation, the backup, staged trees | install, repair, validate, roll back | a crash between two renames or inside a removal; two installers and one backup name | an invalid installation is kept until its replacement is validated; a ready one is reused, and only a clean-up that fails takes it away |
| Analysis coverage, staged extraction, runtimes over HTTP, parsers, linguistic analysis, retrieval, exporters, inspection, experiments | none, or rebuilt from the ledger | - | wording, layout, ranking: data, not control | - |

How they interact:

- `ingest` initializes the ledger (migrations), records an Ingestion Run, writes the
  Archive and captures (`SourceCapture`) in a transaction that commits with the start
  of a processing attempt (`SourceIngestion`), takes the paragraphs of the document
  through their stages and closes it (`IngestionWorkflow`). The reader does the same
  in a process of its own, which it supervises.
- Every stage output, receipt and report goes through `_put_hybrid_evidence`
  (`ArchivePublication`, way "evidence"); every raw object through
  `put_if_absent_or_identical` (way "raw").
- Extraction asks the worker transport (through the adapters for linking and
  qualification) and submits grounded and planned batches: ProposedChanges with
  their evidence. A re-run submits the same identities again.
- `review` commands and `review drain` decide ProposedChanges. Acceptance is the
  only writer of accepted records.
- All of them meet in the ledger file and nowhere else; `sqlite_ledger_transaction`
  is what makes a use case a step for the others.

## 2. Modules

| module | models | abstract specification it implements |
|---|---|---|
| `ReviewAcceptance` | the accepted-state boundary | - |
| `ReviewDrain` | the queue and the drain loop over it | - |
| `LedgerTransaction` | transactions with SQLite's locks, one lock step at a time | `AtomicLedger` |
| `LedgerMigration` | `initialize`, one statement at a time | - |
| `SourceCapture` | `capture_source` and its callers | - |
| `CorrelatedWorker` | the transport, its callers and the worker at the other end | `WorkerExchange` |
| `SourceIngestion` | one file through the Archive, its capture, its attempt and its representation | - |
| `IngestionWorkflow` | a run from its start to its closure, and its supervisor | `IngestionHistory` |
| `ArchivePublication` | the four ways of putting something into the Archive | `AtomicArchive` |
| `ResourceInstallation` | `_install`, one rename or removal at a time | - |
| `MC*` | the constants of the instances TLC checks | - |
| `M_proofs` | theorems about the module `M` and their proofs | - |

Two modules of proofs extend two models each, whose names are therefore kept apart:
`LedgerTransaction_proofs` is also about `LedgerMigration` (the transactions and the
initialization of one Ledger), and `ArchivePublication_proofs` also about
`ResourceInstallation` (what is put in place by renames).

The four abstract specifications are what the users of a component are written
against, and have none of its pieces, locks, pipes and crashes: in `AtomicLedger` a
decision is one step; in `WorkerExchange` each request ends once, with its own answer
or a failure; in `AtomicArchive` an object is there from one step on and for good;
in `IngestionHistory` a run publishes, fails or is captured in one step each, and
only while it is running. Each detailed module has the refinement mapping in its
last section.

Detail is modelled once. `ArchivePublication` has the pieces of a write, the
exclusive names and the crashes between them; `SourceIngestion` keeps the pieces of
the raw object, since a truncated one matters there, and takes capture as one step,
which `SourceCapture` has in all its branches; `IngestionWorkflow` takes capture
and the put of a receipt as one step each.

`ReviewAcceptance`, `ReviewDrain`, `SourceCapture` and `IngestionWorkflow` take a
transaction as one step. That is what `LedgerTransaction` justifies: it has the
deferred BEGIN, the locks, the busy timeout and the crash of each process, and
implements `AtomicLedger`, in which check and decision are one step.

Conventions: one action per operation; a use case that raises is no step,
because its transaction is rolled back; variables are the tables or attributes of
the code under its own names; a definition whose comment begins "Mutant of" is
the plausible bug that the named definition was checked against and is used by
nothing else. No module declares a RECURSIVE operator: reachability is a least
set, or a recursive function over the natural numbers.

### ReviewAcceptance

Variables are the tables: `proposals` (`review_status`, `proposed_json`,
`accepted_record_json`), `assertions`, `entities`, `targets`, `attempts`,
`links`, `activities`. Actions are the use cases:

| action | code |
|---|---|
| `SubmitGroundedBatch` | `submit_grounded_candidate_batch`: saves evidence and attempts, and only the ProposedChanges the ledger does not hold |
| `SubmitPlannedBatch` | `submit_planned_proposal_batch`: all of the batch or nothing |
| `Approve`, `Edit`, `Reject` | `approve_proposed_change`, `edit_proposed_change`, `reject_proposed_change` |
| `AcceptAssertion` (of `Approve` and `Edit`) | `_validate_accepted_record_references`, `_prepared_assertion_evidence_links`, `_validate_assertion_support_graph`, `_validate_supersession_predecessor` and `commit_reviewed_assertion_acceptance` |

The order of the two writes of an acceptance matters and is kept: the
superseded predecessor is saved after the accepted Assertion, so that it wins
when both have one id (`SavedAssertions`). `Reached` is the closure that the
depth-first search of the code computes; `NoCycleIn` says of a set what that
search finds out by its stack.

Abstracted: Organization, Actor and Event records are one kind (`Entity`), the
records an Assertion is about, without the references among them (`ReviewDrain`
has those); the current statuses that behave alike are one; EpistemicScope is
the `form`, since the scope `analytic_inference` and that form imply each other and
the four scopes of a direct Assertion are taken as one; objects, sources and the
wording of records are left out. Relationship, Outcome, ArgumentEdge and
EvidenceTarget proposals have no producer in the source and are not modelled.

### ReviewDrain

`Select` is the first transaction (validation of the selection), `Drain` one
round of `_drain_review_queue_with_item_transactions` (count, queue, first item,
decision), `Submit` and `Review` are extraction and the single-record commands
that run beside it, `Crash` a process that dies or a ledger that is busy. The
queue's order (`Before`), its filters (as the set they match), the limit and the
lookup of the record type before the filters (`Listable`) are the code's.
`RefersTo` is which types of records the review of a type loads; an Event has the
Organizations and Actors it names and the EvidenceTargets of its mentions
(`application/proposed_change_review.py:995`, `source_grounded_events.py:42`).
Not modelled: the edit decision of a drain, the review packet, and the dry run,
which changes nothing.

### LedgerTransaction

`Begin` takes no lock. `Read` takes SHARED and keeps it; `Write` takes RESERVED;
`StartCommit` takes PENDING and `Commit` waits until nobody else reads. `Busy` is
the `OperationalError` after the busy timeout: which of the two that wait for
each other gives up first is left open. `Report` is what the process prints after
the commit. SQLite is external: its locks are modelled as its documentation
describes them for a rollback journal, which is what `_connect` leaves in place
(it sets no journal mode and no timeout, so 5 seconds).

### LedgerMigration

A script is a number of statements, each of which creates one object, with or
without IF NOT EXISTS. `StartScript` commits what was pending (that is what
`executescript` does first), `Statement` commits by itself, `Record` opens the
transaction that the next script or `Finish` commits. `BusyTimeout` is the error of
one that waited too long for the write lock, `Interrupt` the end of a process at any
statement. `MigrationInit` is a new file or one that an earlier release left.

### SourceCapture

One action per kind of caller: `DepositFile` (URL deposits: new bytes are an update of
the latest Document), `IngestLocalFile` (changed bytes are refused) and
`CaptureItem` (callers that choose key, version and revision, such as structured
news). Each of them is one of the branches of `capture_source`: `CaptureNew`,
`CaptureWithoutDocument`, `CaptureWithoutResolution`; a replay changes nothing and
a conflict is no step. `Saved` is a row that is inserted unless its key has one.
A Document has `after`, its place in the order in which Documents of the Source were
saved, and `at`, its `created_at`. The stamp is read from the wall clock before the
transaction, so that a deposit takes any of `Stamps`: later than those before it,
equal or earlier. `Latest` are the Documents with the highest stamp; the code
takes the one with the greatest id among equals, which is a hash, so that the
model leaves it open. `Payloads` bounds the contents that each Source may have.
Metadata that a retry compares is one value (`Details`); corrections, clarifications
and withdrawals are treated as updates are; the key of a file is the fingerprint of
its Source and bytes. The representation and the attempt that follow are in
`SourceIngestion`.

### CorrelatedWorker

`calls` is what each thread is doing, `channel` the locals of the one that holds
`self._lock`, `process` is `self._process`; `stdin`, `stdout` and `midway` are the
pipes and the worker. A frame is a head and the tail that ends in the newline, so a
worker may stop between the two and a read may return any part of what is in the
pipe. There is no clock: a deadline may run out at any moment of the exchange,
and an allowance of the clean-up at any moment of a wait. The worker is external:
it may be slow, stop, answer twice, write out of turn and exit at any step, and
it may survive SIGKILL for longer than the allowance. The JSON schema of the
envelope is one verdict (`Malformed`).

### SourceIngestion

`raw` is the object in the Archive, as the number of its pieces; `captured` stands
for Source, capture and Document together, which one transaction writes. `readers`
are the connections that have read in their transaction: they keep others from
committing (`MayCommit`), and one that cannot commit for too long is `Busy`. `text` is
the representation that the text is, which may be one that its quality report
blocks (an empty file), or `None` for a PDF; `update` says that the URL had
another Document before.

| action | code |
|---|---|
| `Read` | the queries that decide between a new closure, a Document without a representation, and a complete closure |
| `FindObject`, `CreateObject`, `WriteObject`, `ObjectWritten`, `PutFails` | `put_if_absent_or_identical` |
| `CaptureConflicts` | `capture_source` refuses the repeated capture of an update, for which the caller asks as an ORIGINAL once the Document is there (`source_file_ingest.py:219`, `source_capture.py:456` and `:212`): the transaction is rolled back |
| `StartAttempt` | `capture_source`, then `begin_processing_task`: open attempts are closed as interrupted, a new one starts, and `commit_processing_attempt_start` commits all of it |
| `CheckClosure`, `Reuse` | `_require_complete_existing_closure`, `_require_repairable_capture_closure` and the outcome after them |
| `Parse`, `Account`, `Block` | the parser of a PDF, `commit_pdf_page_accounting` with its own commit, `commit_blocked_pdf_processing` |
| `Publish`, `PublishFails` | the bundle and its outcome in one savepoint |
| `RecordFailure`, `RecordingFails`, `CloseFails` | `record_failed_processing_attempt_outcome`, and what happens if the attempt was closed by somebody else |

A text has one representation, given by its bytes, and its attempt succeeds also if
the quality report says "empty_text" and BLOCKED (`TextStatus`); the attempt at a PDF
is blocked then (`Status`). A PDF parser may give another representation each time,
which the Ledger refuses. A retry has the same path, filename and media type as the
attempt it repeats; what other callers' retries do is in `SourceCapture`. The build and the parser's configuration
are fixed, so that there is one task. Transformation blobs are puts like that of
the raw object and are left out.

### IngestionWorkflow

One process for each run. `supervised` is the run of the reader, alone on a Ledger of
its own, or `None`: then the runs are started from a shell. A paragraph goes
through numbered stages, each in two halves: its output is archived, then its
transaction commits, or the other way round for the `Late` stages (HP-6 and HP-7,
whose output is published after the transaction). Paragraphs in `Unasked` are
those in which no model is asked, so that two executions give the same bytes;
others name ModelRuns with random ids (`Author`). A blocked HP-1 ends a paragraph
after its first stage.

`CloseDocument` is the last transaction: coverage over valid receipts, the Analysis
Run if it is the first, the change set and the completion of the run.
`RecordError` is `_record_user_ingestion_error`; `Escape` is an exception that
nobody records, or a failure to record one; `Die` is the end of a process at any
point. Of all this `IngestionHistory` has the statuses, change sets, Analysis Run and
receipts, under the same names. The supervisor is `IngestionProcess.run` (`Launch`, `Observe`, `LoopEnds`,
`Signal`, `Reap`, `GiveUp`), `cancel` in the thread of the user interface, and
`finalize_inspection_execution` (`CloseRun`).

Assumed: the supervisor itself does not die, and its last transaction commits (it is
alone on its Ledger); what is in the Archive is whole, which is what
`ArchivePublication` shows of evidence. What the stages compute, the reconciliation of
entities and the content of the proposals are data.

### ArchivePublication

`way` is one of the four ways of putting, one to a behaviour, since they use
different directories. A payload is written in `Size` pieces. `Start` and `Compare`
look at the name; `Create`, `Write`, `Written` are `_write_bytes` or
`_write_wiki_build`, in place for "raw" and in the staging directory otherwise;
`Link`, `Replace` and `Activate`, `Promote` and `SaveBriefing` make it visible.
`WriteFails` leaves what the code leaves: a file that was being written, in place
or staged; only a stage directory and what a Briefing had staged before are
removed. The names of staged files are random and never shared.

The store of `AtomicArchive` has under each name what is `Stored`: the payload, once
the file has all its pieces. `PutNames` are the names that a put ends under, one or,
for a Briefing, two; `Accepted` are the processes that were told "created" or
"reused"; the active build is the one the pointer names.

### ResourceInstallation

`target` and `backup` are the two directories that installers share, each a tree
with the installer that staged it, whether it passes inspection, and whether it is
`whole`: `rmtree` is two steps, after the first of which it is not. A rename over a
directory succeeds only if that is empty; while another process removes it, it may
be or not, so that both happen. `Die` runs no handler. `Raises` is an `OSError` or a
`KeyboardInterrupt` of any call, which goes to the `except BaseException` branch
(`Undo`, `Restore`) with whatever the call has done so far: also while the backup is
removed after the validation (`dropping`), between the rename and `published = True`,
and in the handler itself. `raised`, `found` and `beside` are history variables:
whether a call of the installer raised, "early" (before the validation is over) or
"late" (a clean-up, or the rename whose `published` is not set); what it found when it
inspected; and whether another one ever ran at the same time.

## 3. Runs

Twelve runs: ten that pass, and two that show a disagreement of the code and
what is said of it (section 6). Each property of a passing run has a mutant in
`PROJECT.json`: a definition changed the way a bug would, with which TLC finds
that property violated under the same configuration. Type invariants and some
consequences of the properties are not checked by a run but proved (section 5).

| run | distinct states | bounds | why they are enough |
|---|---|---|---|
| `review` | 110,753 | 3 Assertions, 5 ProposedChanges, 2 targets, 3 attempts, 2 grounded and 1 planned batch, edits of ids, premises, evidence, predecessor and status | three Assertions are the smallest chain that an overwrite can close; a re-run with its own attempt makes the link conflict happen; one predicate and one reviewer, since both are only compared |
| `drain` | 379,466 | 2 drains, 5 inputs, 5 proposals, one of each kind that matters | two drains over a chain of references of length three and the EvidenceTarget of an Event, with labels against the order of types; the lineage proposal makes the queue unlistable |
| `ledger_transaction` | 4,086 | 3 processes, 2 changes | two that race and one that reads; the theorem covers the rest |
| `migration` | 25,319 | 3 processes, scripts of 1, 2 and 1 statements | the plain script lies between two guarded ones and has a statement to die at |
| `capture` | 63,565 | one Source of each kind, 3 contents (2 for the item), 2 stamps, 2 keys, version or none, 2 kinds | three deposits are needed for a chain that forks, and two stamps for a clock that advances, stands still or goes back; contents and keys are symmetric (only compared) |
| `worker` | 53,496 | 2 threads, 2 requests, 1 stray frame | one late or stray answer is enough to be taken for the next request's |
| `publication` | 369,000 | 3 processes, 2 payloads, 2 pieces | two that race for a name and one that comes later; two pieces are the shortest write that can be seen in part |
| `ingestion` | 560,605 | 3 processes, one attempt each, a text (usable or not) or a PDF with 3 parser results (one unusable), new or an update, 1 piece | one that died, one at work and one that closes its attempt; an object without its piece is truncated |
| `workflow` | 71,343 | 2 runs, documents of 0 to 2 paragraphs, 3 stages of which the second is late, paragraph 2 without a model | two executions of one paragraph; one paragraph reused and one executed; a late stage between two others |
| `resources` | 2.96 million | one installation, two repairs, any call of which may raise | one that died, and two that race for what it left |

What they show:

- **`review`**: `SupportAcyclic` (the search of the code starts at the new premises
  only, and acceptance may overwrite an Assertion others rest on: it still never
  closes a cycle); `OneSuccessor`; `DecisionTraceable`; and of every step
  `DecisionFinal`, `SupersessionAtomic` and `ChangesAttributed`.
- **`drain`**: `ReportIsTruthful`, `ReferencesClosed`, `RequirementsComeFirst` (a failed
  item did not wait for one of another type that the same drain would have reached
  later, unless it is an Event that waits for an EvidenceTarget: section 6) and
  `DrainEnds`.
- **`ledger_transaction`**: `ReportedDecisionsHold` (two reviewers are never both
  told that they decided one ProposedChange), `ImplementsAtomicLedger`,
  `TransactionsEnd` (two readers that both want to write do not wait for ever).
- **`migration`**: `RecordedComplete` and `InitializationEnds`.
- **`capture`**: `NothingUnresolved` (whichever branch wrote the closure),
  `RevisionsForward`, and `DepositsAreChain`: each deposit of a URL but the first
  revises exactly one that was saved before it, and where the clock advanced between
  those, the last of them.
- **`worker`**: `PoisonedTerminated`, `OneWorker`, `OperationsReturn` and
  `ImplementsExchange` (each request gets its own answer or a failure, and a worker
  that one request failed on answers none after it).
- **`publication`**: `AcceptedIsWhole` (what a process reported is under its name with
  its content, also when another one died there), `ActiveIsPublished`,
  `BriefingHasFiles` and `ImplementsArchive` (objects enter the store whole, in one
  step and for good, however their files are written).
- **`ingestion`**: `CapturedIsArchived` (the Ledger never refers to an object that is
  not whole), `OneOpenAttempt`, `PublishedByItsAttempt` (an attempt that was closed by
  another process while at work publishes nothing) and `AloneConverges`: whatever
  crashed or raced before, a text that is ingested by itself succeeds unless its
  object is truncated or cannot be written, or it is an update whose capture is
  repeated. Only the ingestion of an original converges (section 6).
- **`workflow`**: `ReceiptsBacked` (whatever dies between a transaction and a
  publication, a receipt that is there can be reused), `ImplementsHistory` (only a run
  that is running publishes, fails or is captured, and it is captured in one step,
  with a change set that is true, over one analysis for all runs), `NoWorkTwice`
  (only runs at a time do the work of a paragraph twice),
  `ReturnedIsOver` and `SupervisorReturns`.
- **`resources`**: `InvalidKept`, `FailureRestores`, `AloneSucceeds` (nothing that
  installers leave behind makes a later repair fail whose own calls do not raise) and
  `ReadyStays` (a ready installation is taken away only by installers at a time, or by
  the handler of the one that published it). The first three are about installers
  that nobody disturbs, after any that raced, raised or died. `FailureRestores` and
  `ReadyStays` have the failing clean-up as their exception, and section 6 says
  what it does, and what two installers at a time can do. The two repairs are
  symmetric, and the configuration's `VIEW` leaves out of an installer that has ended
  what it knew and how it ended: no action reads that, and no property speaks of an
  installer that is neither active nor takes a step.

`CHECK_DEADLOCK FALSE` is set where the system may stop: when everything is
decided, every process has ended or crashed, or every caller has closed.

## 4. Fairness

| module | assumed | why the code justifies it |
|---|---|---|
| `CorrelatedWorker` | WF of `Proceed`, WF of `Acquire(c)` for each caller | the thread that holds the lock runs straight-line code under a monotonic deadline; a free `threading.Lock` goes to a waiter. With finitely many requests weak fairness is enough: a waiter is not overtaken for ever. Nothing is assumed of the worker |
| `LedgerTransaction` | WF of `Proceed(p)` for each process | a transaction is straight-line code and the busy timeout is finite. Nothing says that a transaction succeeds |
| `ReviewDrain` | WF of `Drain(d)` | the loop runs on; crashes and other reviewers are not fair |
| `LedgerMigration` | WF of `Step(p)` for each process | a loop over a fixed list of files, finite busy timeout |
| `IngestionWorkflow` | WF of `Supervise`, WF of the death of a process that was sent a signal | the supervisor's loop polls with a timeout and its clean-up is bounded; a process group that gets SIGTERM and SIGKILL dies. Nothing is assumed of the worker: it may be in a model call for ever, and then only a cancellation ends it. If the signal is too slow the supervisor gives up (`GiveUp`, "Unable to reap"), which counts as returning |

The other modules make no liveness claim: nobody has to review, ingest, publish
or install, and a run that is started from a shell and dies stays "running"
(`docs/2026-08-24-user-ingestion-run-mvp.md:518` says so).

## 5. Proofs

TLC shows the properties for the instances above; the theorems hold for every
value of the constants that the modules' assumptions admit: any number of
processes, runs, drains, threads, requests, paragraphs, stages and proposals.
The assumptions are about shapes and names only: identifiers of different kinds
differ, what may be submitted or edited are records of the right shape, a
migration script has a statement, a document a stage, and `None` is none of the
values it stands beside (`OutputsAssumption` and `WorkflowAssumption` spell these
out, since a model value that is not assumed to differ could be any of them).

| module | theorems |
|---|---|
| `ReviewAcceptance` | `TypeOK`, `SupportAcyclic`, `InferenceTerminates`, `OneSuccessor`, `DirectBacked`, `DecisionTraceable`, `DecisionFinal`, `SupersessionAtomic`, `ChangesAttributed` |
| `LedgerTransaction` | `TypeOK`, `ReportedDecisionsHold`, `ImplementsAtomicLedger` |
| `LedgerMigration` | `MigrationTypeOK`, `RecordedComplete`, `RecordedInOrder`, `SuccessIsTrue` |
| `SourceCapture` | `NothingUnresolved`, `RevisionsForward`, `DepositsAreChain`, and that there is no circle of revisions (`NoCircle`) |
| `ReviewDrain` | `TypeOK`, `ReportIsTruthful`, `ReferencesClosed`, `RequirementsComeFirst` |
| `CorrelatedWorker` | `PoisonedTerminated`, `OneWorker`, the safety half of `ImplementsExchange` |
| `SourceIngestion` | `TypeOK`, `CapturedIsArchived`, `OneOpenAttempt`, `PublishedByItsAttempt`, `HistoryStays`, `AloneConverges` |
| `ArchivePublication` | `TypeOK`, `AcceptedIsWhole`, `VisibleIsWhole`, `ActiveIsPublished`, `BriefingHasFiles`, `PublishedStays`, `ImplementsArchive` |
| `IngestionWorkflow` | `TypeOK`, `ReceiptsBacked`, `CapturedIsClosed`, `NoWorkTwice`, `ReturnedIsOver`, `TerminalStays`, `ReceiptsStay`, `ImplementsHistory` |
| `ResourceInstallation` | `InvalidKept`, `FailureRestores`, `AloneSucceeds`, `ReadyStays` |

**`ReviewAcceptance_proofs`**. Acyclicity is not inductive alone. An acceptance
searches from the new premises; that the search finds every cycle needs that what it
walks is all in the ledger. The strengthening is

    SupportInv == TypeOK /\ SupportAcyclic /\ Grounded

where `Grounded` says that every known analytic Assertion has premises and all of
them are known. The steps: `StepEffect` and `AcceptEffect` reduce every action
to "one Assertion is replaced and one is marked superseded"; `ReachedClosed` says
that `Reached` holds its supports and is closed under premises; `AcyclicUpdate`,
that replacing the premises of a node by a set from which it cannot be reached
keeps the graph acyclic, whoever rests on that node. A set of Assertions without a
direct one in it would be a set in which every member has a premise, which
acyclicity excludes: that gives `InferencesTerminate` without induction.
`SuccessorUnique` and `DirectAlwaysBacked` are inductive over `TypeOK` and the
effects of a step. For the decisions, `ReviewSteps` reduces every step to a
submission or the review of one pending ProposedChange. `DecisionTraceable` needs
beside it that an accepted record that is no entity is one of the Assertions
(`AcceptedNamed`), since only of those is known that they stay; and it is what
makes `ChangesAttributed` hold: that a pending ProposedChange has no review
yet makes the activity of the step a new one.

**`LedgerTransaction_proofs`**. The inductive invariant adds to the type that

- between its check and its commit a process holds SHARED, and the ProposedChange
  it is about to decide is still pending (`CheckedHolds`), and
- what it committed and has not reported yet is decided by it (`CommittedHolds`).

`CheckedHolds` survives the commit of another process because a commit waits until
nobody else holds SHARED: then nobody else is past its check. That is all a
deferred BEGIN has to rely on, and the reason the code is right without BEGIN
IMMEDIATE. Each step maps to a step of `AtomicLedger` (`Commit`) or leaves the
ledger as it is.

**`LedgerMigration`** (in `LedgerTransaction_proofs`), from `ScriptsAssumption` (each
script has a statement). The invariant follows one process through the files:

- the statements of its script before the next one have been executed
  (`ScriptCreated`), so what it inserts is complete;
- what it read as applied is recorded (`KnownRecorded`), and every file it has
  passed is recorded or inserted by it and not yet committed
  (`PassedRecorded`), so that a commit leaves no gap and a process at the end of
  the list has everything recorded;
- two processes never pass the same file as their own (`AppliedOnce`): the INSERT
  waits for the write lock and refuses a version that is recorded, so whatever
  others have passed is in `recorded` when it succeeds.

That the next file is the first one not applied and not passed
(`NextVersionFirst`) rests on the well-foundedness of the natural numbers. The
theorems hold beside crashes at any statement; that an interrupted script cannot be
executed again is no contradiction to them (`migration_interrupted`).

**`ReviewDrain_proofs`**. `ReportIsTruthful` and `ReferencesClosed` are inductive
with `Records`: what a drain or a reviewer decided is no longer pending, a drain has
one input, and has executed nothing before its selection. `RequirementsComeFirst` is
about the order of the queue: that a non-empty queue has a first item
(`FirstInQueue`) rests on the well-foundedness of the natural numbers (`Least`), and
what would have come before the failed item is then itself in the queue before it,
unless its type is the same, or the two are an Event and an EvidenceTarget: for every
other pair of types that refer to each other the rank decides (`OrderOfReferences`).

**`CorrelatedWorker_proofs`**. What the pipes hold plays no part in the argument:
any bytes may be read at any time. The invariant is `Typed`; `Slot`, that the worker
that may run is `self._process` or the one that the operation with the lock is
cleaning up; `Pending`, that a request that a caller has made is not decided and
nobody else's; and `Unpoisoned`, that `self._process` is none that a request failed
on. For the refinement, `Counted` says that there are no more workers than requests
that have had the lock (`Served`), so that `WorkerExchange` has a number for each of
them; then every step of the transport is one of its steps or a stutter.

**`SourceCapture_proofs`**. Documents are content-addressed and carry no order of
their own; the code sorts them by a stamp of the wall clock. The invariant adds to the
type that the Documents of a Source are numbered from 0 without a gap in the order
in which they were saved (`Numbered`), and that those of a URL have a stamp
(`Dated`). Where the clock advanced between them, `Latest` is therefore the one with
the highest number (`LatestIsLast`); otherwise it is any that was saved before.
`RequestsAreAsked` reduces the three callers to what they have in common: an earlier
Document that is named is stored and of the same Source, and a deposit names one
of the latest. `CaptureEffect`
reduces the branches of `capture_source` to two: one new Document, or none. From
there a revision leads to a higher number (`RevisionsForward`), a deposit revises
one that was saved before it, the last where the clock advanced
(`DepositsAreChain`), and any set of Documents has one that is
no revision of another in the set, the one with the least number: a circle of any
length is impossible, and `_would_create_revision_cycle` has nothing to find among
what these callers ask for.

**`SourceIngestion_proofs`**. Nothing keeps a process from being at work on an attempt
that another one has closed; what protects the records is that the outcome is
written once, with the publication or without it. The invariant says so for each
place of a process: it has an attempt from the commit that starts it on
(`Started`), only attempts that were started have an outcome
(`OutcomeOfAttempt`), nobody comes to the Ledger before the object is whole
(`ObjectFirst`), what is published was parsed (`ParsedFirst`), and what is reused is
there (`ReuseBacked`). `AloneConverges` has an invariant of its own (`AloneInv`): what a
process that runs by itself found in the Ledger is still so, and its attempt is open
until it closes it. What is left are the put and the conflict of a repeated update,
and the theorem names both.

**`ArchivePublication_proofs`**. Two halves: what a step of one process does to the
others (`Effect`: a file under a name keeps its payload, one that is whole does
not change, and what others have staged is left alone), and what each process
knows of its own files at each of its places (`Underway`). `WayOf` says which steps
belong to which way, `NamedRight` that a name has what it is the name of, and all of
it unless it is that of a raw object.

For `ImplementsArchive` each step is taken by what it adds to the store. A step that
writes the last piece of a raw file in place, promotes a staged one or renames a
build is a `Put`; the report or the row after it, an activation and a comparison that
finds the same bytes are an `Accept`; a `Link` is both at once, since the put of
evidence returns with it; all others, the pieces of a write and its failures among
them, are stutters (`SilentStep`), because `Stored` sees only whole files
(`StoredWhole`). A `Put` finds nothing under the name because the creation of the raw
file and the link are exclusive, a rename of a directory fails on one that is there,
and a promotion looks first; that an `Accept` finds everything under its names is in
`Inv`; and that nothing leaves the store is `Effect`.

**`IngestionWorkflow_proofs`**. The evidence only grows (`EvidenceGrows`), and a process
does nothing to another one but through evidence and analysis (`OthersSame`). The
invariant has six layers, each proved from those before it: types (`TypeInv`);
the stages that a process has done of its paragraph (`BackedInv`), from which a
receipt is backed when it is published; what a process may say when it closes
(`ClosureInv`: which paragraphs it executed, and that the Analysis Run is about the
receipts that are in the Archive); what the supervisor has seen (`SupervisionInv`);
what a process may assume while nobody runs beside it (`AloneOf`); and that the run
of a process that works is "running" (`RunningOf`), which needs that the supervisor
only closes a run whose process is no more.

For `ImplementsHistory` the start, the put of a receipt, the close and the recorded or
supervised failure are one step each of `IngestionHistory` (`StartHistory`,
`PublishHistory`, `CloseHistory`, `FailHistory`, `SupervisorHistory`), and everything
else is a stutter. That a receipt is only put by a run that is running is
`RunningOf`. That a change set is true (`CloseIsTrue`) goes by the evidence: a receipt
that names the run is backed by a ModelRun of it, and a run has ModelRuns only of
paragraphs that it executed (`ReceiptsExecuted`), so that a run that calls the
document "reused" is in no receipt. That all runs close over one analysis follows
from `ReceiptsStay`: both are functions over the same receipts.

**`ResourceInstallation`** (in `ArchivePublication_proofs`). Installers take no
lock, so that nothing can be said of two that are at work together; the four
properties are about one that is not, whatever ran before it. The invariant says
that one that works by itself is the only one at work (`AloneIsOnly`), that an
installer only replaces what it found not ready (`FoundUnready`), that what it
staged is whole and its own (`StagedWhole`), and of one that works by itself where
both directories are at each of its places (`Undisturbed`: the invalid installation
is in `target` up to the first rename and in `backup` from then on until the
replacement is validated or it is put back). An error leads to the handler from any
place (`RaisedHandled`); after a late one nothing is claimed of the backup, which may
be half removed. The invariant is kept because no other process can
take a step without being active, and a second active one ends the claim for both.
What a dead installer left is only constrained by the type: every combination of
whole, partly removed and empty trees in both places is a state from which the next
one starts.

Only model-checked: liveness (`TransactionsEnd`, `DrainEnds`, `InitializationEnds`,
`OperationsReturn`, `SupervisorReturns` and the liveness of `WorkerExchange`), which
the prover does not reach. Every invariant and every action property that a passing
run checks is proved; so is the safety of the four refinements, all of it but for
`WorkerExchange`, whose liveness is part of the property. What
the recursive function `Later` of `SourceCapture` computes would take induction
over data; no proof needs it, since it only decides which requests are refused, and
TLC evaluates it on the instance.

## 6. Where the code and its documents disagree

| run | what happens |
|---|---|
| `drain_lineage` | One pending SourceLineageRelation proposal makes the queue, and every drain, fail, also those whose filter excludes it. |
| `migration_interrupted` | A process that dies inside migration 006 leaves a file on which every later initialization fails at its first CREATE TABLE. |

Seen while modelling, without a run of their own:

- An accepted record may carry the id of a superseded Assertion and replaces that
  historical record (`adapters/sqlite_ledger.py:574`;
  `docs/2026-07-08-KoteKomi.md:957`: "A superseded Assertion keeps its original
  record.").
- The predecessor check compares `subject_entity_id`, which is None for every
  literal subject, so that an Assertion about one literal subject supersedes one
  about another (`application/proposed_change_review.py:1259`; AEBL-13).
- A known key with the bytes of another known blob creates a second Document for
  that capture instead of a conflict (`application/source_capture.py:133`).
- A file whose Document was stored as an update cannot be deposited again, because
  the retry asks for an original (`application/source_file_ingest.py:219`,
  `source_capture.py:456` and `:212`). "The same idempotency key plus the same
  canonical request produces the same committed outcome"
  (`docs/2026-07-11-source-capture-and-document-versioning.md:51`), and "Restarting and
  retrying after every injected failure must converge on the same complete closure"
  (`docs/2026-07-11-R0-verification.md:471`): an update whose process dies between the
  capture and the publication never gets its representation. `AloneConverges`
  holds for everything else.
- The predecessor of a deposit is the Document with the highest `created_at`, and among
  equals the greatest id (`application/source_file_ingest.py:754`). The stamp is taken
  before the transaction (`pipelines/cli.py:2512`): if the clock stands still or goes
  back, or two processes start in one order and commit in the other, two deposits
  may revise the same Document. `DepositsAreChain` says what holds then.
- An empty text is published with a quality report that says BLOCKED and
  "empty_text", under an attempt whose outcome is SUCCEEDED
  (`application/source_file_ingest.py:365` and `:422`); a PDF with a blocked report has a
  blocked attempt (`application/pdf_ingest.py:679`).
- "Existing review order presents Organizations, Actors, Events, and Assertions in
  dependency order" (`docs/2026-09-03-hybrid-proposed-change-integration.md:231`). An
  Event also needs the EvidenceTargets of its mentions
  (`application/proposed_change_review.py:995`, `source_grounded_events.py:42`), which the
  order puts after it: were an EvidenceTarget ever proposed, a drain would fail at the
  Event and end. Nothing in the source proposes one; grounded batches save them
  directly.
- `reconcile_interrupted_processing_attempts` says "starts left open by an unclean
  stop" (`application/processing.py:238`), and closes the attempts of live processes
  as well: the one at work then fails when it publishes, and reports an error for
  a representation that a retry makes. `HistoryStays` and `PublishedByItsAttempt` say
  what is kept.
- "An unexpected exception leaves the IngestionRun in an error state"
  (`docs/2026-09-03-hybrid-document-orchestration.md:210`): `ingest_user_file` catches
  three kinds of exceptions (`pipelines/cli.py:2627`), and the recorder of the failure
  does not catch `sqlite3.Error` (`cli.py:3432`), so that the run stays "running"
  unless a supervisor closes it.
- If the removal of the backup fails after the replacement was validated
  (`adapters/model_resources.py:1046`), the handler for replacements that failed removes
  the ready installation and renames the half-removed backup into its place
  (`:1053` to `:1057`). An interrupt between the rename and `published = True`
  (`:1038`) leaves the new installation, not validated, and the backup beside it. A
  later repair succeeds in both cases (`AloneSucceeds`).
- Of two installers of one resource, the first to validate may find the other's
  tree in place of its own and report it; when that one then fails its own
  validation or clean-up, it removes what was reported
  (`adapters/model_resources.py:1040` and `:1054`).
- An edit that supersedes the Assertion it overwrites is reported as accepted,
  while the second write of the acceptance stores the old record as superseded
  (`application/proposed_change_review.py:1240`).
- An Assertion that is submitted after a drain's selection was validated is
  approved by that drain when a canonical predicate is given
  (`pipelines/cli.py:3747`).
- Bytes that were stored first under another media type make a later re-ingest of
  the same file a conflict (`application/source_capture.py:439`).
- `attributed_statement_proposal.py:124` and `source_lineage.py:80` report an
  edited proposal that exists as pending.

## 7. Not modelled, and the plan

Not modelled, and why:

- **Analysis coverage and staged extraction**: the repair and retry of a model's
  answer are sequential inside one transaction, and their output is what
  `ReviewAcceptance` and `IngestionWorkflow` take as data. `build_coverage_report` is a
  pure function and a candidate for a module of its own.
- **The managed llama server** (`pipelines/managed_llama_server.py`): starts, waits for
  and stops one external server; the next candidate among the processes.
- **Retrieval projections**: rebuilt from the Ledger inside one transaction.
- **Attributed statement proposals**: a deterministic proposal whose review is in
  `ReviewAcceptance`.
- Exceptions outside the types a handler expects: `_canonical_json` in
  `_decode_exchange` (`adapters/correlated_worker_transport.py:327`) can raise a
  UnicodeEncodeError for a lone surrogate, or json a RecursionError, neither of which
  discards the worker; `on_composed` runs outside the `try`
  (`pipelines/ingestion_workflow.py:99`); an error of the supervisor's own loop.
- `find_reusable_completed_analysis` and `close_ingestion_change_set`
  (`application/ingestion_change_sets.py`) have no caller in the packages.
- The edit decision of a drain, its packet and dry run; the record types that
  nothing in the source proposes.

Next: `build_coverage_report` as a pure function against a reference definition, the
managed llama server as a module of its own, and an abstract, append-only history
that the deposits of `SourceCapture` implement.

Left out for good: parsing, layout, ranking, prompts and the models themselves
(data that no property here tells apart), stateless HTTP clients, rendering, and
offline experiments. `PROJECT.json` lists every component with its status, and
every hazard with the properties about it.
