--------------------------- MODULE LedgerTransaction ---------------------------
(***************************************************************************)
(* sqlite_ledger_transaction: command-line processes that share one SQLite *)
(* file.  A use case reads a ProposedChange, checks that it is pending and *)
(* writes its decision between BEGIN (deferred) and COMMIT; any exception, *)
(* a busy database among them, rolls the transaction back.                 *)
(*                                                                         *)
(* The file locks are SQLite's, with the rollback journal and the 5 second *)
(* busy timeout of sqlite3.connect that _connect leaves as they are.       *)
(***************************************************************************)
EXTENDS FiniteSets

CONSTANTS Processes, Changes, Pending, None

ASSUME NamesAssumption == Pending \notin Processes /\ None \notin Processes \cup Changes

VARIABLES
  ledger,     \* committed: the process that decided each change, or Pending
  step,       \* how far the transaction of each process is
  change,     \* the ProposedChange it is about
  shared,     \* processes that hold a SHARED lock
  reserved,   \* the process that holds the RESERVED lock
  closing,    \* it holds the PENDING lock too: no new SHARED lock is granted
  reported    \* what each process has told its user it decided

vars == <<ledger, step, change, shared, reserved, closing, reported>>

-----------------------------------------------------------------------------
\* rollback() or the end of the process: locks are released, nothing is written.
Release(p) ==
  /\ shared' = shared \ {p}
  /\ reserved' = IF reserved = p THEN None ELSE reserved
  /\ closing' = (closing /\ reserved # p)

Ends(p, at) ==
  /\ step' = [step EXCEPT ![p] = at]
  /\ change' = [change EXCEPT ![p] = None]
  /\ Release(p)

\* execute("BEGIN"): deferred, so no lock is taken.
Begin(p, c) ==
  /\ step[p] = "idle"
  /\ step' = [step EXCEPT ![p] = "begun"]
  /\ change' = [change EXCEPT ![p] = c]
  /\ UNCHANGED <<ledger, shared, reserved, closing, reported>>

\* Mutant of SharedAfterRead: the check runs outside of the transaction.
UnlockedRead(p) == shared

\* The lock of the first read is kept until the transaction ends.
SharedAfterRead(p) == shared \cup {p}

\* _get_pending_proposed_change: a decided change is an error.
Read(p) ==
  /\ step[p] = "begun"
  /\ ~closing
  /\ IF ledger[change[p]] = Pending
     THEN /\ step' = [step EXCEPT ![p] = "checked"]
          /\ shared' = SharedAfterRead(p)
          /\ UNCHANGED <<change, reserved, closing>>
     ELSE Ends(p, "idle")
  /\ UNCHANGED <<ledger, reported>>

\* The first statement that writes takes the RESERVED lock.
Write(p) ==
  /\ step[p] = "checked"
  /\ reserved = None
  /\ reserved' = p
  /\ step' = [step EXCEPT ![p] = "written"]
  /\ UNCHANGED <<ledger, change, shared, closing, reported>>

\* commit(): PENDING first, then EXCLUSIVE once no other process reads.
StartCommit(p) ==
  /\ step[p] = "written"
  /\ closing' = TRUE
  /\ step' = [step EXCEPT ![p] = "committing"]
  /\ UNCHANGED <<ledger, change, shared, reserved, reported>>

Commit(p) ==
  /\ step[p] = "committing"
  /\ shared \subseteq {p}
  /\ ledger' = [ledger EXCEPT ![change[p]] = p]
  /\ step' = [step EXCEPT ![p] = "committed"]
  /\ Release(p)
  /\ UNCHANGED <<change, reported>>

Report(p) ==
  /\ step[p] = "committed"
  /\ reported' = [reported EXCEPT ![p] = @ \cup {change[p]}]
  /\ Ends(p, "idle")
  /\ UNCHANGED ledger

\* Mutant of Blocked: a process that holds a lock waits for the other for ever.
BlockedReader(p) == step[p] = "begun" /\ closing

Blocked(p) ==
  \/ step[p] = "begun" /\ closing
  \/ step[p] = "checked" /\ reserved # None
  \/ step[p] = "committing" /\ ~(shared \subseteq {p})

\* "database is locked": OperationalError, so the transaction is rolled back.
Busy(p) ==
  /\ Blocked(p)
  /\ Ends(p, "idle")
  /\ UNCHANGED <<ledger, reported>>

\* The process dies; the journal it leaves undoes what it had not committed.
Crash(p) ==
  /\ step[p] \notin {"idle", "dead"}
  /\ Ends(p, "dead")
  /\ UNCHANGED <<ledger, reported>>

-----------------------------------------------------------------------------
Init ==
  /\ ledger = [c \in Changes |-> Pending]
  /\ step = [p \in Processes |-> "idle"]
  /\ change = [p \in Processes |-> None]
  /\ shared = {}
  /\ reserved = None
  /\ closing = FALSE
  /\ reported = [p \in Processes |-> {}]

Proceed(p) ==
  Read(p) \/ Write(p) \/ StartCommit(p) \/ Commit(p) \/ Report(p) \/ Busy(p)

Next == \E p \in Processes :
          Proceed(p) \/ Crash(p) \/ \E c \in Changes : Begin(p, c)

\* A transaction is straight-line code, and the busy timeout is finite.
Spec == Init /\ [][Next]_vars /\ \A p \in Processes : WF_vars(Proceed(p))
-----------------------------------------------------------------------------
(* Properties *)

TypeOK ==
  /\ ledger \in [Changes -> Processes \cup {Pending}]
  /\ step \in [Processes -> {"idle", "begun", "checked", "written", "committing",
                            "committed", "dead"}]
  /\ change \in [Processes -> Changes \cup {None}]
  /\ \A p \in Processes : step[p] \notin {"idle", "dead"} => change[p] \in Changes
  /\ shared \subseteq Processes
  /\ reserved \in Processes \cup {None}
  /\ closing \in BOOLEAN
  /\ reported \in [Processes -> SUBSET Changes]

\* What a process was told is decided is decided by it: two reviewers who race
\* for one ProposedChange are never both told that they decided it.
ReportedDecisionsHold ==
  \A p \in Processes : \A c \in reported[p] : ledger[c] = p

\* However transactions interleave, wait, fail and crash, the ledger changes as
\* if each use case were one step.
Atomic == INSTANCE AtomicLedger

ImplementsAtomicLedger == Atomic!Spec

\* Two processes that wait for each other's lock do not wait for ever.
TransactionsEnd ==
  \A p \in Processes : step[p] \notin {"idle", "dead"} ~> step[p] \in {"idle", "dead"}
=============================================================================
