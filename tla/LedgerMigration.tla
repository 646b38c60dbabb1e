---------------------------- MODULE LedgerMigration ----------------------------
(***************************************************************************)
(* SQLiteLedgerInitializer.initialize: every ledger init and every ingest  *)
(* brings the SQLite file up to date, beside other processes that do so    *)
(* and after ones that died on the way.                                    *)
(*                                                                         *)
(* executescript commits the open transaction and then every statement of  *)
(* the script by itself; the INSERT after it opens a transaction that the  *)
(* next script, or the end, commits.  BEGIN and CREATE TABLE IF NOT EXISTS *)
(* ledger_migrations come before all of it and are left out.               *)
(***************************************************************************)
EXTENDS Integers, Sequences, FiniteSetsExt

CONSTANTS
  Initializers,
  Size,      \* the number of statements of each migration script, in file order
  Plain,     \* migrations whose statements lack IF NOT EXISTS
  Required   \* objects that _verify_required_tables looks for

Versions == DOMAIN Size
Objects == UNION {{v} \X (1 .. Size[v]) : v \in Versions}

ASSUME ScriptsAssumption ==
  /\ Size \in Seq(Nat \ {0})
  /\ Plain \subseteq Versions
  /\ Required \subseteq Objects

VARIABLES
  created,    \* objects in the file, each <<version, statement>>
  recorded,   \* committed rows of ledger_migrations
  pc,         \* where each process is
  known,      \* applied_versions, read once
  version,    \* the migration it is at
  statement,  \* the next statement of that script
  pending     \* rows it has inserted and not committed: it holds the write lock

migrationVars == <<created, recorded, pc, known, version, statement, pending>>

-----------------------------------------------------------------------------
Active(p) == pc[p] \in {"next", "script"}

\* What is not committed is undone, by rollback or by the journal.
End(p, how) ==
  /\ pc' = [pc EXCEPT ![p] = how]
  /\ pending' = [pending EXCEPT ![p] = {}]
  /\ UNCHANGED <<created, recorded, known, version, statement>>

Open(p) ==
  /\ pc[p] = "idle"
  /\ pc' = [pc EXCEPT ![p] = "next"]
  /\ known' = [known EXCEPT ![p] = recorded]
  /\ UNCHANGED <<created, recorded, version, statement, pending>>

Remaining(p) == {v \in Versions : v > version[p] /\ v \notin known[p]}

NextVersion(p) == Min(Remaining(p))

CommitRows(p) ==
  /\ recorded' = recorded \cup pending[p]
  /\ pending' = [pending EXCEPT ![p] = {}]

StartScript(p) ==
  /\ pc[p] = "next"
  /\ Remaining(p) # {}
  /\ CommitRows(p)
  /\ version' = [version EXCEPT ![p] = NextVersion(p)]
  /\ statement' = [statement EXCEPT ![p] = 1]
  /\ pc' = [pc EXCEPT ![p] = "script"]
  /\ UNCHANGED <<created, known>>

Locked(p) == \E q \in Initializers \ {p} : pending[q] # {}

\* Mutant of ScriptDone: the last statement does not count.
ScriptAlmostDone(p) == statement[p] >= Size[version[p]]

ScriptDone(p) == statement[p] > Size[version[p]]

ScriptGoesOn(p) == statement[p] <= Size[version[p]]

\* One statement of a script: CREATE fails on what exists, IF NOT EXISTS does not.
Statement(p) ==
  /\ pc[p] = "script"
  /\ ScriptGoesOn(p)
  /\ ~Locked(p)
  /\ LET object == <<version[p], statement[p]>> IN
       IF object \in created /\ version[p] \in Plain
       THEN End(p, "failed")
       ELSE /\ created' = created \cup {object}
            /\ statement' = [statement EXCEPT ![p] = @ + 1]
            /\ UNCHANGED <<recorded, pc, known, version, pending>>

Unrecorded(v) == v \notin recorded

\* Mutant of AfterInsert: the loop does not go on to the next file.
SameScript == "script"

AfterInsert == "next"

\* INSERT INTO ledger_migrations, whose key is the version.
Record(p) ==
  /\ pc[p] = "script"
  /\ ScriptDone(p)
  /\ ~Locked(p)
  /\ IF Unrecorded(version[p])
     THEN /\ pending' = [pending EXCEPT ![p] = {version[p]}]
          /\ pc' = [pc EXCEPT ![p] = AfterInsert]
          /\ UNCHANGED <<created, recorded, known, version, statement>>
     ELSE End(p, "failed")

\* "database is locked": another process held the write lock for too long.
BusyTimeout(p) == pc[p] = "script" /\ Locked(p) /\ End(p, "failed")

Verified == Required \subseteq created

Finish(p) ==
  /\ pc[p] = "next"
  /\ Remaining(p) = {}
  /\ IF Verified
     THEN /\ CommitRows(p)
          /\ pc' = [pc EXCEPT ![p] = "done"]
          /\ UNCHANGED <<created, known, version, statement>>
     ELSE End(p, "failed")

Interrupt(p) == Active(p) /\ End(p, "crashed")

-----------------------------------------------------------------------------
\* The file is new, or an earlier release of the program made it.
MigrationInit ==
  /\ \E n \in 0 .. Len(Size) : /\ recorded = 1 .. n
                               /\ created = {o \in Objects : o[1] <= n}
  /\ pc = [p \in Initializers |-> "idle"]
  /\ known = [p \in Initializers |-> {}]
  /\ version = [p \in Initializers |-> 0]
  /\ statement = [p \in Initializers |-> 1]
  /\ pending = [p \in Initializers |-> {}]

Step(p) == StartScript(p) \/ Statement(p) \/ Record(p) \/ BusyTimeout(p) \/ Finish(p)

MigrationNext == \E p \in Initializers : Open(p) \/ Step(p) \/ Interrupt(p)

\* initialize is a loop over a fixed list, and the busy timeout is finite.
MigrationSpec ==
  /\ MigrationInit
  /\ [][MigrationNext]_migrationVars
  /\ \A p \in Initializers : WF_migrationVars(Step(p))
-----------------------------------------------------------------------------
(* Properties *)

MigrationTypeOK ==
  /\ created \subseteq Objects
  /\ recorded \subseteq Versions
  /\ pc \in [Initializers -> {"idle", "next", "script", "done", "failed", "crashed"}]
  /\ known \in [Initializers -> SUBSET Versions]
  /\ version \in [Initializers -> Versions \cup {0}]
  /\ statement \in [Initializers -> Nat]
  /\ \A p \in Initializers : pc[p] = "script" => statement[p] \in 1 .. Size[version[p]] + 1
  /\ pending \in [Initializers -> SUBSET Versions]

\* A migration that is recorded is complete, whatever its process or the ones
\* beside it went through: no later start will look at its script again.
RecordedComplete ==
  \A v \in recorded \cup UNION {pending[p] : p \in Initializers} :
     \A k \in 1 .. Size[v] : <<v, k>> \in created

\* Migrations are recorded in file order without a gap, also by processes that
\* read the table at different times.
RecordedInOrder == \A v \in recorded : \A w \in 1 .. v : w \in recorded

\* A process that reports success leaves a ledger that is up to date, and no two
\* of them report that they applied the same migration.
SuccessIsTrue ==
  /\ (\E p \in Initializers : pc[p] = "done") => recorded = Versions /\ created = Objects
  /\ \A p, q \in Initializers : pc[p] = "done" /\ pc[q] = "done" /\ p # q =>
                               Versions \subseteq known[p] \cup known[q]

\* Processes that wait for each other's write lock end.
InitializationEnds == \A p \in Initializers : Active(p) ~> ~Active(p)

\* test_initialize_existing_ledger_is_idempotent: an initialization that has no
\* other beside it or before it that succeeded does not fail.
AloneSucceeds ==
  [][\A p \in Initializers : pc[p] # "failed" /\ pc'[p] = "failed" =>
       \E q \in Initializers \ {p} : Active(q) \/ pc[q] = "done"]_migrationVars
=============================================================================
