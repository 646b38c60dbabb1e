----------------------- MODULE LedgerTransaction_proofs -----------------------
(***************************************************************************)
(* For any number of processes and ProposedChanges: the ledger changes as  *)
(* if each review decision were one step, and what a process reported is   *)
(* what the ledger says.                                                   *)
(*                                                                         *)
(* The argument rests on the SHARED lock: from its check to the end of its *)
(* transaction a process holds it, and a commit waits until nobody else    *)
(* does.  So no other process is past its check when one commits, and what *)
(* each of them checked is still true when it comes to commit itself.      *)
(***************************************************************************)
EXTENDS LedgerTransaction, LedgerMigration, WellFoundedInduction, TLAPS

\* Between its check and its commit a process holds a SHARED lock, and the
\* ProposedChange it is about to decide is still pending.
CheckedHolds ==
  \A p \in Processes :
    step[p] \in {"checked", "written", "committing"} =>
      p \in shared /\ ledger[change[p]] = Pending

\* What a process committed and has not reported yet is decided by it.
CommittedHolds == \A p \in Processes : step[p] = "committed" => ledger[change[p]] = p

Inv == TypeOK /\ CheckedHolds /\ CommittedHolds /\ ReportedDecisionsHold

-----------------------------------------------------------------------------
LEMMA InitInv == Init => Inv
  BY NamesAssumption DEF Init, Inv, TypeOK, CheckedHolds, CommittedHolds, ReportedDecisionsHold

\* A step that ends a transaction without writing: a refusal, a busy database, a
\* crash, and what is left of a report.
LEMMA EndsKeepsInv ==
  ASSUME Inv, NEW p \in Processes, NEW at \in {"idle", "dead"}, Ends(p, at), UNCHANGED ledger,
         \/ UNCHANGED reported
         \/ /\ step[p] = "committed"
            /\ reported' = [reported EXCEPT ![p] = @ \cup {change[p]}]
  PROVE  Inv'
  <1>1. TypeOK'
    BY DEF Inv, TypeOK, Ends, Release
  <1>2. CheckedHolds'
    BY DEF Inv, TypeOK, CheckedHolds, Ends, Release
  <1>3. CommittedHolds'
    BY DEF Inv, TypeOK, CommittedHolds, Ends, Release
  <1>4. ReportedDecisionsHold'
    BY DEF Inv, TypeOK, CommittedHolds, ReportedDecisionsHold
  <1> QED
    BY <1>1, <1>2, <1>3, <1>4 DEF Inv

\* The commit of p: nobody else is past its check, and what others decided or
\* reported is not what p decides, which was pending.
LEMMA CommitKeepsInv ==
  ASSUME Inv, NEW p \in Processes, Commit(p)
  PROVE  Inv'
  <1>1. /\ change[p] \in Changes
        /\ ledger[change[p]] = Pending
        /\ ledger' = [ledger EXCEPT ![change[p]] = p]
        /\ step' = [step EXCEPT ![p] = "committed"]
        /\ UNCHANGED <<change, reported>>
    BY DEF Inv, TypeOK, CheckedHolds, Commit
  <1>2. TypeOK'
    BY <1>1 DEF Inv, TypeOK, Commit, Release
  <1>3. CheckedHolds'
    <2>1. ASSUME NEW q \in Processes, step'[q] \in {"checked", "written", "committing"}
          PROVE  FALSE
      <3>1. q # p /\ q \in shared
        BY <1>1, <2>1 DEF Inv, TypeOK, CheckedHolds
      <3> QED
        BY <3>1 DEF Commit
    <2> QED
      BY <2>1 DEF CheckedHolds
  <1>4. CommittedHolds'
    <2>1. ASSUME NEW q \in Processes, step'[q] = "committed"
          PROVE  ledger'[change'[q]] = q
      <3>1. CASE q = p
        BY <1>1, <3>1 DEF Inv, TypeOK
      <3>2. CASE q # p
        <4>1. ledger[change[q]] = q /\ q # Pending /\ change[q] \in Changes
          BY <1>1, <2>1, <3>2, NamesAssumption DEF Inv, TypeOK, CommittedHolds
        <4> QED
          BY <1>1, <4>1 DEF Inv, TypeOK
      <3> QED
        BY <3>1, <3>2
    <2> QED
      BY <2>1 DEF CommittedHolds
  <1>5. ReportedDecisionsHold'
    BY <1>1, NamesAssumption DEF Inv, TypeOK, ReportedDecisionsHold
  <1> QED
    BY <1>2, <1>3, <1>4, <1>5 DEF Inv

LEMMA NextInv == Inv /\ [Next]_vars => Inv'
  <1> SUFFICES ASSUME Inv, [Next]_vars
               PROVE  Inv'
    OBVIOUS
  <1>1. ASSUME NEW p \in Processes, NEW c \in Changes, Begin(p, c)
        PROVE  Inv'
    BY <1>1 DEF Inv, TypeOK, CheckedHolds, CommittedHolds, ReportedDecisionsHold, Begin
  <1>2. ASSUME NEW p \in Processes, Read(p)
        PROVE  Inv'
    <2>1. CASE ledger[change[p]] = Pending
      <3>1. /\ step' = [step EXCEPT ![p] = "checked"]
            /\ shared' = shared \cup {p}
            /\ step[p] = "begun"
            /\ UNCHANGED <<ledger, change, reserved, closing, reported>>
        BY <1>2, <2>1 DEF Read, SharedAfterRead
      <3> QED
        BY <2>1, <3>1 DEF Inv, TypeOK, CheckedHolds, CommittedHolds, ReportedDecisionsHold
    <2>2. CASE ledger[change[p]] # Pending
      BY <1>2, <2>2, EndsKeepsInv DEF Read
    <2> QED
      BY <2>1, <2>2
  <1>3. ASSUME NEW p \in Processes, Write(p)
        PROVE  Inv'
    BY <1>3 DEF Inv, TypeOK, CheckedHolds, CommittedHolds, ReportedDecisionsHold, Write
  <1>4. ASSUME NEW p \in Processes, StartCommit(p)
        PROVE  Inv'
    BY <1>4 DEF Inv, TypeOK, CheckedHolds, CommittedHolds, ReportedDecisionsHold, StartCommit
  <1>5. ASSUME NEW p \in Processes, Commit(p)
        PROVE  Inv'
    BY <1>5, CommitKeepsInv
  <1>6. ASSUME NEW p \in Processes, Report(p)
        PROVE  Inv'
    BY <1>6, EndsKeepsInv DEF Report
  <1>7. ASSUME NEW p \in Processes, Busy(p)
        PROVE  Inv'
    BY <1>7, EndsKeepsInv DEF Busy
  <1>8. ASSUME NEW p \in Processes, Crash(p)
        PROVE  Inv'
    BY <1>8, EndsKeepsInv DEF Crash
  <1>9. CASE UNCHANGED vars
    BY <1>9 DEF vars, Inv, TypeOK, CheckedHolds, CommittedHolds, ReportedDecisionsHold
  <1> QED
    BY <1>1, <1>2, <1>3, <1>4, <1>5, <1>6, <1>7, <1>8, <1>9 DEF Next, Proceed

LEMMA Invariance == Spec => []Inv
  BY InitInv, NextInv, PTL DEF Spec

-----------------------------------------------------------------------------
\* The ledger, the locks and the transactions of the processes are well typed, and
\* a transaction under way is about a ProposedChange.
THEOREM TypeCorrect == Spec => []TypeOK
  <1>1. Inv => TypeOK
    BY DEF Inv
  <1> QED
    BY <1>1, Invariance, PTL

\* Two reviewers who race for one ProposedChange are never both told that they
\* decided it.
THEOREM ReportsHold == Spec => []ReportedDecisionsHold
  <1>1. Inv => ReportedDecisionsHold
    BY DEF Inv
  <1> QED
    BY <1>1, Invariance, PTL

-----------------------------------------------------------------------------
\* The one step that changes the ledger is a commit, and it decides a
\* ProposedChange that was pending.
LEMMA StepDecides ==
  ASSUME Inv, [Next]_vars
  PROVE  [Atomic!Next]_ledger
  <1>1. ASSUME NEW p \in Processes, Commit(p)
        PROVE  Atomic!Next
    <2>1. Atomic!Decide(p, change[p]) /\ change[p] \in Changes
      BY <1>1 DEF Inv, TypeOK, CheckedHolds, Commit, Atomic!Decide
    <2> QED
      BY <2>1 DEF Atomic!Next
  <1>2. ASSUME NEW p \in Processes,
               \/ \E c \in Changes : Begin(p, c)
               \/ Read(p) \/ Write(p) \/ StartCommit(p) \/ Report(p) \/ Busy(p) \/ Crash(p)
        PROVE  UNCHANGED ledger
    BY <1>2 DEF Begin, Read, Write, StartCommit, Report, Busy, Crash
  <1>3. CASE UNCHANGED vars
    BY <1>3 DEF vars
  <1> QED
    BY <1>1, <1>2, <1>3 DEF Next, Proceed

\* Transactions that interleave, wait, fail and crash implement the ledger in which
\* each decision is one step.
THEOREM ImplementsAtomic == Spec => ImplementsAtomicLedger
  <1>1. Init => Atomic!Init
    BY DEF Init, Atomic!Init
  <1>2. Inv /\ [Next]_vars => [Atomic!Next]_ledger
    BY StepDecides
  <1> QED
    BY <1>1, <1>2, Invariance, PTL DEF Spec, ImplementsAtomicLedger, Atomic!Spec

-----------------------------------------------------------------------------
(***************************************************************************)
(* The ledger that these transactions share is the one that initialize     *)
(* brings up to date, as LedgerMigration models it.  For any number of     *)
(* processes and any list of migration scripts: what is recorded is        *)
(* complete and without a gap, and a process that reports success leaves a *)
(* ledger that is up to date.                                              *)
(*                                                                         *)
(* The argument follows one process through the files.  Versions it has    *)
(* passed are committed by somebody, apart from the one it has inserted    *)
(* and still holds the write lock for; the objects of the script it is in  *)
(* exist up to its statement.  A process inserts a version only while no   *)
(* other holds the lock, so that none of them can have inserted it as well.*)
(***************************************************************************)
\* A process is in the script of a file, and the statements before the next one
\* have been executed, by this process or by an earlier one.
ScriptCreated ==
  \A p \in Initializers : pc[p] = "script" =>
    /\ version[p] \in Versions
    /\ \A k \in 1 .. statement[p] - 1 : <<version[p], k>> \in created

\* What a process read as applied is applied, and a process that has not begun
\* has passed no file.
KnownRecorded ==
  \A p \in Initializers : known[p] \subseteq recorded /\ (pc[p] = "idle" => version[p] = 0)

\* The versions a process has dealt with, skipped ones included.
Passed(p) ==
  {v \in Versions : v < version[p] \/ (v = version[p] /\ pc[p] # "script")}

Running(p) == pc[p] \in {"idle", "next", "script", "done"}

\* Files are passed in order, and each one that a process has passed is recorded,
\* or inserted by it and not committed yet.
PassedRecorded ==
  \A p \in Initializers :
    /\ Running(p) => Passed(p) \subseteq recorded \cup pending[p]
    /\ pending[p] # {} => pc[p] = "next" /\ pending[p] = {version[p]}
    /\ pc[p] = "done" => Versions \subseteq Passed(p) \cup known[p]

\* The migrations that a process can report as its own.
Applied(p) == Passed(p) \ known[p]

AppliedOnce ==
  \A p, q \in Initializers :
    p # q /\ Running(p) /\ Running(q) => Applied(p) \cap Applied(q) = {}

MigrationInv == /\ MigrationTypeOK /\ ScriptCreated /\ RecordedComplete /\ KnownRecorded
                /\ PassedRecorded /\ RecordedInOrder /\ AppliedOnce
-----------------------------------------------------------------------------
(* Scripts *)

\* Versions are 1 .. n, each script has a statement, and an object is a
\* statement of a script.
LEMMA VersionsFacts ==
  /\ Len(Size) \in Nat
  /\ Versions = 1 .. Len(Size)
  /\ Versions \subseteq Nat
  /\ \A v \in Versions : Size[v] \in Nat /\ Size[v] >= 1
  /\ \A v \in Versions : \A k \in 1 .. Size[v] : <<v, k>> \in Objects
  /\ \A o \in Objects : \E v \in Versions : \E k \in 1 .. Size[v] : o = <<v, k>>
  <1>1. Len(Size) \in Nat /\ Versions = 1 .. Len(Size)
    BY ScriptsAssumption DEF Versions
  <1>2. \A v \in Versions : Size[v] \in Nat /\ Size[v] >= 1
    BY ScriptsAssumption DEF Versions
  <1>3. \A v \in Versions : \A k \in 1 .. Size[v] : <<v, k>> \in Objects
    BY DEF Objects
  <1>4. \A o \in Objects : \E v \in Versions : \E k \in 1 .. Size[v] : o = <<v, k>>
    BY DEF Objects
  <1> QED
    BY <1>1, <1>2, <1>3, <1>4

\* The order of the files is well founded.
Earlier == {pair \in Nat \X Nat : pair[1] < pair[2]}

LEMMA EarlierWellFounded == IsWellFoundedOn(Earlier, Nat)
  BY NatLessThanWellFounded DEF OpToRel, Earlier

\* The next file is the first one that was not applied and not passed.
LEMMA NextVersionFirst ==
  ASSUME MigrationTypeOK, NEW p \in Initializers, Remaining(p) # {}
  PROVE  /\ NextVersion(p) \in Remaining(p)
         /\ \A v \in Remaining(p) : NextVersion(p) <= v
  <1>1. Remaining(p) \subseteq Nat
    BY VersionsFacts DEF Remaining
  <1>2. PICK v \in Remaining(p) : \A w \in Remaining(p) : ~(<<w, v>> \in Earlier)
    BY <1>1, WFMin, EarlierWellFounded
  <1>3. \A w \in Remaining(p) : v <= w
    <2>1. ASSUME NEW w \in Remaining(p)
          PROVE  v <= w
      <3>1. w \in Nat /\ v \in Nat
        BY <1>1
      <3>2. w < v => <<w, v>> \in Earlier
        BY <3>1 DEF Earlier
      <3> QED
        BY <1>2, <3>1, <3>2
    <2> QED
      BY <2>1
  <1> QED
    BY <1>3 DEF NextVersion, Min

-----------------------------------------------------------------------------
(* The invariant *)

LEMMA InitMigration ==
  ASSUME MigrationInit
  PROVE  MigrationInv
  <1>1. PICK n \in 0 .. Len(Size) : recorded = 1 .. n /\ created = {o \in Objects : o[1] <= n}
    BY DEF MigrationInit
  <1>2. recorded \subseteq Versions
    BY <1>1, VersionsFacts
  <1>3. MigrationTypeOK
    BY <1>1, <1>2 DEF MigrationInit, MigrationTypeOK
  <1>4. RecordedComplete
    <2>1. ASSUME NEW v \in recorded, NEW k \in 1 .. Size[v]
          PROVE  <<v, k>> \in created
      BY <1>1, <1>2, VersionsFacts
    <2> QED
      BY <2>1 DEF MigrationInit, RecordedComplete
  <1>5. RecordedInOrder
    BY <1>1, VersionsFacts DEF RecordedInOrder
  <1>6. \A p \in Initializers : Passed(p) = {}
    BY VersionsFacts DEF MigrationInit, Passed
  <1>7. PassedRecorded /\ AppliedOnce
    BY <1>6 DEF MigrationInit, PassedRecorded, AppliedOnce, Applied
  <1> QED
    BY <1>3, <1>4, <1>5, <1>7 DEF MigrationInit, MigrationInv, ScriptCreated, KnownRecorded

\* A process that fails or dies: what it had inserted is gone, and it can report
\* nothing.
LEMMA EndKeepsMigration ==
  ASSUME MigrationInv, NEW p \in Initializers, NEW how \in {"failed", "crashed"},
         End(p, how)
  PROVE  MigrationInv'
  <1>1. MigrationTypeOK'
    BY DEF MigrationInv, MigrationTypeOK, End
  <1>2. ScriptCreated' /\ KnownRecorded'
    BY DEF MigrationInv, MigrationTypeOK, ScriptCreated, KnownRecorded, End
  <1>3. RecordedComplete' /\ RecordedInOrder'
    BY DEF MigrationInv, MigrationTypeOK, RecordedComplete, RecordedInOrder, End
  <1>4. ASSUME NEW q \in Initializers, Running(q)'
        PROVE  /\ q # p /\ Running(q)
               /\ Passed(q)' = Passed(q) /\ Applied(q)' = Applied(q)
    BY <1>4 DEF MigrationInv, MigrationTypeOK, End, Passed, Applied, Running
  <1>5. PassedRecorded'
    <2>1. ASSUME NEW q \in Initializers, Running(q)'
          PROVE  (Passed(q) \subseteq recorded \cup pending[q])'
      BY <1>4, <2>1 DEF MigrationInv, MigrationTypeOK, PassedRecorded, End
    <2>2. ASSUME NEW q \in Initializers
          PROVE  /\ (pending[q] # {} => pc[q] = "next" /\ pending[q] = {version[q]})'
                 /\ (pc[q] = "done" => Versions \subseteq Passed(q) \cup known[q])'
      BY DEF MigrationInv, MigrationTypeOK, PassedRecorded, End, Passed
    <2> QED
      BY <2>1, <2>2 DEF PassedRecorded
  <1>6. AppliedOnce'
    <2>1. ASSUME NEW q \in Initializers, NEW r \in Initializers, q # r, Running(q)', Running(r)'
          PROVE  (Applied(q) \cap Applied(r) = {})'
      BY <1>4, <2>1 DEF MigrationInv, AppliedOnce
    <2> QED
      BY <2>1 DEF AppliedOnce
  <1> QED
    BY <1>1, <1>2, <1>3, <1>5, <1>6 DEF MigrationInv

\* A step of p that commits what p had inserted completes and loses nothing.
LEMMA RecordingKeeps ==
  ASSUME MigrationInv, NEW p \in Initializers, pc[p] = "next",
         CommitRows(p), created' = created
  PROVE  /\ recorded' \subseteq Versions
         /\ recorded \subseteq recorded'
         /\ RecordedComplete' /\ RecordedInOrder'
         /\ Passed(p) \subseteq recorded'
         /\ \A q \in Initializers : recorded \cup pending[q] \subseteq recorded' \cup pending'[q]
  <1>1. /\ recorded' = recorded \cup pending[p]
        /\ pending' = [pending EXCEPT ![p] = {}]
        /\ pending \in [Initializers -> SUBSET Versions]
        /\ recorded \subseteq Versions
    BY DEF MigrationInv, MigrationTypeOK, CommitRows
  <1>2. RecordedComplete'
    BY <1>1 DEF MigrationInv, RecordedComplete
  <1>3. RecordedInOrder'
    <2>1. ASSUME NEW v \in pending[p], NEW w \in 1 .. v
          PROVE  w \in recorded'
      <3>1. v = version[p] /\ v \in Versions
        BY <1>1, <2>1 DEF MigrationInv, PassedRecorded
      <3>2. w \in Passed(p)
        BY <3>1, VersionsFacts DEF Passed
      <3> QED
        BY <1>1, <3>2 DEF MigrationInv, PassedRecorded, Running
    <2> QED
      BY <1>1, <2>1 DEF MigrationInv, RecordedInOrder
  <1> QED
    BY <1>1, <1>2, <1>3 DEF MigrationInv, PassedRecorded, Running

-----------------------------------------------------------------------------
(* The steps *)

LEMMA OpenKeepsMigration ==
  ASSUME MigrationInv, NEW p \in Initializers, Open(p)
  PROVE  MigrationInv'
  <1>1. MigrationTypeOK'
    BY DEF MigrationInv, MigrationTypeOK, Open
  <1>2. ScriptCreated' /\ KnownRecorded' /\ RecordedComplete' /\ RecordedInOrder'
    BY DEF MigrationInv, MigrationTypeOK, ScriptCreated, KnownRecorded, RecordedComplete,
           RecordedInOrder, Open
  <1>3. Passed(p)' = {} /\ Applied(p)' = {}
    BY VersionsFacts DEF MigrationInv, MigrationTypeOK, KnownRecorded, Open, Passed, Applied
  <1>4. ASSUME NEW q \in Initializers, q # p
        PROVE  /\ Passed(q)' = Passed(q) /\ Applied(q)' = Applied(q)
               /\ Running(q)' = Running(q)
    BY <1>4 DEF MigrationInv, MigrationTypeOK, Open, Passed, Applied, Running
  <1>5. PassedRecorded'
    <2>1. ASSUME NEW q \in Initializers, Running(q)'
          PROVE  (Passed(q) \subseteq recorded \cup pending[q])'
      <3>1. CASE q = p
        BY <1>3, <3>1
      <3>2. CASE q # p
        BY <1>4, <2>1, <3>2 DEF MigrationInv, PassedRecorded, Open
      <3> QED
        BY <3>1, <3>2
    <2>2. ASSUME NEW q \in Initializers
          PROVE  /\ (pending[q] # {} => pc[q] = "next" /\ pending[q] = {version[q]})'
                 /\ (pc[q] = "done" => Versions \subseteq Passed(q) \cup known[q])'
      BY DEF MigrationInv, MigrationTypeOK, PassedRecorded, Open, Passed
    <2> QED
      BY <2>1, <2>2 DEF PassedRecorded
  <1>6. AppliedOnce'
    <2>1. ASSUME NEW q \in Initializers, NEW r \in Initializers, q # r, Running(q)', Running(r)'
          PROVE  (Applied(q) \cap Applied(r) = {})'
      BY <1>3, <1>4, <2>1 DEF MigrationInv, AppliedOnce
    <2> QED
      BY <2>1 DEF AppliedOnce
  <1> QED
    BY <1>1, <1>2, <1>5, <1>6 DEF MigrationInv

\* From one file to the next: the versions in between were read as applied.
LEMMA StartScriptKeepsMigration ==
  ASSUME MigrationInv, NEW p \in Initializers, StartScript(p)
  PROVE  MigrationInv'
  <1> DEFINE next == NextVersion(p)
  <1>1. /\ pc[p] = "next" /\ CommitRows(p) /\ created' = created /\ known' = known
        /\ version' = [version EXCEPT ![p] = next]
        /\ statement' = [statement EXCEPT ![p] = 1]
        /\ pc' = [pc EXCEPT ![p] = "script"]
    BY DEF StartScript
  <1>2. /\ next \in Versions /\ next > version[p] /\ next \notin known[p]
        /\ \A v \in Versions : v > version[p] /\ v < next => v \in known[p]
    <2>1. next \in Remaining(p) /\ \A v \in Remaining(p) : next <= v
      BY NextVersionFirst DEF StartScript, MigrationInv
    <2>2. version[p] \in Nat
      BY VersionsFacts DEF MigrationInv, MigrationTypeOK
    <2> HIDE DEF next
    <2> QED
      BY <2>1, <2>2, VersionsFacts DEF Remaining
  <1> HIDE DEF next
  <1>3. /\ recorded' \subseteq Versions /\ recorded \subseteq recorded'
        /\ RecordedComplete' /\ RecordedInOrder' /\ Passed(p) \subseteq recorded'
        /\ \A q \in Initializers : recorded \cup pending[q] \subseteq recorded' \cup pending'[q]
    BY <1>1, RecordingKeeps
  <1>4. MigrationTypeOK'
    BY <1>1, <1>2, <1>3, VersionsFacts DEF MigrationInv, MigrationTypeOK, CommitRows
  <1>5. ScriptCreated' /\ KnownRecorded'
    BY <1>1, <1>2, <1>3 DEF MigrationInv, MigrationTypeOK, ScriptCreated, KnownRecorded
  <1>6. Passed(p)' \subseteq Passed(p) \cup known[p] /\ Applied(p)' = Applied(p)
    <2>1. version[p] \in Nat
      BY VersionsFacts DEF MigrationInv, MigrationTypeOK
    <2> QED
      BY <1>1, <1>2, <2>1, VersionsFacts DEF MigrationInv, MigrationTypeOK, Passed, Applied
  <1>7. ASSUME NEW q \in Initializers, q # p
        PROVE  /\ Passed(q)' = Passed(q) /\ Applied(q)' = Applied(q)
               /\ Running(q)' = Running(q)
    BY <1>1, <1>7 DEF MigrationInv, MigrationTypeOK, Passed, Applied, Running
  <1>8. PassedRecorded'
    <2>1. ASSUME NEW q \in Initializers, Running(q)'
          PROVE  (Passed(q) \subseteq recorded \cup pending[q])'
      <3>1. CASE q = p
        BY <1>3, <1>6, <3>1 DEF MigrationInv, KnownRecorded
      <3>2. CASE q # p
        <4>1. Passed(q) \subseteq recorded \cup pending[q]
          BY <1>7, <2>1, <3>2 DEF MigrationInv, PassedRecorded
        <4> QED
          BY <1>3, <1>7, <3>2, <4>1
      <3> QED
        BY <3>1, <3>2
    <2>2. ASSUME NEW q \in Initializers
          PROVE  /\ (pending[q] # {} => pc[q] = "next" /\ pending[q] = {version[q]})'
                 /\ (pc[q] = "done" => Versions \subseteq Passed(q) \cup known[q])'
      BY <1>1 DEF MigrationInv, MigrationTypeOK, PassedRecorded, CommitRows, Passed
    <2> QED
      BY <2>1, <2>2 DEF PassedRecorded
  <1>9. AppliedOnce'
    <2>1. ASSUME NEW q \in Initializers, NEW r \in Initializers, q # r, Running(q)', Running(r)'
          PROVE  (Applied(q) \cap Applied(r) = {})'
      <3>1. Applied(q)' = Applied(q) /\ Applied(r)' = Applied(r)
        BY <1>6, <1>7
      <3>2. Running(q) /\ Running(r)
        BY <1>1, <1>7, <2>1 DEF Running
      <3> QED
        BY <2>1, <3>1, <3>2 DEF MigrationInv, AppliedOnce
    <2> QED
      BY <2>1 DEF AppliedOnce
  <1> QED
    BY <1>3, <1>4, <1>5, <1>8, <1>9 DEF MigrationInv

\* A statement adds an object to the ones of its script.
LEMMA StatementKeepsMigration ==
  ASSUME MigrationInv, NEW p \in Initializers, Statement(p)
  PROVE  MigrationInv'
  <1>1. CASE <<version[p], statement[p]>> \in created /\ version[p] \in Plain
    BY <1>1, EndKeepsMigration DEF Statement
  <1>2. CASE ~(<<version[p], statement[p]>> \in created /\ version[p] \in Plain)
    <2>1. /\ pc[p] = "script" /\ statement[p] <= Size[version[p]]
          /\ created' = created \cup {<<version[p], statement[p]>>}
          /\ statement' = [statement EXCEPT ![p] = @ + 1]
          /\ UNCHANGED <<recorded, pc, known, version, pending>>
      BY <1>2 DEF Statement, ScriptGoesOn
    <2>2. /\ statement[p] \in Nat /\ statement[p] >= 1
          /\ version[p] \in Versions /\ Size[version[p]] \in Nat
      <3>1. statement[p] \in 1 .. Size[version[p]] + 1 /\ version[p] \in Versions
        BY <2>1 DEF MigrationInv, MigrationTypeOK, ScriptCreated
      <3> QED
        BY <3>1, VersionsFacts
    <2>3. <<version[p], statement[p]>> \in Objects
      BY <2>1, <2>2, VersionsFacts
    <2>4. MigrationTypeOK'
      BY <2>1, <2>2, <2>3 DEF MigrationInv, MigrationTypeOK
    <2>5. ScriptCreated'
      <3> SUFFICES ASSUME NEW q \in Initializers, pc'[q] = "script"
                   PROVE  /\ version'[q] \in Versions
                          /\ \A k \in 1 .. statement'[q] - 1 : <<version'[q], k>> \in created'
        BY DEF ScriptCreated
      <3>1. ASSUME NEW k \in 1 .. statement'[q] - 1
            PROVE  <<version'[q], k>> \in created'
        <4>1. CASE q = p /\ k = statement[p]
          BY <2>1, <4>1
        <4>2. CASE q # p \/ k # statement[p]
          <5>1. k \in 1 .. statement[q] - 1
            BY <2>1, <2>2, <3>1, <4>2 DEF MigrationInv, MigrationTypeOK
          <5> QED
            BY <2>1, <3>1, <5>1 DEF MigrationInv, ScriptCreated
        <4> QED
          BY <4>1, <4>2
      <3> QED
        BY <2>1, <3>1 DEF MigrationInv, ScriptCreated
    <2>6. KnownRecorded' /\ RecordedComplete' /\ RecordedInOrder'
      BY <2>1 DEF MigrationInv, KnownRecorded, RecordedComplete, RecordedInOrder
    <2>7. PassedRecorded' /\ AppliedOnce'
      BY <2>1 DEF MigrationInv, PassedRecorded, AppliedOnce, Applied, Passed, Running
    <2> QED
      BY <2>4, <2>5, <2>6, <2>7 DEF MigrationInv
  <1> QED
    BY <1>1, <1>2

\* The INSERT comes after the last statement, while nobody else holds the lock.
LEMMA RecordKeepsMigration ==
  ASSUME MigrationInv, NEW p \in Initializers, Record(p)
  PROVE  MigrationInv'
  <1>1. CASE version[p] \in recorded
    BY <1>1, EndKeepsMigration DEF Record, Unrecorded
  <1>2. CASE version[p] \notin recorded
    <2>1. /\ pc[p] = "script" /\ statement[p] > Size[version[p]]
          /\ \A q \in Initializers : q # p => pending[q] = {}
          /\ pending' = [pending EXCEPT ![p] = {version[p]}]
          /\ pc' = [pc EXCEPT ![p] = "next"]
          /\ UNCHANGED <<created, recorded, known, version, statement>>
      BY <1>2 DEF Record, Unrecorded, ScriptDone, Locked, AfterInsert
    <2>2. /\ statement[p] \in Nat /\ version[p] \in Versions /\ Size[version[p]] \in Nat
      <3>1. version[p] \in Versions /\ statement[p] \in Nat
        BY <2>1 DEF MigrationInv, MigrationTypeOK, ScriptCreated
      <3> QED
        BY <3>1, VersionsFacts
    <2>3. MigrationTypeOK'
      BY <2>1, <2>2 DEF MigrationInv, MigrationTypeOK
    <2>4. ScriptCreated' /\ KnownRecorded' /\ RecordedInOrder'
      BY <2>1 DEF MigrationInv, MigrationTypeOK, ScriptCreated, KnownRecorded, RecordedInOrder
    <2>5. RecordedComplete'
      <3>1. ASSUME NEW k \in 1 .. Size[version[p]]
            PROVE  <<version[p], k>> \in created
        <4>1. k \in 1 .. statement[p] - 1
          BY <2>1, <2>2
        <4> QED
          BY <2>1, <4>1 DEF MigrationInv, ScriptCreated
      <3>2. recorded' \cup UNION {pending'[q] : q \in Initializers}
              \subseteq recorded \cup {version[p]}
        BY <2>1 DEF MigrationInv, MigrationTypeOK
      <3> QED
        BY <2>1, <3>1, <3>2 DEF MigrationInv, RecordedComplete
    <2>6. /\ Passed(p)' \subseteq Passed(p) \cup {version[p]}
          /\ Applied(p)' \subseteq Applied(p) \cup {version[p]}
      BY <2>1 DEF MigrationInv, MigrationTypeOK, Passed, Applied
    <2>7. ASSUME NEW q \in Initializers, q # p
          PROVE  /\ Passed(q)' = Passed(q) /\ Applied(q)' = Applied(q)
                 /\ Running(q)' = Running(q)
      BY <2>1, <2>7 DEF MigrationInv, MigrationTypeOK, Passed, Applied, Running
    <2>8. ASSUME NEW q \in Initializers, q # p, Running(q)
          PROVE  Applied(q) \subseteq recorded
      BY <2>1, <2>8 DEF MigrationInv, PassedRecorded, Applied
    <2>9. PassedRecorded'
      <3>1. ASSUME NEW q \in Initializers, Running(q)'
            PROVE  (Passed(q) \subseteq recorded \cup pending[q])'
        <4>1. CASE q = p
          <5>1. pending[p] = {} /\ Passed(p) \subseteq recorded \cup pending[p]
            BY <2>1 DEF MigrationInv, PassedRecorded, Running
          <5>2. recorded' = recorded /\ pending'[p] = {version[p]}
            BY <2>1 DEF MigrationInv, MigrationTypeOK
          <5> QED
            BY <2>6, <4>1, <5>1, <5>2
        <4>2. CASE q # p
          <5>1. Passed(q) \subseteq recorded \cup pending[q]
            BY <2>7, <3>1, <4>2 DEF MigrationInv, PassedRecorded
          <5>2. recorded' = recorded /\ pending'[q] = pending[q]
            BY <2>1, <4>2 DEF MigrationInv, MigrationTypeOK
          <5> QED
            BY <2>7, <4>2, <5>1, <5>2
        <4> QED
          BY <4>1, <4>2
      <3>2. ASSUME NEW q \in Initializers
            PROVE  /\ (pending[q] # {} => pc[q] = "next" /\ pending[q] = {version[q]})'
                   /\ (pc[q] = "done" => Versions \subseteq Passed(q) \cup known[q])'
        BY <2>1 DEF MigrationInv, MigrationTypeOK, PassedRecorded, Passed
      <3> QED
        BY <3>1, <3>2 DEF PassedRecorded
    <2>10. AppliedOnce'
      <3>1. ASSUME NEW q \in Initializers, q # p, Running(q)'
            PROVE  (Applied(p) \cap Applied(q) = {})'
        <4>1. Applied(p) \cap Applied(q) = {} /\ Applied(q) \subseteq recorded
          BY <2>1, <2>7, <2>8, <3>1 DEF MigrationInv, AppliedOnce, Running
        <4> QED
          BY <1>2, <2>6, <2>7, <3>1, <4>1
      <3>2. ASSUME NEW q \in Initializers, NEW r \in Initializers, q # r, Running(q)', Running(r)'
            PROVE  (Applied(q) \cap Applied(r) = {})'
        <4>1. CASE q # p /\ r # p
          BY <2>7, <3>2, <4>1 DEF MigrationInv, AppliedOnce
        <4>2. CASE q = p
          BY <3>1, <3>2, <4>2
        <4>3. CASE r = p
          <5>1. (Applied(r) \cap Applied(q) = {})'
            BY <3>1, <3>2, <4>3
          <5> QED
            BY <5>1
        <4> QED
          BY <4>1, <4>2, <4>3
      <3> QED
        BY <3>2 DEF AppliedOnce
    <2> QED
      BY <2>3, <2>4, <2>5, <2>9, <2>10 DEF MigrationInv
  <1> QED
    BY <1>1, <1>2

\* The last commit.
LEMMA FinishKeepsMigration ==
  ASSUME MigrationInv, NEW p \in Initializers, Finish(p)
  PROVE  MigrationInv'
  <1>1. CASE ~Verified
    BY <1>1, EndKeepsMigration DEF Finish
  <1>2. CASE Verified
    <2>1. /\ pc[p] = "next" /\ Remaining(p) = {} /\ CommitRows(p)
          /\ pc' = [pc EXCEPT ![p] = "done"]
          /\ UNCHANGED <<created, known, version, statement>>
      BY <1>2 DEF Finish
    <2>2. /\ recorded' \subseteq Versions /\ recorded \subseteq recorded'
          /\ RecordedComplete' /\ RecordedInOrder' /\ Passed(p) \subseteq recorded'
          /\ \A q \in Initializers : recorded \cup pending[q] \subseteq recorded' \cup pending'[q]
      BY <2>1, RecordingKeeps
    <2>3. MigrationTypeOK'
      BY <2>1, <2>2 DEF MigrationInv, MigrationTypeOK, CommitRows
    <2>4. ScriptCreated' /\ KnownRecorded'
      BY <2>1, <2>2 DEF MigrationInv, MigrationTypeOK, ScriptCreated, KnownRecorded
    <2>5. ASSUME NEW q \in Initializers
          PROVE  /\ Passed(q)' = Passed(q) /\ Applied(q)' = Applied(q)
                 /\ Running(q)' = Running(q)
      BY <2>1, <2>5 DEF MigrationInv, MigrationTypeOK, Passed, Applied, Running
    <2>6. Versions \subseteq Passed(p) \cup known[p]
      <3>1. version[p] \in Nat
        BY VersionsFacts DEF MigrationInv, MigrationTypeOK
      <3> QED
        BY <2>1, <3>1, VersionsFacts DEF Remaining, Passed
    <2>7. PassedRecorded'
      <3>1. ASSUME NEW q \in Initializers, Running(q)'
            PROVE  (Passed(q) \subseteq recorded \cup pending[q])'
        <4>1. Passed(q) \subseteq recorded \cup pending[q]
          BY <2>5, <3>1 DEF MigrationInv, PassedRecorded
        <4> QED
          BY <2>2, <2>5, <4>1
      <3>2. ASSUME NEW q \in Initializers
            PROVE  (pending[q] # {} => pc[q] = "next" /\ pending[q] = {version[q]})'
        BY <2>1 DEF MigrationInv, MigrationTypeOK, PassedRecorded, CommitRows
      <3>3. ASSUME NEW q \in Initializers, pc'[q] = "done"
            PROVE  (Versions \subseteq Passed(q) \cup known[q])'
        BY <2>1, <2>5, <2>6, <3>3 DEF MigrationInv, MigrationTypeOK, PassedRecorded
      <3> QED
        BY <3>1, <3>2, <3>3 DEF PassedRecorded
    <2>8. AppliedOnce'
      <3>1. ASSUME NEW q \in Initializers, NEW r \in Initializers, q # r, Running(q)', Running(r)'
            PROVE  (Applied(q) \cap Applied(r) = {})'
        BY <2>5, <3>1 DEF MigrationInv, AppliedOnce
      <3> QED
        BY <3>1 DEF AppliedOnce
    <2> QED
      BY <2>2, <2>3, <2>4, <2>7, <2>8 DEF MigrationInv
  <1> QED
    BY <1>1, <1>2

LEMMA NextMigration ==
  ASSUME MigrationInv, [MigrationNext]_(migrationVars)
  PROVE  MigrationInv'
  <1>1. ASSUME NEW p \in Initializers, Open(p)
        PROVE  MigrationInv'
    BY <1>1, OpenKeepsMigration
  <1>2. ASSUME NEW p \in Initializers, StartScript(p)
        PROVE  MigrationInv'
    BY <1>2, StartScriptKeepsMigration
  <1>3. ASSUME NEW p \in Initializers, Statement(p)
        PROVE  MigrationInv'
    BY <1>3, StatementKeepsMigration
  <1>4. ASSUME NEW p \in Initializers, Record(p)
        PROVE  MigrationInv'
    BY <1>4, RecordKeepsMigration
  <1>5. ASSUME NEW p \in Initializers, Finish(p)
        PROVE  MigrationInv'
    BY <1>5, FinishKeepsMigration
  <1>6. ASSUME NEW p \in Initializers, BusyTimeout(p) \/ Interrupt(p)
        PROVE  MigrationInv'
    BY <1>6, EndKeepsMigration DEF BusyTimeout, Interrupt
  <1>7. CASE UNCHANGED migrationVars
    BY <1>7
       DEF migrationVars, MigrationInv, MigrationTypeOK, ScriptCreated, RecordedComplete,
           KnownRecorded, PassedRecorded, RecordedInOrder, AppliedOnce, Applied, Passed,
           Running
  <1> QED
    BY <1>1, <1>2, <1>3, <1>4, <1>5, <1>6, <1>7 DEF MigrationNext, Step

\* Whatever processes start, race and die: what each of them may rely on at its place
\* in the list of files.
THEOREM MigrationInvariance == MigrationSpec => []MigrationInv
  BY InitMigration, NextMigration, PTL DEF MigrationSpec

-----------------------------------------------------------------------------
\* The file, its migration table and the processes are well typed.
THEOREM MigrationTypes == MigrationSpec => []MigrationTypeOK
  <1>1. MigrationInv => MigrationTypeOK
    BY DEF MigrationInv
  <1> QED
    BY <1>1, MigrationInvariance, PTL

\* A recorded migration is complete, whatever its process or the ones beside it
\* went through.
THEOREM RecordedAreComplete == MigrationSpec => []RecordedComplete
  <1>1. MigrationInv => RecordedComplete
    BY DEF MigrationInv
  <1> QED
    BY <1>1, MigrationInvariance, PTL

\* Migrations are recorded in file order, without a gap.
THEOREM RecordedWithoutGap == MigrationSpec => []RecordedInOrder
  <1>1. MigrationInv => RecordedInOrder
    BY DEF MigrationInv
  <1> QED
    BY <1>1, MigrationInvariance, PTL

\* A process that reports success leaves a ledger that is up to date, and no two of
\* them report that they applied the same migration.
THEOREM SuccessHolds == MigrationSpec => []SuccessIsTrue
  <1>1. MigrationInv => SuccessIsTrue
    <2> SUFFICES ASSUME MigrationInv
                 PROVE  SuccessIsTrue
      OBVIOUS
    <2>1. ASSUME NEW p \in Initializers, pc[p] = "done"
          PROVE  recorded = Versions /\ created = Objects
      <3>1. pending[p] = {} /\ Passed(p) \subseteq recorded
        BY <2>1 DEF MigrationInv, PassedRecorded, Running
      <3>2. recorded = Versions
        BY <2>1, <3>1 DEF MigrationInv, MigrationTypeOK, PassedRecorded, KnownRecorded
      <3>3. Objects \subseteq created
        BY <3>2, VersionsFacts DEF MigrationInv, RecordedComplete
      <3> QED
        BY <3>2, <3>3 DEF MigrationInv, MigrationTypeOK
    <2>2. ASSUME NEW p \in Initializers, NEW q \in Initializers, pc[p] = "done", pc[q] = "done", p # q
          PROVE  Versions \subseteq known[p] \cup known[q]
      <3>1. Applied(p) \cap Applied(q) = {}
        BY <2>2 DEF MigrationInv, AppliedOnce, Running
      <3> QED
        BY <2>2, <3>1 DEF MigrationInv, PassedRecorded, Applied
    <2> QED
      BY <2>1, <2>2 DEF SuccessIsTrue
  <1> QED
    BY <1>1, MigrationInvariance, PTL
=============================================================================
