------------------------- MODULE SourceIngestion_proofs -------------------------
(***************************************************************************)
(* For any number of processes that ingest one file: the Ledger refers to  *)
(* whole objects only, the attempts of the task tell the truth about what  *)
(* was published and keep it, and a process by itself succeeds whatever    *)
(* others left behind, unless it repeats the capture of an update.         *)
(*                                                                         *)
(* Nothing keeps a process from being at work on an attempt that another   *)
(* one has closed.  What saves the history is that an outcome is inserted  *)
(* once and together with what it says: the invariant therefore follows    *)
(* each process from its attempt to its outcome, and speaks of outcomes,   *)
(* never of who may still be at work.                                      *)
(***************************************************************************)
EXTENDS SourceIngestion, TLAPS

\* A process has an attempt from the commit that starts it on.
Started ==
  \A p \in Processes :
    /\ pc[p] \in {"idle", "put", "write", "start"} => p \notin attempts
    /\ pc[p] \in {"check", "parse", "account", "publish", "reuse", "block", "record", "done"} =>
         p \in attempts

OutcomeOfAttempt == \A p \in Processes : outcome[p] # None => p \in attempts

\* Nobody comes to the Ledger before the object is whole.
ObjectFirst ==
  \A p \in Processes :
    /\ pc[p] = "write" => raw # None
    /\ pc[p] = "start" => Archived

\* What a process publishes is a representation.
ParsedFirst ==
  \A p \in Processes :
    /\ pc[p] = "check" => ~IsPdf
    /\ pc[p] = "account" => parsed[p] \in Outputs \cup {"blocked", "error"}
    /\ pc[p] = "publish" => parsed[p] \in Outputs

ReuseBacked == \A p \in Processes : pc[p] = "reuse" => representation # None

Inv ==
  /\ TypeOK
  /\ Started /\ OutcomeOfAttempt
  /\ ObjectFirst /\ CapturedIsArchived
  /\ ParsedFirst /\ ReuseBacked
  /\ OneOpenAttempt /\ PublishedByItsAttempt

-----------------------------------------------------------------------------
LEMMA InitInv == Init => Inv
  BY OutputsAssumption DEF Init, Inv, TypeOK, Started, OutcomeOfAttempt, ObjectFirst,
     CapturedIsArchived, ParsedFirst, ReuseBacked, OneOpenAttempt, PublishedByItsAttempt,
     Open, Ended, IsPdf

LEMMA NextInv == Inv /\ [Next]_vars => Inv'
  <1> SUFFICES ASSUME Inv, [Next]_vars
               PROVE  Inv'
    OBVIOUS
  <1> USE OutputsAssumption
      DEF Inv, TypeOK, Started, OutcomeOfAttempt, ObjectFirst, CapturedIsArchived, ParsedFirst,
          ReuseBacked, OneOpenAttempt, PublishedByItsAttempt, Go, At, Release, MayCommit,
          Archived, Open, Ended, Outcomes, IsPdf, file, archive, ledger, local
  <1>1. ASSUME NEW p \in Processes, Read(p)
        PROVE  Inv'
    BY <1>1 DEF Read, Active, Found
  <1>2. ASSUME NEW p \in Processes, FindObject(p)
        PROVE  Inv'
    BY <1>2 DEF FindObject, Step, Acceptable
  <1>3. ASSUME NEW p \in Processes, CreateObject(p)
        PROVE  Inv'
    BY <1>3 DEF CreateObject, Step
  <1>4. ASSUME NEW p \in Processes, WriteObject(p)
        PROVE  Inv'
    BY <1>4 DEF WriteObject, Step
  <1>5. ASSUME NEW p \in Processes, ObjectWritten(p)
        PROVE  Inv'
    BY <1>5 DEF ObjectWritten, Step
  <1>6. ASSUME NEW p \in Processes, PutFails(p)
        PROVE  Inv'
    BY <1>6 DEF PutFails
  <1>7. ASSUME NEW p \in Processes, StartAttempt(p)
        PROVE  Inv'
    BY <1>7 DEF StartAttempt, Reconciled, Open
  <1>8. ASSUME NEW p \in Processes, CheckClosure(p)
        PROVE  Inv'
    BY <1>8 DEF CheckClosure, ClosureUsable
  <1>9. ASSUME NEW p \in Processes, Parse(p)
        PROVE  Inv'
    BY <1>9 DEF Parse
  <1>10. ASSUME NEW p \in Processes, Account(p)
        PROVE  Inv'
    BY <1>10 DEF Account
  <1>11. ASSUME NEW p \in Processes, Publish(p)
        PROVE  Inv'
    BY <1>11 DEF Publish, Close, Creates, Same, Status, TextStatus
  <1>12. ASSUME NEW p \in Processes, PublishFails(p)
        PROVE  Inv'
    BY <1>12 DEF PublishFails, Step, Creates, Same
  <1>13. ASSUME NEW p \in Processes, Reuse(p)
        PROVE  Inv'
    BY <1>13 DEF Reuse, Close
  <1>14. ASSUME NEW p \in Processes, Block(p)
        PROVE  Inv'
    BY <1>14 DEF Block, Close
  <1>15. ASSUME NEW p \in Processes, CloseFails(p)
        PROVE  Inv'
    BY <1>15 DEF CloseFails, Step
  <1>16. ASSUME NEW p \in Processes, RecordFailure(p)
        PROVE  Inv'
    BY <1>16 DEF RecordFailure, Close, FailureStatus
  <1>17. ASSUME NEW p \in Processes, RecordingFails(p)
        PROVE  Inv'
    BY <1>17 DEF RecordingFails, Step
  <1>18. ASSUME NEW p \in Processes, Busy(p)
        PROVE  Inv'
    BY <1>18 DEF Busy
  <1>19. ASSUME NEW p \in Processes, Crash(p)
        PROVE  Inv'
    BY <1>19 DEF Crash
  <1>20. ASSUME NEW p \in Processes, CaptureConflicts(p)
        PROVE  Inv'
    BY <1>20 DEF CaptureConflicts
  <1>21. CASE UNCHANGED vars
    BY <1>21 DEF vars
  <1> QED
    BY <1>1, <1>2, <1>3, <1>4, <1>5, <1>6, <1>7, <1>8, <1>9, <1>10, <1>11, <1>12,
       <1>13, <1>14, <1>15, <1>16, <1>17, <1>18, <1>19, <1>20, <1>21 DEF Next

LEMMA Invariance == Spec => []Inv
  BY InitInv, NextInv, PTL DEF Spec

-----------------------------------------------------------------------------
\* The Archive, the records of the task and the processes are well typed; pages are
\* accounted for and representations published by attempts that were started.
THEOREM TypeCorrect == Spec => []TypeOK
  <1>1. Inv => TypeOK
    BY DEF Inv
  <1> QED
    BY <1>1, Invariance, PTL

\* Whoever wrote the object, died writing it or found it: what is captured is whole.
THEOREM CapturedStaysArchived == Spec => []CapturedIsArchived
  <1>1. Inv => CapturedIsArchived
    BY DEF Inv
  <1> QED
    BY <1>1, Invariance, PTL

\* However many processes start attempts and die, at most one attempt is open.
THEOREM OneAttemptOpen == Spec => []OneOpenAttempt
  <1>1. Inv => OneOpenAttempt
    BY DEF Inv
  <1> QED
    BY <1>1, Invariance, PTL

\* The outcome of an attempt says whether it published, and of a PDF whether that is
\* blocked, also when another process closed the attempt while it was at work.
THEOREM AttemptsTellTruth == Spec => []PublishedByItsAttempt
  <1>1. Inv => PublishedByItsAttempt
    BY DEF Inv
  <1> QED
    BY <1>1, Invariance, PTL

-----------------------------------------------------------------------------
LEMMA StepKeepsHistory ==
  ASSUME Inv, [Next]_vars
  PROVE  /\ \A p \in Processes : outcome[p] # None => outcome'[p] = outcome[p]
         /\ representation # None => representation' = representation
  <1> USE DEF Inv, TypeOK, Close, Creates, Reconciled, Open, archive, ledger, local
  <1>1. ASSUME NEW p \in Processes, StartAttempt(p)
        PROVE  /\ \A q \in Processes : outcome[q] # None => outcome'[q] = outcome[q]
               /\ UNCHANGED representation
    BY <1>1 DEF StartAttempt
  <1>2. ASSUME NEW p \in Processes, Publish(p) \/ Reuse(p) \/ Block(p) \/ RecordFailure(p)
        PROVE  /\ \A q \in Processes : outcome[q] # None => outcome'[q] = outcome[q]
               /\ representation # None => representation' = representation
    BY <1>2 DEF Publish, Reuse, Block, RecordFailure
  <1>3. ASSUME NEW p \in Processes,
               \/ Read(p) \/ FindObject(p) \/ CreateObject(p) \/ WriteObject(p)
               \/ ObjectWritten(p) \/ PutFails(p) \/ CaptureConflicts(p) \/ CheckClosure(p) \/ Parse(p)
               \/ Account(p) \/ PublishFails(p) \/ CloseFails(p) \/ RecordingFails(p) \/ Busy(p) \/ Crash(p)
        PROVE  UNCHANGED <<outcome, representation>>
    BY <1>3 DEF Read, FindObject, CreateObject, WriteObject, ObjectWritten, PutFails,
       CaptureConflicts, CheckClosure, Parse, Account, PublishFails, CloseFails, RecordingFails, Busy, Crash, Step
  <1>4. CASE UNCHANGED vars
    BY <1>4 DEF vars
  <1> QED
    BY <1>1, <1>2, <1>3, <1>4 DEF Next

\* An outcome and a published representation are never changed or removed.
THEOREM HistoryIsKept == Spec => HistoryStays
  <1>1. Inv /\ [Next]_vars =>
          [/\ \A p \in Processes : outcome[p] # None => outcome'[p] = outcome[p]
           /\ representation # None => representation' = representation]_vars
    BY StepKeepsHistory
  <1> QED
    BY <1>1, Invariance, PTL DEF Spec, HistoryStays

-----------------------------------------------------------------------------
\* What a process by itself can rely on: nobody else has a transaction, what it found
\* in the Ledger is still so, and its attempt of a text is open until it closes it.
AloneInv ==
  /\ readers \subseteq {p \in Processes : pc[p] \in {"put", "write", "start"}}
  /\ attempts # {} => captured
  /\ \A p \in Processes : p \notin beside /\ Active(p) =>
       /\ \A q \in Processes : Active(q) => q = p
       /\ ~IsPdf =>
            /\ pc[p] \in {"put", "write", "start"} => known[p] = Found
            /\ pc[p] = "check" =>
                 /\ known[p] # "nothing" => Archived
                 /\ known[p] = "closure" <=> representation # None
            /\ pc[p] = "publish" => representation = None
            /\ pc[p] \in {"check", "publish", "reuse"} => outcome[p] = None
            /\ pc[p] \notin {"parse", "account", "block", "record"}

LEMMA InitAlone == Init => AloneInv
  BY DEF Init, AloneInv, Active, Ended

LEMMA NextAlone == Inv /\ AloneInv /\ [Next]_vars => AloneInv'
  <1> SUFFICES ASSUME Inv, AloneInv, [Next]_vars
               PROVE  AloneInv'
    OBVIOUS
  <1> USE OutputsAssumption
      DEF Inv, TypeOK, Started, OutcomeOfAttempt, ObjectFirst, CapturedIsArchived, AloneInv,
          Active, Found, Go, At, Release, MayCommit, Archived, Ended, IsPdf, file, archive, ledger, local
  <1>1. ASSUME NEW p \in Processes, Read(p)
        PROVE  AloneInv'
    BY <1>1 DEF Read, Active, Found
  <1>2. ASSUME NEW p \in Processes, FindObject(p)
        PROVE  AloneInv'
    BY <1>2 DEF FindObject, Step, Acceptable
  <1>3. ASSUME NEW p \in Processes, CreateObject(p)
        PROVE  AloneInv'
    BY <1>3 DEF CreateObject, Step
  <1>4. ASSUME NEW p \in Processes, WriteObject(p)
        PROVE  AloneInv'
    BY <1>4 DEF WriteObject, Step
  <1>5. ASSUME NEW p \in Processes, ObjectWritten(p)
        PROVE  AloneInv'
    BY <1>5 DEF ObjectWritten, Step
  <1>6. ASSUME NEW p \in Processes, PutFails(p)
        PROVE  AloneInv'
    BY <1>6 DEF PutFails
  <1>7. ASSUME NEW p \in Processes, StartAttempt(p)
        PROVE  AloneInv'
    BY <1>7 DEF StartAttempt, Reconciled, Open
  <1>8. ASSUME NEW p \in Processes, CheckClosure(p)
        PROVE  AloneInv'
    BY <1>8 DEF CheckClosure, ClosureUsable
  <1>9. ASSUME NEW p \in Processes, Parse(p)
        PROVE  AloneInv'
    BY <1>9 DEF Parse
  <1>10. ASSUME NEW p \in Processes, Account(p)
        PROVE  AloneInv'
    BY <1>10 DEF Account
  <1>11. ASSUME NEW p \in Processes, Publish(p)
        PROVE  AloneInv'
    BY <1>11 DEF Publish, Close, Creates, Same, Status, TextStatus
  <1>12. ASSUME NEW p \in Processes, PublishFails(p)
        PROVE  AloneInv'
    BY <1>12 DEF PublishFails, Step, Creates, Same
  <1>13. ASSUME NEW p \in Processes, Reuse(p)
        PROVE  AloneInv'
    BY <1>13 DEF Reuse, Close
  <1>14. ASSUME NEW p \in Processes, Block(p)
        PROVE  AloneInv'
    BY <1>14 DEF Block, Close
  <1>15. ASSUME NEW p \in Processes, CloseFails(p)
        PROVE  AloneInv'
    BY <1>15 DEF CloseFails, Step
  <1>16. ASSUME NEW p \in Processes, RecordFailure(p)
        PROVE  AloneInv'
    BY <1>16 DEF RecordFailure, Close, FailureStatus
  <1>17. ASSUME NEW p \in Processes, RecordingFails(p)
        PROVE  AloneInv'
    BY <1>17 DEF RecordingFails, Step
  <1>18. ASSUME NEW p \in Processes, Busy(p)
        PROVE  AloneInv'
    BY <1>18 DEF Busy
  <1>19. ASSUME NEW p \in Processes, Crash(p)
        PROVE  AloneInv'
    BY <1>19 DEF Crash
  <1>20. ASSUME NEW p \in Processes, CaptureConflicts(p)
        PROVE  AloneInv'
    BY <1>20 DEF CaptureConflicts
  <1>21. CASE UNCHANGED vars
    BY <1>21 DEF vars
  <1> QED
    BY <1>1, <1>2, <1>3, <1>4, <1>5, <1>6, <1>7, <1>8, <1>9, <1>10, <1>11, <1>12,
       <1>13, <1>14, <1>15, <1>16, <1>17, <1>18, <1>19, <1>20, <1>21 DEF Next

LEMMA AloneInvariance == Spec => [](Inv /\ AloneInv)
  <1>1. Init => Inv /\ AloneInv
    BY InitInv, InitAlone
  <1>2. (Inv /\ AloneInv) /\ [Next]_vars => (Inv /\ AloneInv)'
    BY NextInv, NextAlone
  <1> QED
    BY <1>1, <1>2, PTL DEF Spec

\* The ways to fail are a put that met a truncated object or was interrupted, the conflict
\* of an update that is captured, a closed attempt and a busy Ledger; the last two take
\* a second process.
LEMMA AloneStepSucceeds ==
  ASSUME Inv, AloneInv, Next, NEW p \in Processes,
         ~IsPdf, p \notin beside', pc[p] # "failed", pc'[p] = "failed"
  PROVE  ~Archived \/ (update /\ known[p] # "nothing")
  <1>1. PICK q \in Processes :
          \/ Read(q) \/ FindObject(q) \/ CreateObject(q) \/ WriteObject(q) \/ ObjectWritten(q)
          \/ PutFails(q) \/ CaptureConflicts(q) \/ StartAttempt(q) \/ CheckClosure(q) \/ Parse(q)
          \/ Account(q) \/ Publish(q) \/ PublishFails(q) \/ Reuse(q) \/ Block(q) \/ CloseFails(q)
          \/ RecordFailure(q) \/ RecordingFails(q) \/ Busy(q) \/ Crash(q)
    BY DEF Next
  <1>2. \/ PutFails(q) \/ CaptureConflicts(q)
        \/ CloseFails(q) \/ RecordFailure(q) \/ RecordingFails(q) \/ Busy(q)
    BY <1>1 DEF Inv, TypeOK, Read, FindObject, CreateObject, WriteObject, ObjectWritten,
       StartAttempt, CheckClosure, Parse, Account, Publish, PublishFails, Reuse, Block, Crash,
       Step, Go
  <1>3. p = q /\ Active(p) /\ p \notin beside
    BY <1>2 DEF Inv, TypeOK, PutFails, CaptureConflicts, CloseFails, RecordFailure,
       RecordingFails, Busy, Close, Step, Go, At, Active, Ended
  <1>4. MayCommit(p) /\ ~CloseFails(p) /\ ~RecordFailure(p) /\ ~RecordingFails(p)
    BY <1>3 DEF AloneInv, Active, Ended, MayCommit, CloseFails, RecordFailure, RecordingFails,
       Step, At
  <1>5. PutFails(p) \/ CaptureConflicts(p)
    BY <1>2, <1>3, <1>4 DEF Busy
  <1> QED
    BY <1>5 DEF PutFails, Acceptable, CaptureConflicts, Conflicting

\* Whatever crashed or raced before, a text that one process ingests by itself fails
\* only for its object in the Archive, or as an update that was captured before.
THEOREM TextConverges == Spec => AloneConverges
  <1>1. (Inv /\ AloneInv) /\ [Next]_vars =>
          [\A p \in Processes :
             /\ ~IsPdf /\ p \notin beside'
             /\ pc[p] # "failed" /\ pc'[p] = "failed"
             => ~Archived \/ (update /\ known[p] # "nothing")]_vars
    BY AloneStepSucceeds
  <1> QED
    BY <1>1, AloneInvariance, PTL DEF Spec, AloneConverges
=============================================================================
