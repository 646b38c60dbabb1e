--------------------------- MODULE IngestionHistory ---------------------------
(***************************************************************************)
(* What the Ledger and the Archive tell of the ingestion of one document:  *)
(* a run publishes receipts while it is running, each under a name that    *)
(* had none; it ends once; and it is captured in one step, with a change   *)
(* set that says truly whether it did any of the document, over an         *)
(* analysis of the receipts of all paragraphs, the same for every run.     *)
(***************************************************************************)
EXTENDS Naturals

CONSTANTS
  Runs, MaxLength, Failures, None,
  Receipts   \* of a paragraph, each by a run or by no one

VARIABLES
  length,    \* paragraphs of the document
  run,       \* status of the Ingestion Runs
  changeSet, \* origin of their change sets
  analysis,  \* the receipts that the Analysis Run is about
  receipts   \* of the paragraphs

vars == <<length, run, changeSet, analysis, receipts>>

Running(p) == run[p] = "running"

Start(p) ==
  /\ run[p] = None
  /\ run' = [run EXCEPT ![p] = "running"]
  /\ UNCHANGED <<length, changeSet, analysis, receipts>>

Publish(p) ==
  /\ Running(p)
  /\ \E q \in 1 .. length, receipt \in Receipts :
       /\ receipts[q] = None
       /\ receipt.by \in {p, None}
       /\ receipts' = [receipts EXCEPT ![q] = receipt]
  /\ UNCHANGED <<length, run, changeSet, analysis>>

\* A document without paragraphs is the work of the run that is captured first.
May(p, origin) ==
  IF length = 0 THEN origin = IF analysis = None THEN "executed" ELSE "reused"
  ELSE \/ origin = "executed" /\ \E q \in 1 .. length : receipts[q].by \in {p, None}
       \/ origin = "reused" /\ \A q \in 1 .. length : receipts[q].by # p

Close(p) ==
  /\ Running(p)
  /\ \A q \in 1 .. length : receipts[q] # None
  /\ run' = [run EXCEPT ![p] = "captured"]
  /\ analysis' = [q \in 1 .. length |-> receipts[q]]
  /\ analysis # None => analysis' = analysis
  /\ \E origin \in {"executed", "reused"} :
       May(p, origin) /\ changeSet' = [changeSet EXCEPT ![p] = origin]
  /\ UNCHANGED <<length, receipts>>

Fail(p) ==
  /\ Running(p)
  /\ \E failure \in Failures : run' = [run EXCEPT ![p] = failure]
  /\ UNCHANGED <<length, changeSet, analysis, receipts>>

Init ==
  /\ length \in 0 .. MaxLength
  /\ run = [p \in Runs |-> None]
  /\ changeSet = [p \in Runs |-> None]
  /\ analysis = None
  /\ receipts = [q \in 1 .. MaxLength |-> None]

Next == \E p \in Runs : Start(p) \/ Publish(p) \/ Close(p) \/ Fail(p)

Spec == Init /\ [][Next]_vars
=============================================================================
