----------------------------- MODULE AtomicLedger -----------------------------
(***************************************************************************)
(* The ledger the use cases are written against: a review decision checks  *)
(* that its ProposedChange is pending and records the decision in one      *)
(* step, and a decided ProposedChange stays as it is.                      *)
(***************************************************************************)
CONSTANTS Processes, Changes, Pending

VARIABLE ledger   \* the process that decided each ProposedChange, or Pending

Init == ledger = [c \in Changes |-> Pending]

Decide(p, c) ==
  /\ ledger[c] = Pending
  /\ ledger' = [ledger EXCEPT ![c] = p]

Next == \E p \in Processes, c \in Changes : Decide(p, c)

Spec == Init /\ [][Next]_ledger
=============================================================================
