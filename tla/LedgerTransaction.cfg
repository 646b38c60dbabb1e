SPECIFICATION Spec
CONSTANTS
  ingest = ingest
  review = review
  drain = drain
  c1 = c1
  c2 = c2
  Pending = Pending
  None = None
  Processes = {ingest, review, drain}
  Changes = {c1, c2}
\* Every process may have crashed.
CHECK_DEADLOCK FALSE
INVARIANTS
  ReportedDecisionsHold
PROPERTIES
  ImplementsAtomicLedger
  TransactionsEnd
