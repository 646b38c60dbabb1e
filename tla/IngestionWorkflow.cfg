SPECIFICATION Spec
CONSTANTS
  first = first
  second = second
  Runs = {first, second}
  MaxLength = 2
  LastStage = 3
  Late = {2}
  Unasked = {2}
  None = None
\* Every process has ended and the supervisor has returned.
CHECK_DEADLOCK FALSE
INVARIANTS
  ReceiptsBacked
  NoWorkTwice
  ReturnedIsOver
PROPERTIES
  ImplementsHistory
  SupervisorReturns
