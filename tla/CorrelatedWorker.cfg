SPECIFICATION Spec
CONSTANTS
  Callers = {first, second}
  first = first
  second = second
  NoCaller = NoCaller
  MaxRequests = 2
  MaxStray = 1
\* Both callers close the transport in the end, and nothing is left to do.
CHECK_DEADLOCK FALSE
INVARIANTS
  PoisonedTerminated
  OneWorker
PROPERTIES
  OperationsReturn
  ImplementsExchange
