SPECIFICATION MigrationSpec
CONSTANTS
  init = init
  ingest = ingest
  retry = retry
  Initializers = {init, ingest, retry}
  Size <- MCSize
  Plain <- MCPlain
  Required <- MCRequired
\* Every process has ended.
CHECK_DEADLOCK FALSE
INVARIANTS
  RecordedComplete
PROPERTIES
  InitializationEnds
