SPECIFICATION Spec
CONSTANTS
  first = first
  second = second
  third = third
  good = good
  other = other
  poor = poor
  Processes = {first, second, third}
  Size = 1
  Outputs = {good, other, poor}
  Unusable = {poor}
  None = None
\* Every process has ended.
CHECK_DEADLOCK FALSE
INVARIANTS
  CapturedIsArchived
  OneOpenAttempt
  PublishedByItsAttempt
PROPERTIES
  AloneConverges
