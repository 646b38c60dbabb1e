SPECIFICATION Spec
CONSTANTS
  first = first
  second = second
  third = third
  one = one
  other = other
  Processes = {first, second, third}
  Payloads = {one, other}
  Size = 2
  None = None
\* Every process has ended.
CHECK_DEADLOCK FALSE
INVARIANTS
  AcceptedIsWhole
  ActiveIsPublished
  BriefingHasFiles
PROPERTIES
  ImplementsArchive
