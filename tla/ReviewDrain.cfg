SPECIFICATION Spec
CONSTANTS
  org = org
  event = event
  target = target
  claim = claim
  lineage = lineage
  first = first
  second = second
  NoLimit = NoLimit
  Reviewer = Reviewer
  Nobody = Nobody
  Changes = {org, event, target, claim, lineage}
  Type <- MCType
  Label <- MCLabel
  Requires <- MCRequires
  Drains = {first, second}
  Inputs <- MCInputs
\* Everything may be decided and every drain ended.
CHECK_DEADLOCK FALSE
INVARIANTS
  ReportIsTruthful
  ReferencesClosed
PROPERTIES
  RequirementsComeFirst
  DrainEnds
