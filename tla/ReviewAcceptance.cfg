SPECIFICATION Spec
CONSTANTS
  a1 = a1
  a2 = a2
  a3 = a3
  org = org
  literal1 = literal1
  literal2 = literal2
  t1 = t1
  t2 = t2
  k1 = k1
  k2 = k2
  k3 = k3
  c1 = c1
  c2 = c2
  c3 = c3
  c4 = c4
  c5 = c5
  None = None
  ProposedChanges = {c1, c2, c3, c4, c5}
  Assertions = {a1, a2, a3}
  Entities = {org}
  SubjectValues = {literal1, literal2}
  EvidenceTargets = {t1, t2}
  Attempts = {k1, k2, k3}
  TargetOf <- MCTargetOf
  Predicates = {"postponed"}
  Reviewers = {"analyst"}
  GroundedBatches <- MCRerunBatches
  PlannedBatches <- MCPlannedBatches
  Edits <- MCEdits
CHECK_DEADLOCK FALSE
INVARIANTS
  SupportAcyclic
  OneSuccessor
  DecisionTraceable
PROPERTIES
  DecisionFinal
  SupersessionAtomic
  ChangesAttributed
