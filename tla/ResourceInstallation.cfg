SPECIFICATION InstallSpec
CONSTANTS
  install = install
  repair = repair
  again = again
  Installers = {install, repair, again}
  Repairing = {repair, again}
  Earlier = Earlier
  Nobody = Nobody
SYMMETRY MCSymmetry
VIEW MCView
\* Every installer has ended.
CHECK_DEADLOCK FALSE
INVARIANTS
  InvalidKept
PROPERTIES
  FailureRestores
  AloneSucceeds
  ReadyStays
