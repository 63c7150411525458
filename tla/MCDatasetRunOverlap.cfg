SPECIFICATION Spec
CONSTANTS
  Call = {c1, c2}
  Ops <- AnyAtOnce
  MaxWorkers = 3
  Stop = {3}
  Crowding = TRUE
  BackendDies = FALSE
SYMMETRY Symmetry
CHECK_DEADLOCK FALSE
INVARIANTS ResumesDoNotOverlap
