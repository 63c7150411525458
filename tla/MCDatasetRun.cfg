SPECIFICATION FairSpec
CONSTANTS
  Call = {c1, c2}
  Ops <- BesideAPoll
  MaxWorkers = 3
  Stop = {3}
  Crowding = FALSE
  BackendDies = TRUE
CHECK_DEADLOCK FALSE
INVARIANTS TypeOK CompletedStageIsOnDisk CancelSticks
PROPERTIES GoneIsNoticed
