SPECIFICATION Spec
CONSTANTS
  Lengths = {7}
  Loudness = {0, 3}
  Shortest = 2
  MaxWorkers = 2
  Killed = FALSE
CHECK_DEADLOCK FALSE
INVARIANT RerunFindsAudio
