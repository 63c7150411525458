SPECIFICATION SmallSpec
CONSTANTS
  Proc = {p1, p2, p3}
  Inode = {i1, i2, i3}
  NoFile = NoFile
  NoInode = NoInode
  Faults = TRUE
  Attempt = {a1, a2}
  Child = {c1}
  Session = {s1}
  NoAttempt = NoAttempt
  Nobody = Nobody
  NoSession = NoSession
  Starter = {x1, x2}
  Length = 19
  Second = 1
  Frames = {1, 5, 9, 12, 15, 18}
  HalfWindow = 1
  MinRun = 2
  Bounds = {0, 4, 10, 20}
  MaxTarget = 2
  MaxOther = 1
  Marks = {0, 1, 4, 9, 13}
  Shortest = 2
  Slack = 3
  CutStride = 2
  Score = {1, 2}
  Cap = 2
  RunCols = {"artifact_root"}
  JobCols = {"active_preparation_job_id", "heartbeat_at"}
  MaxWords = 5
  Gap = {0, 4}
  Long = {1, 4}
  Back = 1
  MinDuration = 4
  TargetDuration = 6
  MaxDuration = 9
  MinGap = 1
  Trailing = 1
  Leading = 1
  Lengths = {7}
  Rates <- ThreeRates
  Loudness = {0, 3}
  MaxWorkers = 2
CHECK_DEADLOCK FALSE
INVARIANTS SmallTypeOK LockIsSafe CutsAreSound StartsRecover
PROPERTIES FilesAreRespected OwnershipSpec LoneRestartSucceeds CancelSettles
