SPECIFICATION MCSpec
CONSTANTS
  Worker = {w1, w2}
  NoWorker = nobody
  MaxJobs = 3
  DbFaults = TRUE
  Raw = {r1,r2}
  NoRec = norec
  Direct = {r1,r2}
SYMMETRY Symmetry
CHECK_DEADLOCK FALSE
INVARIANTS TypeOK NamedFilesExist ActiveGroupIsWhole
  CheckedAlignmentHasText
PROPERTIES JobsFollowTheirLifecycle LiveJobIsNotSwept
