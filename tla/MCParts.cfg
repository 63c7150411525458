SPECIFICATION Spec
CONSTANTS
  Alpha = {x1, x2}
  Beta = {y1, y2}
  Gamma = {z1, z2}
  Trio = {x1, x2, w1}
  None = None
  Upload = {u1}
  Chunk = {k1}
  MaxCrashes = 2
  Key = {a1, a2}
  Hub = {a2}
  Version = {v1, v2}
  Good = v1
  FilePieces = 2
  Attempts = 2
  Status = {s1}
  Text = {Empty}
  Name = {n1}
  Spelling = {plain}
  Colour = {c1, c2}
  Original = original
  Empty = Empty
  MaxCommits = 3
  Reuse = TRUE
  Crashes = TRUE
  Faults = TRUE
  RunId = {1}
  Asset = {e1}
  Torn = Torn
  Edition = {v1}
  MaxClips = 1
  MaxGen = 2
  Lengths <- TwoLengths
  Gap = 1
  Solo = solo
  Bounds = {0, 2, 4, 7}
  MaxTurns = 2
  SampleCount = 1
  SampleLength = 2
  Sizes = {base}
  JobId = {1, 2}
  MaxPipe = 1
SYMMETRY Alike
CHECK_DEADLOCK FALSE
INVARIANTS TypeOK SourcesAreAccounted DownloadIsIntact ShownIsActive BackendIsOwned
  ReferencesAreWhole InstallHolds DecisionsStand SpeakersAreFound
PROPERTIES InstalledStays
