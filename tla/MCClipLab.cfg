SPECIFICATION LabSpec
CONSTANTS
  MaxGen = 2
  c1 = c1
  c2 = c2
  Client = {c1, c2}
  Op = {cut}
  Text = {t1}
  Original = original
  SourceOf <- Sources
  MaxOps = 2
  MaxVersion = 3
  MaxInsert = 2
  MaxExtra = 2
  MaxEdits = 2
SYMMETRY Symmetry
CHECK_DEADLOCK FALSE
INVARIANTS
  LabTypeOK
  CandidatesAreWhole
  ReviewIsTrue
  ServedIsEdited
PROPERTIES
  ChangesWhatWasSeen
