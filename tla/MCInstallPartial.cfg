SPECIFICATION Spec
CONSTANTS
  Process = {p1, p2, p3}
  Version = {v1}
  None = None
SYMMETRY Alike
CHECK_DEADLOCK FALSE
INVARIANT ActiveIsWhole
