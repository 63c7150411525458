CONSTANTS
  Attempt = {a1, a2, a3, a4}
  Child = {c1, c2}
  Session = {s1}
  NoAttempt = NoAttempt
  Nobody = Nobody
  NoSession = NoSession
  Tolerant = TRUE
  Crashes = FALSE
  Faults = FALSE
  Reuse = FALSE
SPECIFICATION Spec
SYMMETRY Symmetry
CHECK_DEADLOCK FALSE
INVARIANT OwnershipRetained
