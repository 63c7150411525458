CONSTANTS
  Attempt = {a1, a2, a3, a4}
  Child = {c1, c2, c3}
  Session = {s1}
  NoAttempt = NoAttempt
  Nobody = Nobody
  NoSession = NoSession
  Tolerant = TRUE
  Crashes = TRUE
  Faults = TRUE
  Reuse = TRUE
SPECIFICATION Spec
SYMMETRY Symmetry
CHECK_DEADLOCK FALSE
INVARIANTS TypeOK WritersAreSafe ExecutionIsCurrent CredentialIsOwned
PROPERTIES LegalTransitions WriterSpec
