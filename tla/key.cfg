SPECIFICATION Spec
CONSTANTS
  None = None
  Partial = Partial
  ReadsFail = FALSE
  Pids = {p1, p2, p3}
  Keys = {k1, k2, k3, k4, k5}
SYMMETRY Symmetry
INVARIANTS
  CredentialsSurvive
PROPERTIES
  PublishedKeyFixed
