SPECIFICATION HSpec
CONSTANTS
  None = None
  New = New
  Invalid = Invalid
  Gone = Gone
  Sessions = {s1, s2}
  Stalls = FALSE
SYMMETRY Symmetry
INVARIANTS
  NameHasOneHolder
