SPECIFICATION HFairSpec
CONSTANTS
  None = None
  New = New
  Invalid = Invalid
  Gone = Gone
  Sessions = {s1, s2}
  Stalls = FALSE
INVARIANTS
  TypeOK
  HolderWhileCalm
PROPERTIES
  ImplementsNameLock
  LoserNotices
  HolderListed
  NameNotStuck
