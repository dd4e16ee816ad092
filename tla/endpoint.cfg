SPECIFICATION FairSpec
CONSTANTS
  None = None
  Here = Here
  Gone = Gone
  Adapters = {a1, a2}
  Erring = {a2}
INVARIANTS
  TypeOK
  PresentMeansReached
  ClosedIsGone
  SurrenderIsSilent
PROPERTIES
  LiveSocketKept
  Heals

