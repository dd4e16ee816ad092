SPECIFICATION QuietSpec
CONSTANTS
  None = None
  Here = Here
  Gone = Gone
  Adapters = {a1, a2}
  Erring = {}
PROPERTIES
  VerdictIsAboutRemoved
