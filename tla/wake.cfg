SPECIFICATION TimerSpec
CONSTANTS
  None = None
  Episodes = {e1, e2}
  AttemptCap = 2
  Budget = 2
  Hour = 3
  MaxUndelivered = 2
  MaxTime = 6
INVARIANTS
  TypeOK
  BudgetHolds
  EpisodeSpansWork
  QuietIsMarked
  TierMatchesEpisode
PROPERTIES
  NudgesStop
