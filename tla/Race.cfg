SPECIFICATION FairSpec
CONSTANTS
  N = 3
  HeadStart = 1
  Grace = 2
  Timeout = 6
  NoRoute = NoRoute
  Unreachable = Unreachable
  Offline = Offline
  None = None
INVARIANTS
  TypeOK
  PreferredWins
  LoopSound
  TimesKept
PROPERTIES
  StartsStaggered
  RaceEnds
CHECK_DEADLOCK FALSE
