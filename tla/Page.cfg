SPECIFICATION FairSpec
CONSTANTS
  None = None
  MaxChecks = 2
  MaxPorts = 2
  MaxRetry = 2
INVARIANTS
  TypeOK
  OneAtATime
  UnreachableWins
PROPERTIES
  BusyEnds
CHECK_DEADLOCK FALSE
