SPECIFICATION FairSpec
CONSTANTS
  w1 = w1
  w2 = w2
  Workers = {w1, w2}
  None = None
  Second = 2
  HealthTTL = 2
  HealthInterval = 4
  HealthMax = 4
  MaxLost = 1
  MaxTime = 12
INVARIANTS
  TypeOK
  BackendSpared
PROPERTIES
  CopyNeverOlder
  CopyRenewed
CHECK_DEADLOCK FALSE
