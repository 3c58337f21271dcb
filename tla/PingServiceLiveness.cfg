SPECIFICATION FairSpec
CONSTANTS
  r1 = r1
  r2 = r2
  r3 = r3
  k1 = k1
  Requests = {r1, r2, r3}
  Keys = {k1}
  None = None
  MaxInFlight = 1
  CacheMax = 1
  CacheTTL = 1
  PingTimeout = 1
  MaxStray = 0
  MaxTime = 3
PROPERTIES
  EveryRequestAnswered
  ExpiredLeaves
CHECK_DEADLOCK FALSE
