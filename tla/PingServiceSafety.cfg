SPECIFICATION Spec
CONSTANTS
  r1 = r1
  r2 = r2
  r3 = r3
  k1 = k1
  k2 = k2
  k3 = k3
  Requests = {r1, r2, r3}
  Keys = {k1, k2, k3}
  None = None
  MaxInFlight = 2
  CacheMax = 2
  CacheTTL = 2
  PingTimeout = 1
  MaxStray = 1
  MaxTime = 4
SYMMETRY Symmetry
INVARIANTS
  TypeOK
  SlotsAccounted
  Coalesced
  CacheSound
PROPERTIES
  CachedIsFresh
  SharesProbes
CHECK_DEADLOCK FALSE
