SPECIFICATION Spec
CONSTANTS
  None = None
  Kinds <- MCKinds
  Length <- MCLength
  Keep <- MCKeep
  QueueMax = 1
  MaxRequests = 2
  MaxEvents = 1
  MaxTime = 4
INVARIANTS
  NewestFirst
CHECK_DEADLOCK FALSE
