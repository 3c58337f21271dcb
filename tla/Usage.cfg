SPECIFICATION FairSpec
CONSTANTS
  None = None
  Kinds <- MCKinds
  Length <- MCLength
  Keep <- MCKeep
  QueueMax = 1
  MaxRequests = 2
  MaxEvents = 2
  MaxTime = 3
INVARIANTS
  TypeOK
  PublishedIsDurable
  NoGaps
  KindsAgree
PROPERTIES
  DueIsPublished
  PublishedStable
CHECK_DEADLOCK FALSE
