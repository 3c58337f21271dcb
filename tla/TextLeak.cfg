SPECIFICATION Spec
CONSTANTS
  Sign = Sign
  Unset = Unset
  None = None
  MaxChatDepth = 2
  ChatTextMax = 30
  RawMax = 24
  MotdMax = 3
  IOTimeout = 3
  ReplyTimeout = 2
  PongWait = 1
  Attempts = 2
  Contexts <- MCContexts
  Descriptions <- LoneSign
  MaxFaults = 2
  Lateness = 3
INVARIANTS
  StylesNeverLeak
CHECK_DEADLOCK FALSE
