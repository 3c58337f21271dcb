SPECIFICATION FairSpec
CONSTANTS
  None = None
  MaxChecks = 3
  MaxPorts = 1
  MaxRetry = 1
PROPERTIES
  ButtonComesBack
CHECK_DEADLOCK FALSE
