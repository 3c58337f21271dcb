SPECIFICATION Spec
CONSTANTS
  c1 = c1

  s1 = s1
  s2 = s2
  Clients = {c1}
  Overflow = Overflow
  Systems = {s1, s2}
  Health = Health
  None = None
  Second = 2
  ClientsMax = 1
  RlBurst = 3
  RlBatch = 2
  RlBatchEvery = 2
  SystemsMax = 1
  SystemsWindow = 4
  HealthMax = 1
  HealthInterval = 2
  Cooldown = 3
  ClientIdle = 6
  MaxSkew = 1
  MaxTime = 7
SYMMETRY Symmetry
INVARIANTS
  BudgetHeld
  WindowsBounded
  RetryHonoured
PROPERTIES
  NothingMovesBack
  SweepIsNeutral
CHECK_DEADLOCK FALSE
