SPECIFICATION Spec
CONSTANTS
  c1 = c1
  c2 = c2
  s1 = s1
  Clients = {c1, c2}
  Overflow = Overflow
  Systems = {s1}
  Health = Health
  None = None
  Second = 1
  ClientsMax = 1
  RlBurst = 2
  RlBatch = 1
  RlBatchEvery = 1
  SystemsMax = 1
  SystemsWindow = 1
  HealthMax = 1
  HealthInterval = 1
  Cooldown = 1
  ClientIdle = 2
  MaxSkew = 0
  MaxTime = 3
SYMMETRY Symmetry
INVARIANTS
  TypeOK
  TableBounded
CHECK_DEADLOCK FALSE
