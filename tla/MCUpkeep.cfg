SPECIFICATION UpkeepFairSpec
CONSTANTS
  a = a
  b = b
  billing = billing
  policy = policy
  None = None
  Entities = {a, b}
  Clusters = {billing, policy}
  Billing = billing
  Policy = policy
  Incident = policy
  Worlds <- MCWorlds
  Old = {b}
  Limit = 1
  Week = 0
  Month = 1
  Quarter = 1
  MaxVersion = 2
  MaxClock = 1
  MaxSpent = 2
CHECK_DEADLOCK FALSE
INVARIANTS
  OneActiveAlert
  VectorsMatchTheirHash
PROPERTIES
  ViolationsAreFlagged
  BrainSettles
