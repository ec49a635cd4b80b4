SPECIFICATION FairSpec
CONSTANTS
  c1 = c1
  c2 = c2
  c3 = c3
  Calls = {c1, c2}
  Keys = {"k"}
  NoKey = NoKey
  None = None
  MaxClock = 1
CHECK_DEADLOCK FALSE
INVARIANTS
  KeyRunsOnce
  OutcomesAgree
PROPERTIES
  EveryCallEnds
