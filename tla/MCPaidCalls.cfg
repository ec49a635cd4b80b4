SPECIFICATION PaidFairSpec
CONSTANTS
  r1 = r1
  r2 = r2
  r3 = r3
  Requests = {r1, r2, r3}
  Estimates = {2}
  MaxUsage = 3
  RatePerMin = 2
  DailyCap = 4
  Permits = 1
  Window = 1
  Day = 1
  MaxTime = 1
  NoEntry = NoEntry
CHECK_DEADLOCK FALSE
INVARIANTS
  OnlyStragglersDistort
  PermitsAccountForRuns
PROPERTIES
  EveryRequestEnds
