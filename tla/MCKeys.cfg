SPECIFICATION Spec
CONSTANTS
  t1 = t1
  t2 = t2
  Threads = {t1, t2}
  Loop = Loop
  Conns <- MCConns
  States <- MCStates
  Codes = 2
  Good = {1}
  MaxKey = 3
  MaxJobs = 5
SYMMETRY Symmetry
CHECK_DEADLOCK FALSE
INVARIANTS
  SecretsAreKept
  StatesConnectOnce
  TokensAreHonoured
  
