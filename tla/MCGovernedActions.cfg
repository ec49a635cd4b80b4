SPECIFICATION Spec
CONSTANTS
  m1 = m1
  m2 = m2
  a1 = a1
  a2 = a2
  a3 = a3
  k1 = k1
  Servers = {m1, m2}
  Actions = {a1, a2}
  Keys = {k1}
  NoKey = NoKey
  None = None
SYMMETRY Symmetry
INVARIANTS
  BlockedActionsHaveNoEffect
  ApprovalsMatchTheLedger
  KeyRecordsOnce
