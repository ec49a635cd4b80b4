SPECIFICATION Spec
CONSTANTS
  w1 = w1
  w2 = w2
  act1 = act1
  act2 = act2
  act3 = act3
  Writers = {w1, w2}
  Actions = {act1, act2}
  Ids = {1, 2}
  AgentNames <- MCAgentNames
  Normalize <- MCNormalize
  Decisions = {"allow", "deny"}
  MaxClock = 1
  NoWriter = NoWriter
  None = None
SYMMETRY Symmetry
INVARIANTS
  ChainVerifies
  OneReceiptPerAction
  TamperEvident
  RegistryMatchesChain
PROPERTIES
  ImplementsLedger
