SPECIFICATION Spec
CONSTANTS
  studio = studio
  mcp1 = mcp1
  mcp2 = mcp2
  Verifiers = {mcp1, mcp2}
  Admins = {studio}
  TTL = 2
  Lifetime = 3
  MaxClock = 4
  None = None
SYMMETRY Symmetry
INVARIANTS
  VerdictsAreFresh
PROPERTIES
  RevocationIsFinal
