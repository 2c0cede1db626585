SPECIFICATION Spec
CONSTANTS
  c1 = c1
  Runs = {r1}
  Tokens = {t, s}
  Chains = {c1}
  ChainOf <- OneChain
  BatchOf <- SameRequest
  Horizons = {1}
  Grace = 1
  Limit = 3
  MaxRows = 2
  MaxTime = 2
  MaxMoves = 0
  MaxFaults = 0
  None = None
CHECK_DEADLOCK FALSE
INVARIANTS
  WrittenOffIsLost
