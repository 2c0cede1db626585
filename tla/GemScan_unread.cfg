SPECIFICATION Spec
CONSTANTS
  Runs = {r1}
  Tokens = {t}
  Chains = {"solana"}
  ChainOf <- OneChain
  ScreenOf <- RugChecks
  Markets <- SomeMarkets
  Configured = {}
  Users = {c1}
  Sample = 1
  History = 1
  MaxMoves = 1
  MaxFaults = 0
  None = none
CHECK_DEADLOCK FALSE
INVARIANT ClearedIsRead
