SPECIFICATION FairSpec
CONSTANTS
  Markets <- BothMarkets
  MaxCandle = 1
  Ticks = {k1, k2}
  WS = WS
  MaxRestarts = 1
INVARIANTS
  AppliedOnce
PROPERTIES
  PairsResolve
