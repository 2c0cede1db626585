SPECIFICATION Spec
CONSTANTS
  Runs = {r1, r2}
  Btc = btc
  Alts = {}
  LastDay = 2
  HasOkx = FALSE
  MaxFaults = 0
  MaxOverlaps = 1
CHECK_DEADLOCK FALSE
INVARIANTS
  WatchOncePerDay
