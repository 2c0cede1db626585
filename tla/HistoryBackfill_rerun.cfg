SPECIFICATION Spec
CONSTANTS
  Runs = {r1}
  Commands = {r1}
  Symbols = {s1}
  FuturesOnly = {}
  WarmUp = 1
  Last = 3
  MaxLive = 0
  MaxBoots = 2
  MaxFaults = 0
CHECK_DEADLOCK FALSE
INVARIANTS
  SafeToRerun
