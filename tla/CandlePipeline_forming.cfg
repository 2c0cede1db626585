SPECIFICATION Spec
CONSTANTS
  Markets <- BothMarkets
  MaxCandle = 2
  Ticks = {}
  WS = WS
  MaxRestarts = 0
PROPERTIES
  DuplicatesWereStored
