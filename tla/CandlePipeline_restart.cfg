SPECIFICATION Spec
CONSTANTS
  Markets <- BothMarkets
  MaxCandle = 2
  Ticks = {}
  WS = WS
  MaxRestarts = 2
INVARIANTS
  TypeOK
  SnapshotOfFinalRows
  NoSilentSkip
PROPERTIES
  OnlyOverlapReopens
