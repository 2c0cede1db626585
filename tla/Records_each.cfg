SPECIFICATION RecordsSpec
CONSTANTS
  Runs = {a, b}
  Coins = {coin_a}
  Watchlist = {coin_a}
  LastBar = 3
  Window = 2
  Expiry = 1
  MaxTouches = 2
  MaxSetups = 1
  MaxFaults = 1
  None = none
  Replays <- TwoReplays
  Commands <- TheCommand
  Symbols <- OneSymbol
  FuturesOnly <- NoSymbol
  WarmUp = 1
  Last = 3
  MaxLive = 1
  MaxBoots = 2
  ReplayFaults = 1
  Passes <- TwoPasses
  Drains <- TheDrain
  Signals <- TwoSignals
  TypeOf <- OneType
  FrameOf <- TwoFrames
  SourceOf <- TwoSources
  Horizons <- OneHorizon
  Look = 1
  Limit = 1
  SampleTime = 3
  SampleFaults = 1
  Trades <- OneTrade
  Prices <- TwoPrices
  Patches <- SixPatches
  TradeTime = 1
  Absent = absent
CHECK_DEADLOCK FALSE
SYMMETRY TwoSymmetry
INVARIANTS
  FirstTouchDecides
  AlertedOnce
  ReplayCanBePriced
  PricedApart
  ResultOfItsRow
PROPERTIES
  RecordsStand
