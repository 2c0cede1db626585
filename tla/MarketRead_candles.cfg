SPECIFICATION ReadSpec
CHECK_DEADLOCK FALSE
CONSTANTS
  T <- Defaults
  Historical <- NoHistory
  Prices <- Moves
  SpotLegs <- Spots
  FuturesLegs <- Futures
  Interests <- InterestMoves
  Fundings <- Rates
  Liquidations <- Forced
  Qualities <- Scores
  Width = 1
  AtrPeriod = 2
  Lookback = 2
  Window = 3
  MinReward = 2
  PerDay = 2
  Charts <- Charted
INVARIANTS
  TypeOK
  NoContradiction
  GatedByItsMagnitude
  Mirrored
  PlanIsSound
PROPERTIES
  LeverageDrivesRisk
  SwingsStand
