SPECIFICATION MessagesSpec
CONSTANTS
  Workers = {w1, w2}
  Chats = {c1}
  Symbols = {btc}
  LastDay = 1
  DayLength = 3
  Window = 1
  ScanWait = 1
  CoinScan = TRUE
  Btc = btc_coin
  Alts = {alt_coin}
  LastScanDay = 2
  HasOkx = TRUE
  MaxFaults = 2
  MaxOverlaps = 1
  Keys <- TwoKeys
  TopSeverity = 1
  TopConf = 1
  ConfDelta = 1
  Cooldown = 1
  ConfigChats = {admin}
  UserChats <- TwoUsers
  MinSeverity <- UserSeverities
  Follows <- UserFollows
  MaxTime = 1
  Off = off
CHECK_DEADLOCK FALSE
SYMMETRY TwoSymmetry
INVARIANTS
  NoWastedClaim
  MorningMessageGoesOut
  StoredDayIsOneScan
  OptOutIsRespected
  EveryRecipientTried
  RepeatsOnlyByOverlap
PROPERTIES
  KeepsPromise
  DayStaysStored
