SPECIFICATION Spec
CONSTANTS
  Workers = {w1}
  Chats = {c1}
  Symbols = {btc}
  LastDay = 2
  DayLength = 3
  Window = 1
  ScanWait = 1
  CoinScan = TRUE
CHECK_DEADLOCK FALSE
PROPERTIES
  ChangeIsAnnounced
