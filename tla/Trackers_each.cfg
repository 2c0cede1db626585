SPECIFICATION Spec
CONSTANTS
  StreamConfig <- TheStream
  RestConfig <- TheRest
  GemHistoryConfig <- TheGemHistory
  GemScreenedConfig <- TheGemScreened
  GemConfig <- TheGem
  GemFeedsConfig <- TheGemFeeds
  SpotConfig <- TheSpot
  SpotDaysConfig <- TheSpotDays
  IntradayConfig <- TheIntraday
  SetupConfig <- TheSetup
  ScanConfig <- TheScan
  OutcomeConfig <- TheOutcome
  GemOutcomeConfig <- TheGemOutcome
  BaselineConfig <- TheBaseline
  HealthConfig <- TheHealth
  Off = off
CHECK_DEADLOCK FALSE
INVARIANTS
  TypeOK
  NoOrphanTimer
  OneRequestIntoBan
  ListedIsVetted
  JudgedOnStandingPeak
  ClosedOnFirstDay
  ToldOncePerDay
  GoneIsGone
PROPERTIES
  ForcedAfterFullWindow
  SilenceIsActedOn
  TrailOnlyRises
  QueuesDrain
  NewsIsTold
