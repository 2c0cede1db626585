------------------------------- MODULE Trackers -------------------------------
(***************************************************************************)
(* The Binance clients, the gem scan and the worker's trackers side by     *)
(* side, and what happens in the end.  The gem scan, the gem watch and the *)
(* spot list take their constants as a parameter: of each two are played,  *)
(* so that small ones can each be large where the other is small.  A       *)
(* behaviour plays one of the instances, with the variables below in the   *)
(* place of its own and Off in those left over.  They share no state but   *)
(* the database, and there no table, so what one does is no concern of     *)
(* another.                                                                *)
(***************************************************************************)
EXTENDS Naturals

CONSTANTS
  \* Per instance a record of the constants of its module.
  StreamConfig, RestConfig, GemHistoryConfig, GemScreenedConfig, GemConfig, GemFeedsConfig,
  SpotConfig, SpotDaysConfig, IntradayConfig, SetupConfig, ScanConfig, OutcomeConfig,
  GemOutcomeConfig, BaselineConfig, HealthConfig,
  Off \* the value of what is not played; no run, chain, coin, price or verdict

VARIABLES
  playing, \* which instance, for ever
  pc,      \* its pc
  v1, v2, v3, v4, v5, v6, v7, v8, v9, v10, v11, v12, v13, v14, v15, v16, v17, v18, v19, v20, v21, v22
           \* its other variables

\* The variables an instance of so many leaves over.
over15 == <<v16, v17, v18, v19, v20, v21, v22>>
over14 == <<v15, over15>>
over12 == <<v13, v14, v15, over15>>
over10 == <<v11, v12, over12>>
over9  == <<v10, over10>>
over7  == <<v8, v9, over9>>
vars   == <<playing, pc, v1, v2, v3, v4, v5, v6, v7, over7>>

Free15 == v16 = Off /\ v17 = Off /\ v18 = Off /\ v19 = Off /\ v20 = Off /\ v21 = Off /\ v22 = Off
Free14 == v15 = Off /\ Free15
Free12 == v13 = Off /\ v14 = Off /\ Free14
Free10 == v11 = Off /\ v12 = Off /\ Free12
Free9  == v10 = Off /\ Free10
Free7  == v8 = Off /\ v9 = Off /\ Free9
-----------------------------------------------------------------------------
(* The instances. *)

Stream == INSTANCE StreamClient WITH
  Streams <- StreamConfig.streams, Options <- StreamConfig.options,
  SilentAfter <- StreamConfig.silentAfter, MaxReconnects <- StreamConfig.maxReconnects,
  opts <- v1, conn <- v2, closedByUser <- v3, status <- v4, age <- v5, silence <- v6, staleArmed <- v7,
  watchArmed <- v8, checkDue <- v9, reconnects <- v10, gaveUp <- v11, served <- v12, mute <- v13,
  upFor <- v14

Rest == INSTANCE RestClient WITH
  Calls <- RestConfig.calls, MaxRetries <- RestConfig.maxRetries,
  MaxBackoff <- RestConfig.maxBackoff, DefaultBan <- RestConfig.defaultBan,
  LongestWait <- RestConfig.longestWait,
  attempt <- v1, reply <- v2, sleep <- v3, pause <- v4, ban <- v5, slept <- v6, intoBan <- v7

AnyScan(cfg) == INSTANCE GemScan WITH
  Runs <- cfg.runs, Tokens <- cfg.tokens,
  Chains <- cfg.chains, ChainOf <- cfg.chainOf,
  ScreenOf <- cfg.screenOf, Markets <- cfg.markets,
  Configured <- cfg.configured, Users <- cfg.users,
  Sample <- cfg.sample, History <- cfg.history,
  MaxMoves <- cfg.maxMoves, MaxFaults <- cfg.maxFaults, None <- Off,
  market <- v1, opted <- v2, cooling <- v3, seen <- v4, looked <- v5, empty <- v6, left <- v7,
  chain <- v8, found <- v9, answer <- v10, screened <- v11, listed <- v12, controls <- v13,
  missing <- v14, todo <- v15, gem <- v16, stored <- v17, tracked <- v18, chats <- v19, moves <- v20,
  faults <- v21, scanned <- v22

AnyGem(cfg) == INSTANCE GemWatch WITH
  Runs <- cfg.runs, Watches <- cfg.watches, Chains <- cfg.chains,
  ChainOf <- cfg.chainOf, Flaky <- cfg.flaky, MaxPrice <- cfg.maxPrice,
  Loss <- cfg.loss, Gain <- cfg.gain, Armed <- cfg.armed,
  Trail <- cfg.trail, MaxMoves <- cfg.maxMoves, MaxFaults <- cfg.maxFaults,
  None <- Off,
  price <- v1, flagged <- v2, moves <- v3, status <- v4, entry <- v5, peak <- v6, told <- v7,
  rows <- v8, queue <- v9, quote <- v10, was <- v11, one <- v12, high <- v13, stood <- v14,
  faults <- v15

AnySpot(cfg) == INSTANCE SpotBreakouts WITH
  Runs <- cfg.runs, LastDay <- cfg.lastDay, Levels <- cfg.levels,
  Lookback <- cfg.lookback, MaxFaults <- cfg.maxFaults, None <- Off,
  day <- v1, low <- v2, close <- v3, broke <- v4, up <- v5, rows <- v6, done <- v7, now <- v8,
  mine <- v9, faults <- v10

Intraday == INSTANCE IntradayWatch WITH
  Runs <- IntradayConfig.runs, Coins <- IntradayConfig.coins, Trades <- IntradayConfig.trades,
  CoinOf <- IntradayConfig.coinOf, Owner <- IntradayConfig.owner, Web <- IntradayConfig.web,
  Alerted <- IntradayConfig.alerted, LastDay <- IntradayConfig.lastDay,
  MaxMoves <- IntradayConfig.maxMoves, MaxFaults <- IntradayConfig.maxFaults,
  day <- v1, level <- v2, turned <- v3, moves <- v4, claimed <- v5, told <- v6, now <- v7,
  found <- v8, fresh <- v9, left <- v10, seen <- v11, faults <- v12

Setup == INSTANCE SetupTracker WITH
  Runs <- SetupConfig.runs, Coins <- SetupConfig.coins, Watchlist <- SetupConfig.watchlist,
  LastBar <- SetupConfig.lastBar, Window <- SetupConfig.window, Expiry <- SetupConfig.expiry,
  MaxTouches <- SetupConfig.maxTouches, MaxSetups <- SetupConfig.maxSetups,
  MaxFaults <- SetupConfig.maxFaults, None <- Off,
  bar <- v1, touch <- v2, refusing <- v3, scanned <- v4, setups <- v5, alerted <- v6,
  targets <- v7, fresh <- v8, off <- v9, cache <- v10, oldDay <- v11, upto <- v12, coin <- v13,
  open <- v14, faults <- v15

Scan == INSTANCE CoinScan WITH
  Runs <- ScanConfig.runs, Btc <- ScanConfig.btc, Alts <- ScanConfig.alts,
  LastDay <- ScanConfig.lastDay, HasOkx <- ScanConfig.hasOkx, MaxFaults <- ScanConfig.maxFaults,
  MaxOverlaps <- ScanConfig.maxOverlaps,
  day <- v1, rows <- v2, now <- v3, asked <- v4, got <- v5, seen <- v6, dropped <- v7,
  added <- v8, job <- v9, told <- v10, faults <- v11, overlaps <- v12

Outcome == INSTANCE SignalOutcomes WITH
  Runs <- OutcomeConfig.runs, Drains <- OutcomeConfig.drains, Signals <- OutcomeConfig.signals,
  TypeOf <- OutcomeConfig.typeOf, FrameOf <- OutcomeConfig.frameOf,
  SourceOf <- OutcomeConfig.sourceOf, Horizons <- OutcomeConfig.horizons,
  Look <- OutcomeConfig.look, Limit <- OutcomeConfig.limit, MaxTime <- OutcomeConfig.maxTime,
  MaxFaults <- OutcomeConfig.maxFaults, None <- Off,
  now <- v1, at <- v2, row <- v3, price <- v4, candles <- v5, begun <- v6, horizon <- v7,
  batch <- v8, faults <- v9

GemOutcome == INSTANCE GemOutcomes WITH
  Runs <- GemOutcomeConfig.runs, Tokens <- GemOutcomeConfig.tokens,
  Chains <- GemOutcomeConfig.chains, ChainOf <- GemOutcomeConfig.chainOf,
  BatchOf <- GemOutcomeConfig.batchOf, Horizons <- GemOutcomeConfig.horizons,
  Grace <- GemOutcomeConfig.grace, Limit <- GemOutcomeConfig.limit,
  MaxRows <- GemOutcomeConfig.maxRows, MaxTime <- GemOutcomeConfig.maxTime,
  MaxMoves <- GemOutcomeConfig.maxMoves, MaxFaults <- GemOutcomeConfig.maxFaults, None <- Off,
  now <- v1, open <- v2, moves <- v3, rows <- v4, outcome <- v5, begun <- v6, horizon <- v7,
  left <- v8, batch <- v9, faults <- v10

Baseline == INSTANCE BaselineAnnounce WITH
  Runs <- BaselineConfig.runs, Verdicts <- BaselineConfig.verdicts,
  Configured <- BaselineConfig.configured, Subscribers <- BaselineConfig.subscribers,
  MaxMoves <- BaselineConfig.maxMoves, MaxFaults <- BaselineConfig.maxFaults, None <- Off,
  verdict <- v1, opted <- v2, last <- v3, read <- v4, chats <- v5, moves <- v6, faults <- v7

Health == INSTANCE HealthAlerts WITH
  Cycles <- HealthConfig.cycles, OfRuntime <- HealthConfig.ofRuntime,
  OfTables <- HealthConfig.ofTables, Heartbeat <- HealthConfig.heartbeat,
  Chats <- HealthConfig.chats, MaxMoves <- HealthConfig.maxMoves,
  MaxFaults <- HealthConfig.maxFaults,
  broken <- v1, announced <- v2, said <- v3, found <- v4, unsent <- v5, moves <- v6, faults <- v7

ASSUME TrackersAssumption ==
  /\ Setup!ConstantsOK /\ Scan!ConstantsOK /\ Intraday!ConstantsOK
  /\ Outcome!ConstantsOK /\ Baseline!ConstantsOK /\ Health!ConstantsOK
  /\ Stream!ConstantsOK /\ Rest!ConstantsOK /\ GemOutcome!ConstantsOK
  /\ AnyScan(GemHistoryConfig)!ConstantsOK /\ AnyScan(GemScreenedConfig)!ConstantsOK
  /\ AnyGem(GemConfig)!ConstantsOK /\ AnyGem(GemFeedsConfig)!ConstantsOK
  /\ AnySpot(SpotConfig)!ConstantsOK /\ AnySpot(SpotDaysConfig)!ConstantsOK
-----------------------------------------------------------------------------
(* One of them is played. *)

Init ==
  \/ playing = "stream" /\ Stream!Init /\ pc = Off /\ Free14
  \/ playing = "rest" /\ Rest!Init /\ Free7
  \/ playing = "gemHistory" /\ AnyScan(GemHistoryConfig)!Init
  \/ playing = "gemScreened" /\ AnyScan(GemScreenedConfig)!Init
  \/ playing = "gem" /\ AnyGem(GemConfig)!Init /\ Free15
  \/ playing = "gemFeeds" /\ AnyGem(GemFeedsConfig)!Init /\ Free15
  \/ playing = "spot" /\ AnySpot(SpotConfig)!Init /\ Free10
  \/ playing = "spotDays" /\ AnySpot(SpotDaysConfig)!Init /\ Free10
  \/ playing = "intraday" /\ Intraday!Init /\ Free12
  \/ playing = "setup" /\ Setup!Init /\ Free15
  \/ playing = "scan" /\ Scan!Init /\ Free12
  \/ playing = "outcome" /\ Outcome!Init /\ Free9
  \/ playing = "gemOutcome" /\ GemOutcome!Init /\ Free10
  \/ playing = "baseline" /\ Baseline!Init /\ Free7
  \/ playing = "health" /\ Health!Init /\ Free7

Next ==
  /\ \/ playing = "stream" /\ Stream!Next /\ UNCHANGED <<pc, over14>>
     \/ playing = "rest" /\ Rest!Next /\ UNCHANGED over7
     \/ playing = "gemHistory" /\ AnyScan(GemHistoryConfig)!Next
     \/ playing = "gemScreened" /\ AnyScan(GemScreenedConfig)!Next
     \/ playing = "gem" /\ AnyGem(GemConfig)!Next /\ UNCHANGED over15
     \/ playing = "gemFeeds" /\ AnyGem(GemFeedsConfig)!Next /\ UNCHANGED over15
     \/ playing = "spot" /\ AnySpot(SpotConfig)!Next /\ UNCHANGED over10
     \/ playing = "spotDays" /\ AnySpot(SpotDaysConfig)!Next /\ UNCHANGED over10
     \/ playing = "intraday" /\ Intraday!Next /\ UNCHANGED over12
     \/ playing = "setup" /\ Setup!Next /\ UNCHANGED over15
     \/ playing = "scan" /\ Scan!Next /\ UNCHANGED over12
     \/ playing = "outcome" /\ Outcome!Next /\ UNCHANGED over9
     \/ playing = "gemOutcome" /\ GemOutcome!Next /\ UNCHANGED over10
     \/ playing = "baseline" /\ Baseline!Next /\ UNCHANGED over7
     \/ playing = "health" /\ Health!Next /\ UNCHANGED over7
  /\ UNCHANGED playing

streamVars     == Stream!vars
gemScanVars    == AnyScan(GemHistoryConfig)!vars
gemVars        == AnyGem(GemConfig)!vars
setupVars      == Setup!vars
scanVars       == Scan!vars
outcomeVars    == Outcome!vars
gemOutcomeVars == GemOutcome!vars
baselineVars   == Baseline!vars
healthVars     == Health!vars

\* The fairness each module states.
Spec ==
  /\ Init /\ [][Next]_vars
  /\ WF_streamVars(playing = "stream" /\ Stream!Closed)
  /\ WF_streamVars(playing = "stream" /\ Stream!StaleFires)
  /\ WF_streamVars(playing = "stream" /\ Stream!CheckStep)
  /\ \A s \in StreamConfig.streams : WF_streamVars(playing = "stream" /\ Stream!Message(s))
  /\ WF_streamVars(playing = "stream" /\ Stream!Elapse)
  /\ \A r \in GemHistoryConfig.runs :
       WF_gemScanVars(playing = "gemHistory" /\ AnyScan(GemHistoryConfig)!Step(r))
  /\ \A r \in GemScreenedConfig.runs :
       WF_gemScanVars(playing = "gemScreened" /\ AnyScan(GemScreenedConfig)!Step(r))
  /\ \A r \in GemFeedsConfig.runs : WF_gemVars(playing = "gemFeeds" /\ AnyGem(GemFeedsConfig)!Step(r))
  /\ \A r \in SetupConfig.runs : WF_setupVars(playing = "setup" /\ Setup!Step(r))
  /\ WF_setupVars(playing = "setup" /\ Setup!BarCloses) /\ WF_setupVars(playing = "setup" /\ Setup!DayEnds)
  /\ \A r \in ScanConfig.runs : WF_scanVars(playing = "scan" /\ Scan!Step(r))
  /\ \A r \in OutcomeConfig.runs : WF_outcomeVars(playing = "outcome" /\ Outcome!Step(r))
  /\ \A r \in GemOutcomeConfig.runs : WF_gemOutcomeVars(playing = "gemOutcome" /\ GemOutcome!Step(r))
  /\ \A r \in BaselineConfig.runs : WF_baselineVars(playing = "baseline" /\ Baseline!Step(r))
  /\ \A r \in HealthConfig.cycles : WF_healthVars(playing = "health" /\ Health!Step(r))
-----------------------------------------------------------------------------
(* The properties of the modules, each of the instance that is played. *)

\* The type invariants of all of them; RestClient's bounds what a call waits in all.
TypeOK ==
  /\ playing = "stream" => Stream!TypeOK
  /\ playing = "rest" => Rest!TypeOK
  /\ playing = "gemHistory" => AnyScan(GemHistoryConfig)!TypeOK
  /\ playing = "gemScreened" => AnyScan(GemScreenedConfig)!TypeOK
  /\ playing = "gem" => AnyGem(GemConfig)!TypeOK
  /\ playing = "gemFeeds" => AnyGem(GemFeedsConfig)!TypeOK
  /\ playing = "spot" => AnySpot(SpotConfig)!TypeOK
  /\ playing = "spotDays" => AnySpot(SpotDaysConfig)!TypeOK
  /\ playing = "intraday" => Intraday!TypeOK
  /\ playing = "setup" => Setup!TypeOK
  /\ playing = "scan" => Scan!TypeOK
  /\ playing = "outcome" => Outcome!TypeOK
  /\ playing = "gemOutcome" => GemOutcome!TypeOK
  /\ playing = "baseline" => Baseline!TypeOK
  /\ playing = "health" => Health!TypeOK

\* CombinedStreamClient: no timer outlives what it is for.
NoOrphanTimer == playing = "stream" => Stream!NoOrphanTimer

\* BinanceRestClient.get: one call sends at most one request into a ban.
OneRequestIntoBan == playing = "rest" => Rest!OneRequestIntoBan

\* armPerStreamWatch: a socket is ended for a quiet stream only after a whole window.
ForcedAfterFullWindow == [][playing = "stream" => Stream!AfterFullWindow]_vars

\* CombinedStreamClient: neither a dead connection nor a stream that went silent
\* behind its neighbours is left alone.
SilenceIsActedOn ==
  /\ []<>(playing = "stream" => ~Stream!DeadOpen)
  /\ \A s \in StreamConfig.streams : []<>(playing = "stream" => ~Stream!Unheard(s))

\* runScan, persistAndMaybeAlert: what is listed was vetted, and has its rows
\* before anyone is told.
ListedIsVetted ==
  /\ playing = "gemHistory" => AnyScan(GemHistoryConfig)!ListedIsVetted
  /\ playing = "gemScreened" => AnyScan(GemScreenedConfig)!ListedIsVetted

\* runGemWatchCycle: a position is judged on the peak that stands.
JudgedOnStandingPeak == playing = "gem" => AnyGem(GemConfig)!JudgedOnStandingPeak

\* stepBreakout: a position ends on the first day that ends it, seen or not.
ClosedOnFirstDay ==
  /\ playing = "spot" => AnySpot(SpotConfig)!ClosedOnFirstDay
  /\ playing = "spotDays" => AnySpot(SpotDaysConfig)!ClosedOnFirstDay

\* updateSpotBreakoutTrail: the trail only rises, and closed is closed.
TrailOnlyRises ==
  [][/\ playing = "spot" => AnySpot(SpotConfig)!TrailRises
     /\ playing = "spotDays" => AnySpot(SpotDaysConfig)!TrailRises]_vars

\* runCoinWatchIntraday: every chat gets its own reminders, and none twice a day.
ToldOncePerDay == playing = "intraday" => Intraday!OncePerDay /\ Intraday!FoundIsTold

\* No queue is stuck: a signal or a gem that can be priced is priced in the end
\* (getResolvableOutcomes, runGemOutcomeTracker), a token once listed is looked at
\* after it fell (observeTrackedTokens), an open setup whose coin left the scan is
\* closed (planCoinSetupScan), and a scan that failed is made again until its day is
\* stored (runCoinScanCycle).
QueuesDrain ==
  /\ []<>(playing = "gemHistory" => AnyScan(GemHistoryConfig)!Unseen = {})
  /\ []<>(playing = "outcome" => Outcome!Waiting = {})
  /\ []<>(playing = "gemOutcome" => GemOutcome!Pending = {})
  /\ []<>(playing = "setup" => Setup!Overdue(Setup!Serving) = {})
  /\ (playing = "scan" /\ v1 = ScanConfig.lastDay)
       ~> (playing = "scan" /\ Scan!Stored(ScanConfig.lastDay))

\* Standing news is told in the end: a baseline verdict (decideAnnouncement), an issue
\* of the system that is there, or is over (diffIssues), and a position to sell,
\* whichever chain a pass reads first and whatever fails in it (runGemWatchCycle).
NewsIsTold ==
  /\ \A v \in BaselineConfig.verdicts : []<>(playing = "baseline" => Baseline!Told(v))
  /\ \A k \in Health!Keys : []<>(playing = "health" => Health!LastWordIs(k))
  /\ \A w \in GemFeedsConfig.watches :
       []<>(playing = "gemFeeds" => ~AnyGem(GemFeedsConfig)!Ignored(w))

\* resolveGemOutcome: what is recorded as gone is gone.
GoneIsGone == playing = "gemOutcome" => GemOutcome!GoneIsGone
=============================================================================
