# A verification of crypto-signal

TLA+ models of the Crypto Market Health Monitor, TLC configurations that check
them on small instances, and TLAPS proofs of what matters most for every size.
Every definition is translated from the TypeScript under `src/`; `PROJECT.json`
gives, under `map`, the lines each definition stands for.

Contents: [the system](#the-system), [inventory](#inventory),
[modules](#modules-and-code), [runs](#runs-bounds-and-what-they-show),
[fairness](#fairness), [proofs](#proofs),
[divergences](#what-the-modelling-found),
[not modelled](#what-is-not-modelled), [plan](#plan), [how to run](#how-to-run).

## The system

A TypeScript monorepo: eight packages and four applications around one
PostgreSQL database.

    Binance/OKX/Bybit/...  --sockets, REST-->  worker  --rows-->  PostgreSQL
                                                 |                    |
                                                 | messages           | queries
                                                 v                    v
                                              Telegram chats  <--  bot -> API <- web

* The **worker** (`apps/worker`) is the only process that talks to exchanges. It
  keeps the rolling state of each (symbol, timeframe) in memory, writes candles,
  metrics, health snapshots, signals and alerts, and runs about fifteen
  trackers from `setInterval` timers.
* The **API** (`apps/api`) answers queries, and writes only subscriptions, gem
  watches, journal trades and airdrop farms.
* The **bot** (`apps/telegram`) and the **web dashboard** (`apps/web`) are
  clients of the API.

Three facts about the code shape every model here:

1. **Timers do not wait.** A job is `setInterval(() => void run().catch(log))`
   (scheduler.ts): the next run starts whether or not the last one has ended.
2. **Callbacks are not awaited.** A socket callback starts the asynchronous
   processing of a candle and returns; two candles of one market can be in
   processing at once. One action of a model is one synchronous stretch of the
   single-threaded program, from one `await` to the next.
3. **Deploys overlap.** For a while two workers run on one database, and only
   what the database refuses (primary keys, unique indexes, `ON CONFLICT`,
   `WHERE status = 'open'`) keeps them apart. Where nothing does - `upsertCandle`
   overwrites whatever row it finds - the model shows what follows.

## Inventory

| Component | State it keeps | Operations | Interacts with | What is hard | What makes it correct |
|---|---|---|---|---|---|
| Candle pipeline | pair buffer, sequence guards, CVD and windows (memory); candles, metrics, snapshots (rows) | socket delivery, pairing, processing, REST fallback, boot backfill | sockets, REST client, alert dispatch, database | reordered, lost, repeated messages; un-awaited processing; overlapping fallback runs; restarts; a second worker writing the same candle rows | each candle enters the state once; snapshots rest on closed rows, but for candles two workers overlap on; nothing is skipped silently; no half pair waits for ever |
| Binance WebSocket client | socket, reconnect timer, two watchdogs, per-stream stamps | connect, open, message, ping, close, watchdog callbacks, user close | pipeline, data quality | timers that outlive their socket; silence behind a busy neighbour | silence is acted on; a watchdog never ends the next connection; close() is final |
| Binance REST client | `bannedUntil`, retry loops in flight | get | pipeline, backfill, scans | concurrent calls sharing a ban | one request per call into a ban; no long sleep |
| Alert dispatch | `alert_events`, subscriptions | fire, cooldown check, send, record | pipeline, API subscriptions, Telegram | two snapshots firing one alert; opt-out in flight; one chat failing | opt-outs respected; every recipient tried; nothing repeated within a cooldown but by dispatches that overlap |
| Daily structure and digest | `trend_states`, `daily_digests`, `daily_digest_chats` | hourly cycle: read, upsert, gate, claim, compose, send, record | coin scan, subscriptions, Telegram | two workers, death between claim and send, a scan that never comes | at most one digest per chat and day; no wasted claim; it goes out on a good day |
| Daily coin scan | `coin_scan_rows`, `job_health` | hourly tick, two exchanges, delete and insert in a transaction, coin watch message | setup tracker, digest, web | two transactions at READ COMMITTED; falling back between exchanges | a stored day is one scan; it never disappears; it is retried until stored |
| 4H setup tracker | `trade_setups`, per-process `dailyCache` | plan, read daily and 4H bars, resolve, detect, insert, alert | coin scan, exchanges, Telegram | exchange changing under an open setup; overlapping runs | the first touch decides; closed once; alerted once; none stranded |
| Gem position watch | `gem_watches` | /watch, /unwatch, pass: fetch per chain, raise peak, judge, close, alert | API, DexScreener, Telegram | overlapping passes; answers that lack a pool, and requests that fail without saying so | judged on the standing peak; a lasting sell condition is acted on |
| Spot breakout list | `spot_breakouts`, `job_health` | daily run: walk, raise trail, close, enter | web | missed days, failed runs, stale bars | closed on the first day that ends it; the trail only rises |
| Intraday alerts | `coin_watch_intraday_sent` | hourly: find, claim, send | journal, Telegram | overlapping runs, failed sends | nothing told twice a day; what is found is told |
| Scheduler, boot, heartbeat | `worker_runtime`, timers | boot, beat, shutdown | status, health alerts | two workers writing one row | the row describes the worker that lives |
| Historical backfill command | candles, signals, `job_health` | fetch a window, score it, store, price | live collector, signal outcomes | failed windows, overlapping replays, a live candle stored meanwhile | live rows stand; a replayed signal keeps the candles that price it |
| Signal outcomes, verdicts, edge | `signal_outcomes` | page by page: due rows, the candle of each, record; count firings | candles, performance page | candles stored late, overlapping passes, one condition on three timeframes | a price is of its own window; no two samples off one candle; no row blocks the page |
| Signal engine, health engine | none | ten rules, confidence, Health, Leverage Risk | pipeline, alert dispatch | rules written twice, once per side; legs with the same field names; thresholds that are not the gate | no contradicting signals; mirrored rules mirror; magnitudes are gated; risk answers to leverage alone |
| Indicators | none | pure functions | pipeline, scans | boundaries, missing inputs | bounds; agreement with a reference definition |
| Gem discovery and scoring | `gem_tokens`, `gem_scans`, `gem_outcomes`, price history, chain health | discover, fetch pools, gate, screen, store, alert, look again | gem watch, web, Telegram | partial failure of four sources; several pools per token; a fallen token nobody finds any more | what is listed was vetted; its outcome row precedes its alert; every token once listed is looked at |
| Gem outcomes, control group | `gem_outcomes`, `gem_baseline_candidates` | page of due rows, fetch per chain, record or write off | gem scan, baseline announcement | an answer that lacks a pool, feeds that fail in silence | what is recorded as gone is gone; the queue drains |
| Gem baseline announcement | `gem_baseline_announcements` | decide, address, send, record | gem outcomes, Telegram | the verdict turns while it is sent; overlapping runs | the verdict that stands is told |
| Health alerts, job health | keys announced (memory), `job_health` | collect over several reads, compare, send | every job | a restart forgets; one issue hides the others | the last word on every issue is true in the end |
| Sector, flywheel, airdrop, stablecoin scans | one row per key and day | fetch, compute, replace | web | partial answers | a stored day is one answer |
| Lookup | none | resolve, read, answer | exchanges, API | sources failing one by one | a failed source removes only its part |
| Trade journal | `trade_journal` | create, patch (two reads, one write), delete | intraday alerts, web, bot | two patches of one row | the stored result is that of the prices, side, size and stop stored with it |
| API, web | none of their own | queries | database | stale data shown as fresh | age is judged before content |
| Telegram bot | the polling session | commands, handover | API | two pollers of one token in a deploy | the new one polls once the old one ends |
| Market data adapters, configuration, schema queries, scripts | none | requests, reads | all | refusals and partial answers | modelled where a cycle meets them |

`PROJECT.json` lists the hazards of the modelled part, each at its line with the
properties that would catch it.

## Modules and code

One module per component; an `MC` module instantiates each for TLC, and a
`Proofs` module holds its theorems. Data is abstracted to what the properties
tell apart: a candle is its position on the grid, a price one of a few levels, a
chat, coin or run a model value. In several modules a run that is over resets
its local variables; they are dead by then, and the reset only merges states.

| Module | Code | State and actions |
|---|---|---|
| `CandlePipeline` | state.ts, pipeline.ts, backfill.ts, main.ts, scheduler.ts `resolveTimedOutPairs`, normalizer.ts `CandleSequenceGuard` | `pending` is `CandlePairBuffer.pending`, `guard` the two guards, `jobs` the calls of `processMatchedCandles` in flight with the await each stands at, `todo` what each fallback run has still to fetch, `stored`, `metrics`, `snapshots` the tables, `applied` how often a candle entered the rolling state; `peer` is another worker on the same database. `Deliver` is the socket callback with everything it does before its first await; `TickStart`, `TickFound`, `TickDrops`, `TickFails` are a fallback run; `StoreSpot` ... `Finish` are the stretches of the processing; `BackfillFetch/Done/Fails`, `Crash`, `Boot` the life of the process; `PeerStarts`, `PeerBackfills`, `PeerStores`, `PeerStops` what a worker of an overlapping deploy, older or newer, may do to the same rows. |
| `StreamClient` | binance/ws.ts, streamHealth.ts, backoff.ts | `conn` and `status` are the socket; `staleArmed`, `watchArmed`, `checkDue` its timers; `age` the stamps. `Opened`, `Message`, `Ping`, `Errored`, `Closed`, `UserClose` are the handlers, `StaleFires`, `CheckHealthy`, `CheckForces`, `CheckGivesUp` the callbacks of the two watchdogs. |
| `RestClient` | binance/rest.ts | `pause` is `bannedUntil` counted down, `attempt`, `reply`, `sleep` the loop of each call; `HandleFinal`, `HandleBan`, `HandleBackoff`, `Retry` its branches. |
| `AlertDispatch` | pipeline.ts `dispatchAlert`, alerting.ts, telegramNotifier.ts, signals.ts, botUsers.ts | `events` is `alert_events`; a dispatch goes through the cooldown query, the recipients' query and one send and one record per chat, while chats switch alerts on and off. |
| `DailyDigest` | trendCycle.ts, trendStates.ts | the cycle of each worker cut at its awaits; `claimed`, `body`, `recipients`, `personal` are the columns and tables of the digest. |
| `MorningMessage` | migration 026, trendStates.ts (`claimDailyDigest`) | the abstract promise: a day is opened at most once, each chat told at most once per open day. `DailyDigest` implements it with `open <- claimed`, `count <- sent`. |
| `CoinScan` | coinScan.ts (worker and db) | the statements of `saveCoinScan` are separate steps, and meet other transactions as READ COMMITTED lets them: waiting for uncommitted rows of a key, refused by a committed one, ended by the deadlock detector. |
| `SetupTracker` | coinSetups.ts, setupScan.ts, tradeSetups.ts, dailyBars.ts, setups.ts `resolveSetupOutcome` | time in closed 4H bars; `setups` is the table, `cache` each process's `dailyCache`, `off` its `binanceOff`. |
| `GemWatch` | gemWatch.ts, gemWatches.ts, routes/watches.ts, watchEvaluator.ts | `status`, `entry`, `peak` are columns of `gem_watches`; a pass goes chain by chain; `Fetch` asks for each token of a chain, and one whose request failed comes back without a pair, like one that has none. |
| `SpotBreakouts` | spotBreakouts.ts (worker and db), breakouts.ts `stepBreakout` | `rows` is the table, `done` the last success of `job_health`; `After` is the whole walk of a position over its bars. |
| `IntradayWatch` | coinWatchIntraday.ts, coinScan.ts `claimCoinWatchIntraday` | `claimed` is `coin_watch_intraday_sent`; claims come one by one, sends after them. |
| `SignalEngine` | signal-engine: engine.ts, confidence.ts, severity.ts, rules/; indicators: funding.ts, volumeAnomaly.ts, liquidationAnomaly.ts | no state: a snapshot is a record of integers, a rule is an operator that yields one signal or none, `Signals` is `evaluateSignals`. |
| `HealthEngine` | healthScore.ts, riskScore.ts, volatility.ts `computePriceStructureScore` | no state: one operator per component, `HealthScore`, `RiskScore`. |
| `MarketRead` | snapshot.ts | `market` is the snapshot of the latest closed candle; each action brings one new reading, so that a step shows what that reading alone does. |
| `ChartSetups` | structure.ts, setups.ts | `daily` and `bars` are the closed daily and 4H bars, `BarCloses` adds one; swings, trend, break, stop, target and plan are operators over them (`SwingHighs`, `Trend`, `Pullbacks`, `Retests`, `Finish`). |
| `SignalOutcomes` | outcomes.ts (worker and db) | time in candles; `price` holds the candle a column was read from; `Read` takes a page of `Due` rows with the answer of each, `Record` writes them one by one; `Samples` is what /performance counts. |
| `HistoryBackfill` | historyBackfill.ts, backfillMain.ts, candles.ts | a replay is a boot or the command: `WindowBegins`, `Candle`, `Score`, `Pricing`, `Finish`, `WindowFails`; `stored` tells live rows from replayed ones, `signals` how often each was written. |
| `TradeJournal` | tradeJournal.ts, routes/journal.ts | `journal` is the table; a patch goes through `Check`, `Merge` and `Write`; `Result` is the arithmetic of a closed trade, kept as fractions. |
| `GemScan` | gemScan.ts, gem-scanner: scanner.ts, scoring.ts (gate), baseline.ts, observation.ts, sources/; gems.ts, gemPriceHistory.ts | a run goes chain by chain: `Discover`, `Fetch` (deepest pool, gate, control sample), `Screen` token by token with the verdicts of RugCheck and GoPlus, `SaveToken` ... `SaveEvent` gem by gem, `SaveControls`, `ReadTracked`, `Observe`, `SaveHealth`. Figures are counted from their thresholds; of the score only whether it is worth an alert is kept. |
| `GemOutcomes` | gemScan.ts `runGemOutcomeTracker`, gems.ts | a token has a deep and a thin pool; a pass takes a page per horizon, asks for the pools chain by chain (`Fetch`) and records or writes off (`Record`). |
| `BaselineAnnounce` | baselineAnnounce.ts, gems.ts | `last` is the newest row of `gem_baseline_announcements`; `Decide`, `Address`, `Send`, `Record`. |
| `HealthAlerts` | healthAlerts.ts | `announced` is the memory of the alerter, `said` a history of what it told; `ReadRuntime`, `ReadTables`, `Compare`, `Send`, `Done`. |
| `Messages` | scheduler.ts | the sum of `DailyDigest`, `CoinScan` and `AlertDispatch`, for any constants; `MCMessages` gives them values, two runs of each overlapping. |
| `Records` | scheduler.ts | the sum of `SetupTracker`, `HistoryBackfill`, `SignalOutcomes` and `TradeJournal`, for any constants; `MCRecords` gives them values, two runs of each overlapping. |
| `Trackers` | scheduler.ts | the sum of fifteen instances, for any constants (a record of them per instance; `AnyScan`, `AnyGem` and `AnySpot` take it as a parameter); `MCTrackers` gives them values: `StreamClient`, `RestClient`, `GemScan` twice (the history of two tokens; one token that is screened), `GemWatch` twice, `SpotBreakouts` twice, `IntradayWatch`, `SetupTracker`, `CoinScan`, `SignalOutcomes`, `GemOutcomes`, `BaselineAnnounce`, `HealthAlerts`. |
| `MarketChart` | | `MarketRead` and `ChartSetups` side by side: a behaviour plays one, the other stays as it started. |
| `MCMarketRead` | | the constants of `MarketChart`: the readings and the charts. |
| `MCCandlePipeline`, `MCGemOutcomes`, `MCGemScan` | | the constants of the runs of one module. |

**Why sums.** A behaviour of a sum plays one member, chosen for ever by
`playing`. The member's variables are substituted by the slots `v1`, `v2`, ...
(in `Messages` and `Records` one member keeps its own variables), and a slot that is left
over holds one value for ever. The members share no table and no memory, so the
product of their state spaces would say nothing the parts do not. A sum lets one
run check all of them, and it does *not* explore their interleaving. The sums are
written for any constants, and their theorems for all of them: a run and a theorem
speak of one definition, and the run gives it values. What
trackers do share is modelled where it matters: the digest sees the coin scan
(`DailyDigest!ScanStored`), the setup tracker sees the scan's coins change
(`SetupTracker!ScanChanges`), the dispatch sees subscriptions change, the replay
runs beside the live collector (`HistoryBackfill!LiveCandle`), the outcome
tracker sees candles stored at any time (`SignalOutcomes!Store`).

## Runs, bounds and what they show

| Run | Properties | Bounds | Why they are enough |
|---|---|---|---|
| `CandlePipeline_restart` | `TypeOK`, `SnapshotOfFinalRows`, `NoSilentSkip`, `OnlyOverlapReopens` | two markets, 2 candles, no fallback run, 2 restarts or workers beside this one | a gap needs two candles; a stale overwrite needs one restart or one other worker, and two let each follow the other |
| `CandlePipeline_fallback` | `AppliedOnce`, `PairsResolve` | 1 candle, 2 fallback runs, 1 restart or worker beside this one | double processing needs two runs, or a run and a socket, on one candle |
| `CandlePipeline_forming` | violation of `DuplicatesWereStored` | 2 candles, no fallback, one worker, no restart | see below |
| `Messages_each` | `NoWastedClaim`, `MorningMessageGoesOut`, `KeepsPromise`, `StoredDayIsOneScan`, `DayStaysStored`, `OptOutIsRespected`, `EveryRecipientTried`, `RepeatsOnlyByOverlap` | digest: 2 workers, 1 chat, 1 symbol, 1 day of 3 hours (window 1, wait 1); scan: 2 runs, 2 coins, 2 exchanges, 2 days, 2 faults, 1 overlap; alerts: 2 dispatches, 2 keys, 2 severities and confidences, 1 configured and 2 registered chats, 1 unit of cooldown | the claim is per day and the sends per chat, so one of each meets every race; transactions conflict in pairs, and two coins make two universes; each filter of a chat is met and missed |
| `DailyDigest_changes` | violation of `ChangeIsAnnounced` | 1 worker, 2 days | see below |
| `CoinScan_watch` | violation of `WatchOncePerDay` | 2 runs, no faults | see below |
| `Records_each` | `FirstTouchDecides`, `AlertedOnce`, `ReplayCanBePriced`, `PricedApart`, `ResultOfItsRow`, `RecordsStand` | setups: 2 workers, 1 coin, 3 bars, window 2, expiry 1, 2 touches, 1 setup, 1 fault; replay: a boot and a command, 1 symbol, 3 candles, 1 live candle, 1 fault; outcomes: tracker and drain, 2 signals of one type on two timeframes, 1 fault; journal: 2 requests, 1 trade, 2 prices, 6 patches | window and expiry keep the order of the code's 120 bars and 14 days, two touches of different levels, on one exchange or two, have an order to get wrong, and one fault is an overlap, a death, a failed read or a turn of Binance (the theorems of `SetupTrackerProofs` are for any number together); a race of replays needs one candle before and one after the window's start; a mixture of rows needs two patches of different fields |
| `HistoryBackfill_rerun` | violation of `SafeToRerun` | 1 command, 2 replays | see below |
| `GemOutcomes_lost` | violation of `WrittenOffIsLost` | 1 token with two pools | see below |
| `GemScan_unread` | violation of `ClearedIsRead` | 1 token screened by RugCheck, every report | see below |
| `Trackers_each` | `TypeOK`, `NoOrphanTimer`, `OneRequestIntoBan`, `ForcedAfterFullWindow`, `SilenceIsActedOn`, `ListedIsVetted`, `JudgedOnStandingPeak`, `ClosedOnFirstDay`, `TrailOnlyRises`, `ToldOncePerDay`, `GoneIsGone`, `QueuesDrain`, `NewsIsTold` | the fifteen instances in `MCTrackers`. Sockets: 2 streams, the two kinds the adapters build and one with a window shorter than the check, silence up to 10 periods, 3 forced reconnects. REST: 2 calls, 2 retries, backoffs of 1 and bans of up to 2 | each instance is the smallest in which the race or failure it is about happens: one quiet and one busy stream, 5 and 10 periods being the code's minutes; a ban learnt by one call while the other sleeps; two tokens of which the history holds one; a market of two pools of which the shallow one passes the gate too |
| `MarketRead_candles` | `TypeOK`, `NoContradiction`, `GatedByItsMagnitude`, `Mirrored`, `LeverageDrivesRisk`, `SwingsStand`, `PlanIsSound` | the default thresholds; every combination of readings on both sides of each that a rule compares (32,000 snapshots). Chart: swing width 1, average range of 2 bars, volume of 2, window of 3, 2 bars a day, 7 days in 4 shapes and 3 bars of 7 kinds | the rules only compare readings with thresholds, so one reading on each side of each stands for all; the proofs cover every threshold. The charts reach every trend, both breaks, both kinds of setup, and levels touched, lost and left |

The type invariants of the members of `Trackers_each` are conjuncts of its
`TypeOK`; those of the members of `Messages_each` and `Records_each` are proved.

Every property has a mutant in `PROJECT.json`: a plausible bug in the code (a
dropped guard, an off-by-one, a missing claim) with which the run finds the
property violated. The mutants stand next to the definitions they change.

`CHECK_DEADLOCK FALSE` stands where a bound ends the model: a clock at its last
day, all calls made, both dispatches done, a chart drawn to its last bar.

What the less obvious properties say:

* `NoSilentSkip` - the spot guard moves before the futures guard is asked, and
  the gap is computed from both. Whatever the order, loss or repetition of the
  two sides, a candle the futures guard has passed was processed, is in
  processing, was counted by a stored quality score, or died in a logged error.
* `ForcedAfterFullWindow` - the stamps of a stream are reset on every `open`;
  otherwise the first check of a new connection would end it for the silence of
  the old one, in a loop.
* `OnlyOverlapReopens` - within one worker, however often it restarts, no boot
  puts the values of a forming candle over a closed row. Two workers can: one
  reads candle n forming, the other stores it closed, the first upserts its
  answer. `contested` holds the candles on which that race is possible,
  those forming while both were up or read forming by a boot before the other
  came, and `SnapshotOfFinalRows` has the same exception.
* `RepeatsOnlyByOverlap` - nothing serialises two snapshots of one key, so two
  dispatches may both find the cooldown over. That is the one way to be told the
  same thing twice: after a dispatch that had ended, however long its sends took,
  a signal no severer and about as confident is sent within the cooldown only if
  an alert of the key that it does not repeat came in between.
* `NoWastedClaim` - every early return of `maybeSendDigest` comes before the
  claim, so a claimed day is one some run goes on to send, has sent, or broke on.
* `StoredDayIsOneScan` - two transactions replacing one day by different
  universes never leave the union: the second waits, conflicts, or is ended.
* `FirstTouchDecides` - a setup's record is what its own exchange did first,
  although runs fail, exchanges change, and each run sees only the last bars.
* `TypeOK` of `Trackers_each` - bounds, besides the types, the forced reconnects
  of a socket by their cap and all a REST call sleeps by `LongestSleep`.
* `ListedIsVetted` - a listed gem stands on the deepest pool of the answer it
  came in, passed the gate on it, and carries the verdict of its screen: never
  danger, never "safe" with a fault named, and "not screened" only on a chain no
  screen covers. By the time it is up for an alert its scan and, if it has a
  price, its outcome row are stored, those below the alert threshold included.
* `QueuesDrain` - five queues: signals that a stored candle can price, gem rows
  past their horizon, tokens the price history is to look at, setups of coins
  that left the scan, days whose scan failed. A token that fell is found by no feed any more; the history
  must look at it all the same.
* `PricedApart` - a condition that holds for hours is many rows on three
  timeframes; two samples of a type are priced off different candles, or one
  event counts twice.
* `ReplayCanBePriced` - candles that no rule can score still price the signals
  before them, whatever window failed and whichever replays overlapped.
* `ResultOfItsRow` - two overlapping patches may lose one update, never store a
  result of prices that are not in the row.
* `GoneIsGone` - a token recorded as `pool_gone` has no pool: an answer that is
  empty altogether says nothing of the tokens asked for.
* `NewsIsTold` - a verdict, or an issue of the system, that stands is the last
  word the chats were told, through overlapping runs, failures and restarts; a
  position to sell is told although the feed of another chain fails, and a feed
  that fails hides no position: it makes each look gone (see the divergences).
* `NoContradiction` - the rules run independently and no one picks a winner, so
  only the conditions inside ten separate files keep a candle from being read
  both ways.
* `SwingsStand` - what was confirmed as a swing stays one, and none appears among
  the bars already read, so the level of a recorded setup stays on the chart.
* `PlanIsSound` - the bars a plan was read on have not touched its stop, which is
  under its level; entry, level and target are in order, the reward is worth the
  risk, and the low of a pullback is one no daily close has lost.
* `LeverageDrivesRisk` - a step that changes the spot leg alone leaves Leverage
  Risk where it was; funding that stretches on its side never lowers it and
  never raises Health, through all signals it makes or unmakes on the way.
* `ClosedOnFirstDay` - a position is closed on the first day that ends it, even
  if no run looked for days or a run read stale bars.

## Fairness

Only what the code's own scheduling gives:

* `setInterval` keeps starting runs, every await of a run ends (each request has
  a timeout or gives up): weak fairness of a run's steps, per run.
* **Pipeline**: besides, a fallback run that starts again and again at some time
  finds everything that waits past its delay (`SF` of `FullTick`), and the
  exchange, asked for one candle again and again, does not fail for ever (`SF`
  of `Served`). Without the second the code does retry for ever, as it should.
* **Stream client**: timers fire, a served stream speaks, a closing socket
  closes, time passes. Nothing is assumed of the handshake: a connection attempt
  that never ends (`ws` is given no handshake timeout) satisfies the properties,
  which speak of open connections.
* **Gem watch**: nothing is assumed of the feeds of `Flaky` chains: each request may
  fail, and its tokens then have no pair in the answer.
* **Setup tracker, coin scan**: failures are bounded by `MaxFaults`, so in the
  end runs complete; which exchange answers in the end is left open.

* **Gem scan, outcomes, baseline, health alerts**: the timer starts a run and its
  awaits end; requests and queries fail at most `MaxFaults` times. Nothing is
  assumed of discovery: a token may never be found again.

The REST client, `MarketRead` and the other runs that state no liveness use `Spec`
without fairness.

## Proofs

TLAPS proves the theorems listed in `PROJECT.json` for every value of the constants, from the
assumptions named next to the constants and nothing else.

`CandlePipelineProofs` - any number of candles, fallback runs and restarts, one
market or two.

* `TypeCorrect`. The one step that is not routine is `Add`: `AddCases` splits an
  arrival into "queued", "half taken" and "accepted".
* `RowsReopenOnlyByOverlap` (`OnlyOverlapReopens`), through `FinalRowsAreOld`: a closed
  row that no two workers overlapped on is older than the forming candle of any
  answer still unused. It rests on `Fresh` (nothing in memory outside "up"),
  `OnlyClosedTravels` (whatever is in buffers, queues and jobs has closed) and
  `PeerContests` (a candle the peer may have read forming is contested). Without
  these a backfill could overwrite a row stored after its request.
* `SnapshotsRestOnFinalRows`, through `RowsOfJobs`: what a job has written by the
  time it stands at each step, which the former keeps, but for contested candles.
* `CandlesAppliedOnce`, through `JobsUnderGuard`: a job's candle is at or below
  both guards and unique among jobs, an applied candle too, so the guards refuse
  it ever after. `AppliedOnce` alone is not inductive: it says nothing of the job
  about to compute.
* `NothingSkippedSilently`, through `SkipStep`: a guard that moves from g to t
  puts t in flight and the candles between into the job's `missed`.

`MessagesProofs` - any number of workers, chats, symbols, days, scans, coins and
dispatches.

* `TypeCorrect` and `Inductive`: `IInv` says a day has one holder, a held day is
  claimed, a holder's audience is unsent, an unclaimed day is unsent.
* `ClaimsAreUsed` is `NoWastedClaim`; `Implements` is the refinement of
  `MorningMessage`: each step opens a day, tells a chat, or stutters; `NeverTwice`
  follows.
* `MorningComes` (`MorningMessageGoesOut`), through `RanIsClaimed`: where a run that
  reached the digest on a good day stands, and that the wait for the coin scan ends
  before the window does.
* `OptOutStands` and `NobodyIsSkipped`, through `AlertDispatch!IInv`: who never
  switched on again has alerts off (`OffAreOff`); in the loop the recipients are
  those recorded, those still to try and the one just tried (`Trying`, `Tried`).
  Neither property speaks of the loop, so neither is inductive.
* `RepeatsOverlap` (`RepeatsOnlyByOverlap`), through `AlertDispatch!HInv`. The cooldown
  is judged at the look-up and the rows are written later, so the property says
  nothing of the moment it is decided at. `DecidedOnTheLatest` does: each row that an
  alerting dispatch repeats, of one that had ended, is past the cooldown or followed
  by a row it does not repeat; time and new rows keep that. `EarlierHaveEnded` says
  those that had ended add no rows.
* `DayIsOneScan` and `StoredDaysStand`: `CoinScanProofs` with the slots of the sum in
  the place of its variables (`SameScan`, see "Proofs of a member" below).

`CoinScanProofs` - the daily scan alone, any number of workers, coins and days.

* `TypeCorrect`, `OneScanADay` and `DaysStand`, through `IInv`. A transaction that
  reads only committed rows says nothing of the others; what keeps two universes
  apart is the benchmark coin that every universe holds: whoever dropped or added
  its row of a day dropped the whole day (`BenchmarkLocks`), and there is one such
  transaction a day (`OneWriterOfADay`). A `DELETE` therefore sees a whole scan or
  nothing (`SeenWhole`, `DropsAll`). TLC checked this invariant first.

`MarketReadProofs` - any thresholds that meet `ThresholdsAssumption` and any
readings, over the integers; any chart, and any width of a swing.

* `SnapshotsTyped` is the one invariant needed: each action replaces a typed
  reading by a typed reading.
* `NeverContradicts`, through `WhatIsSaid`: what each of the ten rules, if it
  fires, says of the snapshot. Two signals that contradict each other
  (`TwoSignals`) say things no snapshot meets.
* `MagnitudesAreGated`, from the same facts and `T > 0`.
* `SwingsAreNotRedrawn` (`SwingsStand`): a bar that is added leaves the others where
  they are, and a confirmed swing looks at no bar after the last it was confirmed on.
* `PlansCanBeCarriedOut` (`PlanIsSound`, with the type of the chart). Three things
  about operators carry it. The average range is a fold over a set of bars, and a
  fold is what this prover cannot induct on: `Sums` proves by well-founded induction
  on the proper subsets of a finite set, with the predicate as a set, that the sum is
  a natural number when each range is. A finite set of numbers has a least and a
  greatest (`LeastOf`, `GreatestOf`), so the lowest target above the entry and the
  latest swing are what `CHOOSE` says. Then `PullbackHolds` and `RetestHolds` follow
  the guards of each kind of plan: what was not returned early is under the target
  and pays the least reward.
* `EachIsItsModule`: the composition implements `Spec` of the engines and of the
  chart, so that what is proved of each holds of the run.
* `RulesMirror`, through `ReversedFields` and `ReversedReadings`: what each reading
  of the reversed snapshot is.
* `ScoresKeepTheirRange` (`TypeOK`), through `HealthInRange` and `RiskInRange`: each
  part is clamped, and every divisor is a positive threshold, or one times an
  average that is not zero where it divides (`LiquidationScore`: without an average
  there is no spike). `SignalsTyped` says what a signal of any rule carries, for
  `ConfidenceInRange`.
* `RiskFollowsLeverage` (`LeverageDrivesRisk`), for any two snapshots. What depends on
  funding depends on how far it is from zero (`FundingBySize`, `CrowdingBySize`), so
  each part of Leverage Risk grows with that and no part of Health does: a negative
  signal stays, and a confirmed rally can only be lost (`StretchedDivergence`).
  Rounding keeps the order (`NearestGrows`). That funding stays on its side is not
  needed: what counts is its distance from zero.

`SetupTrackerProofs` - any number of workers, coins, bars and faults.

* `TypeCorrect`, action by action; `Typed` adds to `TypeOK` what a run keeps
  between two awaits.
* `ResolvedSetupsStay`: `SetupsStep` lists the only three ways a step writes the
  table - insert, close an open one, alert.
* `NoSetupAlertedTwice`, through `AlertInv`: a setup in some run's `fresh` is not
  alerted and is in no other run's `fresh`, since only the insert that returned
  the row put it there.
* `FirstTouchWins`, through `FirstInv`: besides the property, what an open setup's
  next judge can still see. Bars of the other exchange never reach a judge, and
  the bars read only grow at the end, so the first touch stays first.

`RecordsProofs` - any symbols, candles, replays, requests and patches, and the
constants of the other two members.

* `RecordsInductive`: `RecordsInv` is `Typed`, and the invariant of the member that is
  played. From it follow the types of all four members (`RecordsTyped`),
  `ReplaysArePriced`, `SamplesApart`, `ResultsAreOfTheirRows` and the action property
  `RecordsStandFast`.
* `BackfillInv`, of the replay: `Placed` (where a run is says what it is on),
  `ScoredStored` (candles behind the cursor that were served are stored, or the
  symbol is in `missed`), `PricingStored` (the pricing pass has the missed ones still
  to do). No stored candle is ever taken away (`StoredGrows`), and every write goes
  through `Kept`.
* `JournalInv`: a merged row waiting to be written has the result of its own prices,
  so `Write`, which replaces the whole row, cannot mix two; what is stale is lost as
  a whole.

`SignalOutcomesProofs` - any signals, passes and horizons. `WindowInv` says that
what a pass holds in `batch`, and what is recorded, was read inside the window of
its signal; two samples of a type are an episode apart, hence their windows are
disjoint on the horizons past the lookahead (`SamplesApart`).

**Proofs of a member.** `SetupTrackerProofs`, `CoinScanProofs` and
`SignalOutcomesProofs` are about one module, and are used wherever a sum plays it: by
`INSTANCE` with the slots of the sum in the place of the variables. The `Same...`
lemmas say that the member and the instance of its proofs are one; both are expanded
to the same formula.

`TrackersProofs` - any constants that meet `TrackersAssumption`. Each component has an
inductive invariant of its own in its section; `TrackersInv` is that of the one that
is played, `StepOfPlayed` says a step of the sum is a step of that one or changes
nothing for it. Of the gem scan, the gem watch and the spot list the lemmas are about
any record of constants, and are used for both instances.

* `TimersHaveOwners` and `NoSocketEndedEarly`, through `SocketInv`: a check that is
  due has its timer, and while the watch is armed no stream is older than its
  connection; so a quiet stream means a connection older than the window.
* `BansAreHeeded`, through `RetryInv`: a call that was told of the ban is sent no
  more, as a 418 is final; and what it has slept is within the budget of the
  attempts behind it (`LongestSleep` is in the type invariant).
* `ListsAreVetted`, through `ScanInv`: where a run stands in the chain says which
  of its listed gems have their rows (`Kept`); a token is listed once; what is no
  longer in `screened` is judged.
* `PeaksStand`, through `PassInv`: the peak a pass judges on is the one its own
  update returned.
* `EndsOnFirstDay` and `TrailsRise`, through `SpotInv`. The property is about the
  whole walk of a position over its bars, and bars are added while it is open:
  `EndsAreOfThePast` says that the days that end a position depend on the bars up to
  the last one walked only, and `AfterIsRight` that the walk stops on the first of
  them. A run that read stale bars then closes no position wrongly, it closes it
  later.
* `ToldOnce`, through `IntradayInv`. `DayInv`: what a run owes a chat was claimed by
  that run today (`FreshIsMine`), no two runs owe the same (`Owes`), what was told was
  claimed (`ToldIsClaimed`), and what is owed is untold (`OwedIsUntold`). Without
  faults, besides: what was seen is claimed, and what is claimed is told or owed by a
  run that is under way.
* `GoneWasGone`, through `OutcomeInv`: what a pass holds to record was read from one
  answer, and one answer for a whole chain that names some pool names all that stand.
* `TypesStand`: every variable of all fifteen instances keeps its type and its bounds.
  Most of it is in the invariants above; what they do not need is carried beside them.
  `LookInv` does that for the gem scan: what a run has in hand is a gem of its chain,
  its rows are those of one gem, and the order in which stored tokens were last seen
  (`seen`) stays total, whichever scan sees which token again (`InARow`). The setup
  tracker and the daily scan come from their own modules (`SameSetups`, `SameScan`).
  `BaselineAnnounce` and `HealthAlerts` promise
  liveness only; their types are inductive as they stand.

What the constants are assumed to meet, all of it so in the code: the wait for the
coin scan ends inside the digest's window (2 of 12 hours, trendCycle.ts:41,47); there
is a worker, a chat, a symbol; the benchmark is not among the scanned coins; the value
that stands for "nothing" is no run, coin, price or verdict; counters and bounds are
naturals, thresholds and horizons are not empty. The assumptions stand next to the
constants, and TLC evaluates them on the values of every run.

Only model-checked: liveness (`PairsResolve`, `SilenceIsActedOn`, `QueuesDrain`,
`NewsIsTold`), which this prover does not reach. Every invariant and every action
property of a passing run is stated by a theorem.

## What the modelling found

Six disagreements between the code and what it says of itself have a run that
exhibits them, under `findings`:

* **The forming candle** (`CandlePipeline_forming`). `backfillHistory` upserts the
  whole kline answer, including the candle still forming, and seeds the guards
  with it; its closing messages are then refused as duplicates, so its rows keep
  unfinished values and it never gets a snapshot. The trace: both guards are
  seeded with candle 1 while it forms, it closes, spot and futures deliver it,
  and both guards refuse it.
* **A change left out of the digest** (`DailyDigest_changes`). The label change
  shows only to the first run that sees the close; if that run waits for the coin
  scan, the run that sends finds the row already updated.
* **The coin watch message twice** (`CoinScan_watch`). Two overlapping runs both
  store the day and both send.

* **A replay twice** (`HistoryBackfill_rerun`). "Safe to re-run: every write is
  upserted", but a signal is a plain insert, so every replay of a window adds its
  signals and their outcome rows once more.
* **A thin pool** (`GemOutcomes_lost`). The scan goes by the deepest pool of a
  token, the outcome tracker by whichever pool the answer lists last; a token
  with a thin second pool is written off although its pool stands.
* **An unread report** (`GemScan_unread`). `mintAuthority == null` holds of an absent
  field too: a RugCheck report that says nothing of the authorities clears them.

Met while modelling, kept without a run:

* *Pipeline*: when a query fails after the guards have moved, the candle is lost
  and the next one counts no gap (`JobFails`, the ghost `lost`).
* *Pipeline*: in an overlapping deploy the boot of one worker can put the values of
  the forming candle over the row the other has stored closed and built a snapshot
  on: the answer is upserted as it was read (backfill.ts:66-73), whatever the row
  holds by then (candles.ts:5-39). `OnlyOverlapReopens` says this is the only way.
* *Stream client*: with the 5-minute window of the kline sockets the count of
  forced reconnects starts over before it reaches its cap, so "giving up" is
  reached only with a window shorter than the check, which no adapter builds.
* *REST client*: `bannedUntil` is looked at before the loop only; a call that
  slept through a ban another call has learnt of meanwhile sends one request into it.
* *Alert dispatch*: the cooldown query and the insert are two steps; two
  snapshots of one key at the same moment both alert.
* *Setup tracker*: a setup recorded on OKX is judged on OKX bars only, and is
  never read again while Binance answers; `QueuesDrain` is therefore stated for
  the exchange that answers in the end.
* *Gem watch*: `closeGemWatch` has no condition on the status: it turns a
  position the user has just closed into a triggered one, and two overlapping
  passes alert twice; a death between close and send loses the alert. A request
  that fails answers no pair (dexscreener.ts:186-189), and the pass closes every
  position it was asked about as `pool_gone` and says so to the chat. The comment at
  gemWatch.ts:46-48 calls this the same read as the outcome tracker's, but the
  tracker writes nothing off unless the chain answered and a grace has passed
  (gemScan.ts:289-291).
* *Spot breakouts*: a run that fails after closing a position is repeated and may
  enter the same coin again on the same day, against "A coin that exited today is
  not re-entered the same day"; a run that crosses midnight stamps the new day as
  done, and that day's run is skipped.
* *Intraday alerts*: the stop of a web-journal trade is claimed even if there is
  no chat to tell.
* *Daily structure*: structure.ts:27 calls the event "What changed the label on the
  latest close", and it is set on every close beyond the swing, not on the first;
  "Down: both lower" includes swings that are equal.
* *Setups*: only the first breakout of the window is looked at, so a level broken,
  lost and broken again within three days gives no retest; one breakout may give a
  plan on several bars, each a setup of its own.
* *Health engine*: `spotConfirmation` compares the price move, in percent, with
  the threshold of the CVD skew (healthScore.ts:91 passes `cvdSkewRatio`, 0.15)
  and not with `priceChangePct` (0.3), by which every rule calls a move a move.
* *Stream client*: between `new WebSocket()` and `open` no timer runs (no handshake
  timeout): a handshake that is never answered leaves the collector connecting
  until TCP gives up. The fairness assumes nothing of it.
* *Health alerts*: a stale heartbeat is reported alone, and the open issues it
  hides are announced as recovered; two overlapping cycles can deliver "open" and
  "closed" in the wrong order to a chat; the alerter lives in the process it
  watches.
* *Baseline announcement*: baselineAnnounce.ts:92-93 says a failure to deliver
  leaves the verdict due; the notifier reports a failure and does not throw, so it
  is recorded as told. A death between the sends and the record, and a verdict
  that flips back before the next run, leave the chats with the outdated one.
* *Gem scan*: two runs may overlap, and both alert a token neither has recorded
  yet; an insert of an alert event that fails ends the chain's pass, and the
  cooldown then silences the chats not yet told; a listed gem whose deepest pool
  has no price is left out of the price history even if another of its pools has
  one; checkEligibility says missing data fails the gate, and a missing 24h change
  passes the pump gate; goplus.ts:294-296 says the three checks must have been
  readable, and "unknown" takes all three unreadable; migration 004 says outcome
  rows are for alerted scans, the code writes one for every eligible one; types.ts
  gives `topHolderPct` as 0-1 and both sources give percent.
* *Gem scores* (not modelled): `pumpExhaustionRiskScore` drops just above zero (0% is
  15, +1% is 1); the risk of a screen that failed can be below that of a token
  screened as concentrated.
* *Gem outcomes*: fetchPairsForTokens swallows the failure of one batch of several,
  so a token whose batch failed for longer than the grace is written off as
  `pool_gone`; `GoneIsGone` therefore holds while the addresses of a chain fit one
  request. gemWatch.ts:41 has the same choice of the last pool. A chain that never
  answers keeps its rows first in the page.
* *Signal outcomes*: rows priced late may share a candle on horizons not past the
  lookahead (15m), against outcomes.ts:205-214; a forming 5m candle stored by a
  boot may price an outcome and is never re-priced; recordOutcomePrice has no
  `IS NULL` guard; insertSignal is two statements without a transaction.
* *Trade journal*: two overlapping patches can leave a stop on the winning side,
  against the comment in routes/journal.ts:176-178.

## What is not modelled

`PROJECT.json` lists every component with its status. Of the modelled ones:

* `CandlePipeline` computes indicators, scores and signals inside one action and
  leaves their values out; `MarketRead` has them, from readings that come one at
  a time where a candle may change all of them, in integers where the code has
  floating point, with components in whole points; candle volumes and CVD are abstracted to *which* candles entered. The
  order in which two un-awaited processings reach the rolling state is not kept;
* coins whose bars lag a day in the coin scan, the leverage half row by row, and
  several kinds of setup on one bar;
* the scores of a gem and of a verdict: what is worth an alert, and what the outcomes
  say, is given to the models;
* of a chart, the moving average and the comparison with BTC, which are inputs of
  `ChartSetups`, and the end of the fetched window;
* of the worker beside the one `CandlePipeline` follows: its memory, its metrics and
  its snapshots. What it may do to the candle rows is there, one such worker at a
  time; the snapshots are those of the worker that is followed;
* the text of messages, and their splitting and escaping;
* clock skew between workers: they share one clock.

## Plan

Order of the work, most important behaviour first; what is done is marked.

1. [done] `CandlePipeline`, its runs and proofs - everything downstream rests on it.
2. [done] `StreamClient`, `RestClient` - the sources it depends on.
3. [done] `AlertDispatch`; `DailyDigest` against the abstract `MorningMessage`, proved.
4. [done] `CoinScan`, `SetupTracker`, `GemWatch`, `SpotBreakouts`, `IntradayWatch`.
5. [done] `SignalEngine`, `HealthEngine`, `MarketRead` and its proofs.
6. [done] `SignalOutcomes`, `GemOutcomes`, `HistoryBackfill`, `TradeJournal`.
7. [done] `GemScan` with the gate and the screens; `HealthAlerts`,
   `BaselineAnnounce`.
8. [done] Theorems about the safety of `SetupTracker`, `HistoryBackfill`,
   `SignalOutcomes`, `TradeJournal`, `IntradayWatch`, `CoinScan`, `AlertDispatch`,
   `StreamClient`, `RestClient`, `GemScan`, `GemWatch`, `SpotBreakouts`,
   `GemOutcomes`, and of the sums `Messages`, `Records` and `Trackers`.
9. Pure algorithms as operators: daily structure and setup detection [done:
   `ChartSetups`]; sector rotation, gem scores, the verdict on a rule's samples.
10. `Heartbeat` (two workers, one runtime row), `BotHandover` (two pollers of one
    token), `Airdrops`, and which parts of a lookup a failed source may remove.
11. Composition: `CandlePipeline` with `AlertDispatch` (two snapshots of one key),
    `SetupTracker` with `CoinScan`.
12. A once-per-key notifier as an abstract specification that `IntradayWatch` and
    `SetupTracker` implement, as `DailyDigest` implements `MorningMessage`.
13. [done] Theorems: the ranges of the scores of `MarketRead`; that Leverage Risk
    answers to the leverage half alone; the plans of `ChartSetups`; the types of every
    member of the sums.

## How to run

In this directory, with TLC, TLAPS 1.4.5 and the community modules:

    tlc -config Trackers_each.cfg MCTrackers      # a run: PROJECT.json names module and cfg
    tlapm CandlePipelineProofs.tla                # the proofs of a module

`CandlePipeline_restart`, `Records_each`, `Messages_each` and `Trackers_each` take two to
four minutes each on two cores; every other run ends in about a minute.
