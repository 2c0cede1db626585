------------------------------ MODULE MCTrackers ------------------------------
(***************************************************************************)
(* Fifteen small instances of Trackers: of the gem scan, of the gem watch  *)
(* and of the spot list two, each large where the other is small.          *)
(***************************************************************************)
EXTENDS Trackers

OneRun  == {"r1"}
TwoRuns == {"r1", "r2"}

\* A kline socket with both watchdogs, and sockets with one of them.
Sockets ==
  { [perStream |-> TRUE,  staleAfter |-> 5],
    [perStream |-> FALSE, staleAfter |-> 0],
    [perStream |-> TRUE,  staleAfter |-> 0] }

Pool(depth, change, high) ==
  [liquidity |-> depth, volume |-> 1, age |-> 1, fdv |-> 1, change |-> change, security |-> FALSE,
   priced |-> TRUE, high |-> high]

TwoPools   == {Pool(1, 1, FALSE), Pool(2, 1, TRUE)}
FallenPool == {Pool(0, 1, FALSE)}
PumpedPool == {Pool(1, 2, FALSE)}

TheStream ==
  [streams |-> {"s1", "s2"}, options |-> Sockets, silentAfter |-> 10,
   maxReconnects |-> 3]

\* Two concurrent calls.
TheRest ==
  [calls |-> {"c1", "c2"}, maxRetries |-> 2, maxBackoff |-> 1, defaultBan |-> 1,
   longestWait |-> 2]

\* Two tokens, of which the history looks at one.
TheGemHistory ==
  [runs |-> OneRun, tokens |-> {"t", "s"}, chains |-> {"c"},
   chainOf |-> [t |-> "c", s |-> "c"], screenOf |-> [c |-> Off], markets |-> {TwoPools, FallenPool},
   configured |-> {}, users |-> {}, sample |-> 1, history |-> 1, maxMoves |-> 1, maxFaults |-> 1]

\* One token on a chain that is screened.
TheGemScreened ==
  [runs |-> OneRun, tokens |-> {"t"}, chains |-> {"c"}, chainOf |-> [t |-> "c"],
   screenOf |-> [c |-> "goplus"], markets |-> {TwoPools, FallenPool, PumpedPool},
   configured |-> {"c0"}, users |-> {"c1"}, sample |-> 1, history |-> 1, maxMoves |-> 2,
   maxFaults |-> 0]

\* Two passes over one position.
TheGem ==
  [runs |-> TwoRuns, watches |-> {"w1"}, chains |-> {"a"}, chainOf |-> [w1 |-> "a"],
   flaky |-> {}, maxPrice |-> 3, loss |-> 1, gain |-> 3, armed |-> 1, trail |-> 1, maxMoves |-> 2,
   maxFaults |-> 0]

\* Positions on two chains, of one of which any request may fail.
TheGemFeeds ==
  [runs |-> OneRun, watches |-> {"w1", "w2"}, chains |-> {"a", "b"},
   chainOf |-> [w1 |-> "a", w2 |-> "b"], flaky |-> {"a"}, maxPrice |-> 2, loss |-> 1, gain |-> 3,
   armed |-> 1, trail |-> 1, maxMoves |-> 1, maxFaults |-> 1]

\* A run that fails or overlaps another one.
TheSpot ==
  [runs |-> TwoRuns, lastDay |-> 2, levels |-> 3, lookback |-> 2, maxFaults |-> 1]

\* A position followed for days.
TheSpotDays ==
  [runs |-> OneRun, lastDay |-> 3, levels |-> 3, lookback |-> 1, maxFaults |-> 1]

\* A trade of the web journal and one of a chat, on one coin.
TheIntraday ==
  [runs |-> TwoRuns, coins |-> {"A"}, trades |-> {"t1", "t2"},
   coinOf |-> [t1 |-> "A", t2 |-> "A"], owner |-> [t1 |-> "web", t2 |-> "chat"], web |-> "web",
   alerted |-> {"chat"}, lastDay |-> 2, maxMoves |-> 2, maxFaults |-> 1]

\* One worker.
TheSetup ==
  [runs |-> OneRun, coins |-> {"A"}, watchlist |-> {"A"}, lastBar |-> 3, window |-> 2,
   expiry |-> 1, maxTouches |-> 1, maxSetups |-> 1, maxFaults |-> 1]

\* Two runs of the daily scan.
TheScan ==
  [runs |-> TwoRuns, btc |-> "BTC", alts |-> {}, lastDay |-> 2, hasOkx |-> FALSE,
   maxFaults |-> 1, maxOverlaps |-> 1]

\* Two signals, of which a page holds one.
TheOutcome ==
  [runs |-> OneRun, drains |-> {}, signals |-> {1, 2}, typeOf |-> <<"a", "a">>,
   frameOf |-> <<"5m", "15m">>, sourceOf |-> <<"live", "backfill">>, horizons |-> {1}, look |-> 1,
   limit |-> 1, maxTime |-> 3, maxFaults |-> 1]

\* Two tokens asked for in one request.
TheGemOutcome ==
  [runs |-> OneRun, tokens |-> {"t", "s"}, chains |-> {"c"},
   chainOf |-> [t |-> "c", s |-> "c"], batchOf |-> [t |-> 1, s |-> 1], horizons |-> {1}, grace |-> 1,
   limit |-> 3, maxRows |-> 2, maxTime |-> 2, maxMoves |-> 2, maxFaults |-> 1]

\* Nobody configured, and two that may subscribe.
TheBaseline ==
  [runs |-> TwoRuns, verdicts |-> {"beats", "worse"}, configured |-> {},
   subscribers |-> {"c1", "c2"}, maxMoves |-> 3, maxFaults |-> 1]

\* One issue of each kind.
TheHealth ==
  [cycles |-> TwoRuns, ofRuntime |-> {"ws"}, ofTables |-> {"job"},
   heartbeat |-> "beat", chats |-> {"c1"}, maxMoves |-> 3, maxFaults |-> 1]
=============================================================================
