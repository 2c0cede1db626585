-------------------------------- MODULE Records --------------------------------
(***************************************************************************)
(* The parts that record something and come back to it later, to judge, to *)
(* price or to correct it, each run several times over by the workers and  *)
(* requests that overlap: the setup tracker, the replay of history, the    *)
(* prices of signals and the journal.  They share no table the others      *)
(* decide by, so a behaviour plays one of them.  The setup tracker has the *)
(* variables it extends SetupTracker with and stays as it started when it  *)
(* is not played; the others have v1 .. v16 in the place of their own,     *)
(* None in those left over.                                                *)
(***************************************************************************)
EXTENDS SetupTracker

CONSTANTS
  Replays, Commands, Symbols, FuturesOnly, WarmUp, Last, MaxLive, MaxBoots,
  ReplayFaults,                                            \* of HistoryBackfill
  Passes, Drains, Signals, TypeOf, FrameOf, SourceOf, Horizons, Look, Limit, SampleTime,
  SampleFaults,                                            \* of SignalOutcomes
  Trades, Prices, Patches, TradeTime,                      \* of TradeJournal
  Absent \* a field that is not in a patch

VARIABLES playing, stage, v1, v2, v3, v4, v5, v6, v7, v8, v9, v10, v11, v12, v13, v14, v15, v16

Replay == INSTANCE HistoryBackfill WITH
  Runs <- Replays, MaxFaults <- ReplayFaults, pc <- stage,
  frame <- v1, served <- v2, paired <- v3, oiFrom <- v4, fires <- v5, stored <- v6,
  signals <- v7, recent <- v8, todo <- v9, symbol <- v10, cursor <- v11, missed <- v12,
  scored <- v13, live <- v14, boots <- v15, faults <- v16

Sampled == INSTANCE SignalOutcomes WITH
  Runs <- Passes, MaxTime <- SampleTime, MaxFaults <- SampleFaults, pc <- stage,
  now <- v1, at <- v2, row <- v3, price <- v4, candles <- v5, begun <- v6, horizon <- v7,
  batch <- v8, faults <- v9

Trade == INSTANCE TradeJournal WITH
  Requests <- Runs, MaxTime <- TradeTime, pc <- stage,
  now <- v1, used <- v2, journal <- v3, trade <- v4, patch <- v5, merged <- v6

ASSUME RecordsAssumption ==
  ConstantsOK /\ Replay!ConstantsOK /\ Sampled!ConstantsOK /\ Trade!ConstantsOK
-----------------------------------------------------------------------------
over9 == <<v10, v11, v12, v13, v14, v15, v16>>
over6 == <<v7, v8, v9, over9>>
slots == <<stage, v1, v2, v3, v4, v5, v6, over6>>
all   == <<vars, playing, slots>>

Free9 == /\ v10 = None /\ v11 = None /\ v12 = None /\ v13 = None /\ v14 = None /\ v15 = None
         /\ v16 = None
Free6 == v7 = None /\ v8 = None /\ v9 = None /\ Free9
Free  == /\ stage = None /\ v1 = None /\ v2 = None /\ v3 = None /\ v4 = None /\ v5 = None
         /\ v6 = None /\ Free6

RecordsInit ==
  /\ Init
  /\ \/ playing = "setup" /\ Free
     \/ playing = "replay" /\ Replay!Init
     \/ playing = "sampled" /\ Sampled!Init /\ Free9
     \/ playing = "trade" /\ Trade!Init /\ Free6
  /\ playing # "setup" => ~refusing

RecordsNext ==
  \/ playing = "setup" /\ Next /\ UNCHANGED <<playing, slots>>
  \/ playing = "replay" /\ Replay!Next /\ UNCHANGED <<playing, vars>>
  \/ playing = "sampled" /\ Sampled!Next /\ UNCHANGED <<playing, vars, over9>>
  \/ playing = "trade" /\ Trade!Next /\ UNCHANGED <<playing, vars, over6>>

RecordsSpec == RecordsInit /\ [][RecordsNext]_all
-----------------------------------------------------------------------------
(* The properties of the other modules, each of the instance that is played. *)

\* What is recorded stands: a closed setup is not closed again
\* (resolveTradeSetup); a live candle is not overwritten by a replay (upsertCandle).
RecordsStand ==
  [][(playing = "setup" => ResolvedStands) /\ (playing = "replay" => Replay!LiveRowsStand)]_all

\* backfillPricingCandles: a replayed signal keeps the candles that price it.
ReplayCanBePriced == playing = "replay" => Replay!ReplayCanBePriced

\* getResolvableOutcomes: a price is of the window it stands for, and of no other
\* sample of its type (EPISODE_STARTS_SQL).
PricedApart == playing = "sampled" => Sampled!PricedInWindow /\ Sampled!PricedApart

\* updateTrade: the result of a trade is that of the prices stored with it.
ResultOfItsRow == playing = "trade" => Trade!ResultOfItsRow
=============================================================================
