---------------------------- MODULE HistoryBackfill ----------------------------
(***************************************************************************)
(* The historical replay: runHistoryBackfill on the candles the exchange   *)
(* still serves, from the command line or when a worker boots with         *)
(* BACKFILL_DAYS set, beside the live collector.                           *)
(*                                                                         *)
(* A symbol is replayed on one timeframe; the 5m candles that outcomes are *)
(* priced from are a pass of their own unless 5m is that timeframe, here a *)
(* symbol at once; candles of either are counted alike.  Which candles of  *)
(* the past fire is given, so that a replay again fires them again.  Spot  *)
(* candles, metrics and health rows are stored the way the futures candles *)
(* are and left out, and so is the drain, which is in SignalOutcomes.      *)
(***************************************************************************)
EXTENDS Naturals, FiniteSets

CONSTANTS
  Runs,      \* processes that replay
  Commands,  \* those of them that are the command, and not the boot of a worker
  Symbols,
  FuturesOnly, \* those without a spot market
  WarmUp,    \* candles 1 .. WarmUp only warm the state up
  Last,      \* bound: candles 1 .. Last
  MaxLive,   \* bound: live candles stored while the model runs
  MaxBoots,  \* bound: replays begun
  MaxFaults  \* bound: requests and queries that fail, processes that die

Candles  == 1 .. Last
Replayed == WarmUp + 1 .. Last

ConstantsOK ==
  /\ WarmUp \in Nat /\ Last \in Nat /\ WarmUp < Last
  /\ MaxLive \in Nat /\ MaxBoots \in Nat /\ MaxFaults \in Nat

VARIABLES
  frame,   \* the timeframe that is replayed
  served,  \* external: 5m futures candles the exchange has, per symbol
  paired,  \* external: candles of the window that have a spot counterpart
  oiFrom,  \* external: the first candle of it with open interest
  fires,   \* external: candles of it whose snapshot makes a rule fire
  stored,  \* market_candles, futures 5m: "none", "live" or "backfill"
  signals, \* market_signals of the replay: how often each was written (2: or more)
  recent,  \* job_health: whether the last success is within the cooldown
  pc,      \* per run
  todo,    \* per run: symbols left of this loop
  symbol,  \* per run: the symbols it is on: one, or none
  cursor,  \* per run: the candle it is on
  missed,  \* per run: symbols whose 5m candles it did not get through
  scored,  \* per run: whether any candle was scored
  live, boots, faults

input == <<frame, served, paired, oiFrom, fires>>
run   == <<todo, symbol, cursor, missed, scored>>
vars  == <<input, stored, signals, recent, pc, run, live, boots, faults>>

TypeOK ==
  /\ frame \in {"5m", "1h"}
  /\ served \in [Symbols -> SUBSET Candles] /\ paired \in SUBSET Replayed
  /\ oiFrom \in Replayed /\ fires \in SUBSET Replayed
  /\ stored \in [Symbols -> [Candles -> {"none", "live", "backfill"}]]
  /\ signals \in [Symbols -> [Candles -> 0 .. 2]]
  /\ recent \in BOOLEAN
  /\ pc \in [Runs -> {"off", "window", "candle", "score", "pricing", "last", "done"}]
  /\ todo \in [Runs -> SUBSET Symbols] /\ symbol \in [Runs -> SUBSET Symbols]
  /\ cursor \in [Runs -> Candles] /\ missed \in [Runs -> SUBSET Symbols] /\ scored \in [Runs -> BOOLEAN]
  /\ live \in 0 .. MaxLive /\ boots \in 0 .. MaxBoots /\ faults \in 0 .. MaxFaults

Init ==
  /\ frame \in {"5m", "1h"}
  /\ served \in [Symbols -> SUBSET Candles] /\ paired \in SUBSET Replayed
  /\ oiFrom \in Replayed /\ fires \in SUBSET Replayed
  /\ stored = [s \in Symbols |-> [c \in Candles |-> "none"]]
  /\ signals = [s \in Symbols |-> [c \in Candles |-> 0]]
  /\ recent = FALSE
  /\ pc = [r \in Runs |-> "off"]
  /\ todo = [r \in Runs |-> {}] /\ symbol = [r \in Runs |-> {}] /\ cursor = [r \in Runs |-> 1]
  /\ missed = [r \in Runs |-> {}] /\ scored = [r \in Runs |-> FALSE]
  /\ live = 0 /\ boots = 0 /\ faults = 0
-----------------------------------------------------------------------------
Goto(r, place) == pc' = [pc EXCEPT ![r] = place]
Faulty == faults < MaxFaults /\ faults' = faults + 1

\* Mutant of Kept: whoever comes last.
KeptNever(was) == FALSE

\* keepLiveOverBackfill: a replayed row does not replace a live one.
Kept(was) == was = "live"

\* upsertCandle with source "backfill", of a futures 5m candle.
Upserted(s, c) == [stored EXCEPT ![s][c] = IF Kept(@) THEN @ ELSE "backfill"]

\* The live collector stores a candle, over whatever is there.
LiveCandle(s, c) ==
  /\ live < MaxLive /\ live' = live + 1
  /\ stored' = [stored EXCEPT ![s][c] = "live"]
  /\ UNCHANGED <<input, signals, recent, pc, run, boots, faults>>

\* The cooldown ends.
DayPasses ==
  /\ recent /\ recent' = FALSE
  /\ UNCHANGED <<input, stored, signals, pc, run, live, boots, faults>>

\* shouldRunBackfill, of a worker that boots; the command asks nothing.
Boot(r) ==
  /\ pc[r] \in {"off", "done"}
  /\ boots < MaxBoots /\ boots' = boots + 1
  /\ r \in Commands \/ ~recent
  /\ Goto(r, "window")
  /\ todo' = [todo EXCEPT ![r] = Symbols]
  /\ missed' = [missed EXCEPT ![r] = {}] /\ scored' = [scored EXCEPT ![r] = FALSE]
  /\ UNCHANGED <<input, stored, signals, recent, symbol, cursor, live, faults>>

\* The end of the loop over the symbols: the pricing pass, unless 5m was scored.
AfterWindows(r) ==
  IF frame = "5m" THEN Goto(r, "last") /\ todo' = [todo EXCEPT ![r] = {}]
                  ELSE Goto(r, "pricing") /\ todo' = [todo EXCEPT ![r] = Symbols]

\* backfillWindow: everything is fetched before the first candle is looked at.
WindowBegins(r) ==
  /\ pc[r] = "window"
  /\ IF todo[r] = {} THEN AfterWindows(r) /\ UNCHANGED <<symbol, cursor>>
     ELSE \E s \in todo[r] :
            /\ todo' = [todo EXCEPT ![r] = @ \ {s}]
            /\ symbol' = [symbol EXCEPT ![r] = {s}]
            /\ cursor' = [cursor EXCEPT ![r] = 1]
            /\ Goto(r, "candle")
  /\ UNCHANGED <<input, stored, signals, recent, missed, scored, live, boots, faults>>

\* The candle after this one, or the end of the window.
NextCandle(r) ==
  IF cursor[r] = Last
    THEN /\ Goto(r, "window") /\ symbol' = [symbol EXCEPT ![r] = {}] /\ UNCHANGED cursor
    ELSE /\ Goto(r, "candle") /\ cursor' = [cursor EXCEPT ![r] = @ + 1] /\ UNCHANGED symbol

\* A candle of frame can be scored: past the warm-up, paired, with open interest.
Scorable(s, c) == c \in Replayed /\ (s \in FuturesOnly \/ c \in paired) /\ c >= oiFrom

\* On 1h every candle is there; on 5m what the exchange serves.
Fetched(s, c) == frame = "1h" \/ c \in served[s]

\* Mutant of Stores: the candles that can be scored.
StoresScorable(s, c) == frame = "5m" /\ c \in served[s] /\ Scorable(s, c)

\* A futures candle is stored before the gates.
Stores(s, c) == frame = "5m" /\ c \in served[s]

Candle(r) ==
  /\ pc[r] = "candle"
  /\ \E s \in symbol[r] :
       LET c == cursor[r]
       IN  /\ stored' = IF Stores(s, c) THEN Upserted(s, c) ELSE stored
           /\ IF Fetched(s, c) /\ Scorable(s, c) THEN Goto(r, "score") /\ UNCHANGED <<symbol, cursor>>
              ELSE NextCandle(r)
  /\ UNCHANGED <<input, signals, recent, todo, missed, scored, live, boots, faults>>

\* insertSignal, which inserts.
Score(r) ==
  /\ pc[r] = "score"
  /\ \E s \in symbol[r] :
       signals' = IF cursor[r] \in fires
                    THEN [signals EXCEPT ![s][cursor[r]] = IF @ = 2 THEN 2 ELSE @ + 1] ELSE signals
  /\ scored' = [scored EXCEPT ![r] = TRUE]
  /\ NextCandle(r)
  /\ UNCHANGED <<input, stored, recent, todo, missed, live, boots, faults>>

\* A request or a query of a window fails: the others go on.
WindowFails(r) ==
  /\ pc[r] \in {"candle", "score"}
  /\ Faulty
  /\ Goto(r, "window")
  /\ symbol' = [symbol EXCEPT ![r] = {}]
  /\ missed' = [missed EXCEPT ![r] = IF frame = "5m" THEN @ \cup symbol[r] ELSE @]
  /\ UNCHANGED <<input, stored, signals, recent, todo, cursor, scored, live, boots>>

\* backfillPricingCandles: a symbol, of which a failure is logged only.
Pricing(r) ==
  /\ pc[r] = "pricing"
  /\ IF todo[r] = {} THEN Goto(r, "last") /\ UNCHANGED <<stored, todo, missed, faults>>
     ELSE \E s \in todo[r] :
            /\ todo' = [todo EXCEPT ![r] = @ \ {s}]
            /\ \/ /\ stored' = [stored EXCEPT ![s] =
                       [c \in Candles |-> IF c \in served[s] /\ c \in Replayed THEN Upserted(s, c)[s][c] ELSE @[c]]]
                  /\ UNCHANGED <<missed, faults>>
               \/ /\ Faulty
                  /\ missed' = [missed EXCEPT ![r] = @ \cup {s}]
                  /\ UNCHANGED stored
            /\ UNCHANGED pc
  /\ UNCHANGED <<input, signals, recent, symbol, cursor, scored, live, boots>>

\* "A replay that scored nothing is a failure"; the command records neither.
Finish(r) ==
  /\ pc[r] = "last"
  /\ Goto(r, "done")
  /\ recent' = (recent \/ (r \notin Commands /\ scored[r]))
  /\ UNCHANGED <<input, stored, signals, run, live, boots, faults>>

Dies(r) ==
  /\ pc[r] \notin {"off", "done"}
  /\ Faulty
  /\ Goto(r, "off")
  /\ todo' = [todo EXCEPT ![r] = {}] /\ symbol' = [symbol EXCEPT ![r] = {}]
  /\ UNCHANGED <<input, stored, signals, recent, cursor, missed, scored, live, boots>>

Step(r) == Boot(r) \/ WindowBegins(r) \/ Candle(r) \/ Score(r) \/ Pricing(r) \/ Finish(r)

Next ==
  \/ \E r \in Runs : Step(r) \/ WindowFails(r) \/ Dies(r)
  \/ \E s \in Symbols, c \in Candles : LiveCandle(s, c)
  \/ DayPasses

Spec == Init /\ [][Next]_vars
-----------------------------------------------------------------------------
(* Properties. *)

\* "the replay was writing signals it had just thrown away the means to score":
\* after a replay, every 5m candle the exchange served from a signal it wrote
\* to the end of the window is stored, unless that very fetch failed: gaps of
\* spot and open interest, windows that failed and other replays change nothing.
ReplayCanBePriced ==
  \A r \in Runs, s \in Symbols :
    pc[r] = "done" /\ s \notin missed[r] =>
      \A c \in Candles, d \in served[s] : signals[s][c] > 0 /\ d > c => stored[s][d] # "none"

\* provenance.ts, "Live data is authoritative and must never be overwritten by a
\* replay".
LiveRowsStand ==
  \A s \in Symbols, c \in Candles : stored[s][c] = "live" => stored'[s][c] = "live"
LiveStands == [][LiveRowsStand]_vars

\* backfillMain.ts, "Safe to re-run: every write is upserted".
SafeToRerun == \A s \in Symbols, c \in Candles : signals[s][c] <= 1
=============================================================================
