---------------------------- MODULE RecordsProofs ----------------------------
(***************************************************************************)
(* Proofs about what is recorded and come back to later, for any number of *)
(* workers, replays, passes and requests, any symbols, candles, signals,   *)
(* trades and prices.  The setup tracker and the prices of the signals are *)
(* proved in modules of their own; the replay and the journal here, with   *)
(* the variables and constants that Records gives them.                    *)
(***************************************************************************)
EXTENDS Records, SetupTrackerProofs

(* The replay.  Its variables, by their own names. *)

frame        == v1
served       == v2
paired       == v3
oiFrom       == v4
fires        == v5
stored       == v6
signals      == v7
recent       == v8
todo         == v9
symbol       == v10
cursor       == v11
missed       == v12
scored       == v13
live         == v14
boots        == v15
replayFaults == v16
USE DEF frame, served, paired, oiFrom, fires, stored, signals, recent, todo, symbol, cursor,
     missed, scored, live, boots, replayFaults

ReplayPlaces == {"off", "window", "candle", "score", "pricing", "last", "done"}

\* A run that is on the 5m candles of a symbol has stored those up to here.
Passed(r, s, d) ==
  s \in symbol[r] => IF stage[r] = "score" THEN d <= cursor[r] ELSE d < cursor[r]

\* What a replay of 5m candles has stored: all of the symbols it is through with,
\* and of the symbol it is on what lies behind it.
ScoredStored(r) ==
  stage[r] # "off" =>
    \A s \in Symbols \ (missed[r] \cup todo[r]) :
      \A d \in served[s] : Passed(r, s, d) => stored[s][d] # "none"

\* What the pricing pass has stored.
PricingStored(r) ==
  stage[r] \in {"pricing", "last", "done"} =>
    \A s \in Symbols \ (missed[r] \cup todo[r]) :
      \A d \in served[s] : d \in Replay!Replayed => stored[s][d] # "none"

\* A run is on a symbol while it looks at candles, on one, and ends with none left;
\* a pricing pass is only for the other frames.
Placed(r) ==
  /\ stage[r] \notin {"candle", "score"} => symbol[r] = {}
  /\ \A s, t \in symbol[r] : s = t
  /\ stage[r] = "score" => cursor[r] \in Replay!Replayed
  /\ stage[r] = "pricing" => frame = "1h"
  /\ stage[r] \in {"last", "done"} => todo[r] = {}

RunInv(r) ==
  /\ Placed(r)
  /\ frame = "5m" => ScoredStored(r)
  /\ frame = "1h" => PricingStored(r)

BackfillInv ==
  /\ Replay!ConstantsOK /\ Replay!TypeOK
  /\ \A s \in Symbols, c \in Replay!Candles : signals[s][c] > 0 => c \in Replay!Replayed
  /\ \A r \in Replays : RunInv(r)
-----------------------------------------------------------------------------
(* What a step does to the candles. *)

\* A candle that is there stays, a live one as it is.
StoredGrows ==
  \A s \in Symbols, c \in Replay!Candles :
    /\ stored[s][c] # "none" => stored'[s][c] # "none"
    /\ stored[s][c] = "live" => stored'[s][c] = "live"

\* upsertCandle: what a replayed candle leaves in the table.
LEMMA CandleStores ==
  ASSUME Replay!TypeOK, NEW s \in Symbols, NEW c \in Replay!Candles, stored' = Replay!Upserted(s, c)
  PROVE  /\ stored' \in [Symbols -> [Replay!Candles -> {"none", "live", "backfill"}]]
         /\ stored'[s][c] # "none" /\ StoredGrows
<1>1. stored' \in [Symbols -> [Replay!Candles -> {"none", "live", "backfill"}]]
  BY DEF Replay!Upserted, Replay!Kept, Replay!TypeOK
<1>2. \A t \in Symbols, d \in Replay!Candles :
        stored'[t][d] = IF t = s /\ d = c THEN IF stored[t][d] = "live" THEN "live" ELSE "backfill"
                        ELSE stored[t][d]
  BY DEF Replay!Upserted, Replay!Kept, Replay!TypeOK
<1> QED BY <1>1, <1>2 DEF StoredGrows

\* The other runs keep what they have, whatever this one does.
LEMMA OthersKeep ==
  ASSUME BackfillInv, NEW r \in Replays, NEW o \in Replays, o # r,
         StoredGrows, UNCHANGED Replay!input,
         stage'[o] = stage[o], todo'[o] = todo[o], symbol'[o] = symbol[o], cursor'[o] = cursor[o],
         missed'[o] = missed[o]
  PROVE  RunInv(o)'
<1>1. RunInv(o) /\ UNCHANGED <<frame, served>>
  BY DEF BackfillInv, Replay!input
<1>2. \A s \in Symbols : served[s] \subseteq Replay!Candles
  BY DEF BackfillInv, Replay!TypeOK
<1>3. Placed(o)'
  BY <1>1 DEF RunInv, Placed
<1>4. frame = "5m" => ScoredStored(o)'
  BY <1>1, <1>2 DEF RunInv, ScoredStored, Passed, StoredGrows
<1>5. frame = "1h" => PricingStored(o)'
  BY <1>1, <1>2 DEF RunInv, PricingStored, StoredGrows
<1> QED BY <1>1, <1>3, <1>4, <1>5 DEF RunInv

\* A step of one run, or of none: the parts of the invariant, put together.
LEMMA RunSteps ==
  ASSUME BackfillInv, NEW r \in Replays, Replay!TypeOK', StoredGrows, UNCHANGED Replay!input,
         RunInv(r)',
         \A s \in Symbols, c \in Replay!Candles : signals'[s][c] > 0 => c \in Replay!Replayed,
         \A o \in Replays \ {r} :
           /\ stage'[o] = stage[o] /\ todo'[o] = todo[o] /\ symbol'[o] = symbol[o]
           /\ cursor'[o] = cursor[o] /\ missed'[o] = missed[o]
  PROVE  BackfillInv'
<1>1. \A o \in Replays \ {r} : RunInv(o)'
  BY OthersKeep
<1> QED BY <1>1 DEF BackfillInv

\* A step that leaves the candles alone takes none away.
LEMMA SameStored == ASSUME UNCHANGED stored PROVE StoredGrows
BY DEF StoredGrows

\* maybeBackfillOnBoot.
LEMMA BootKeeps ==
  ASSUME BackfillInv, NEW r \in Replays, Replay!Boot(r)
  PROVE  BackfillInv'
<1>1. /\ stage[r] \in {"off", "done"} /\ symbol[r] = {} /\ Replay!TypeOK /\ RunInv(r)
      /\ MaxBoots \in Nat
  BY DEF Replay!Boot, BackfillInv, RunInv, Placed, Replay!ConstantsOK
<1>2. /\ UNCHANGED <<Replay!input, stored, signals, recent, symbol, cursor, live, replayFaults>>
      /\ boots < MaxBoots /\ boots' = boots + 1
  BY DEF Replay!Boot
<1>3. /\ stage' \in [Replays -> ReplayPlaces] /\ stage'[r] = "window"
      /\ \A o \in Replays \ {r} : stage'[o] = stage[o]
      /\ todo' \in [Replays -> SUBSET Symbols] /\ todo'[r] = Symbols
      /\ \A o \in Replays \ {r} : todo'[o] = todo[o]
      /\ missed' \in [Replays -> SUBSET Symbols] /\ \A o \in Replays \ {r} : missed'[o] = missed[o]
      /\ scored' \in [Replays -> BOOLEAN]
  BY <1>1 DEF Replay!Boot, Replay!Goto, Replay!TypeOK, ReplayPlaces
<1>4. boots' \in 0 .. MaxBoots
  BY <1>1, <1>2 DEF Replay!TypeOK
<1>5. Replay!TypeOK'
  BY <1>1, <1>2, <1>3, <1>4 DEF Replay!TypeOK, Replay!input, ReplayPlaces
<1>6. RunInv(r)'
  BY <1>1, <1>2, <1>3 DEF RunInv, Placed, ScoredStored, PricingStored
<1>7. \A s \in Symbols, c \in Replay!Candles : signals'[s][c] > 0 => c \in Replay!Replayed
  BY <1>2 DEF BackfillInv
<1> QED BY <1>2, <1>3, <1>5, <1>6, <1>7, RunSteps, SameStored

\* backfillWindow, as it begins.
LEMMA WindowBeginsKeeps ==
  ASSUME BackfillInv, NEW r \in Replays, Replay!WindowBegins(r)
  PROVE  BackfillInv'
<1>1. stage[r] = "window" /\ symbol[r] = {} /\ Replay!TypeOK /\ RunInv(r) /\ 1 \in Replay!Candles
  BY DEF Replay!WindowBegins, BackfillInv, RunInv, Placed, Replay!ConstantsOK, Replay!Candles
<1>2. UNCHANGED <<Replay!input, stored, signals, recent, missed, scored, live, boots, replayFaults>>
  BY DEF Replay!WindowBegins
<1>3. UNCHANGED <<frame, served>>
  BY <1>2 DEF Replay!input
<1>4. CASE todo[r] = {}
  <2>1. Replay!AfterWindows(r) /\ UNCHANGED <<symbol, cursor>>
    BY <1>4 DEF Replay!WindowBegins
  <2>2. /\ stage' \in [Replays -> ReplayPlaces] /\ \A o \in Replays \ {r} : stage'[o] = stage[o]
        /\ todo' \in [Replays -> SUBSET Symbols] /\ \A o \in Replays \ {r} : todo'[o] = todo[o]
        /\ IF frame = "5m" THEN stage'[r] = "last" /\ todo'[r] = {}
                           ELSE stage'[r] = "pricing" /\ todo'[r] = Symbols
    <3>1. CASE frame = "5m"
      BY <1>1, <2>1, <3>1 DEF Replay!AfterWindows, Replay!Goto, Replay!TypeOK, ReplayPlaces
    <3>2. CASE frame # "5m"
      <4>1. stage' = [stage EXCEPT ![r] = "pricing"] /\ todo' = [todo EXCEPT ![r] = Symbols]
        BY <2>1, <3>2 DEF Replay!AfterWindows, Replay!Goto
      <4>2. stage \in [Replays -> ReplayPlaces] /\ todo \in [Replays -> SUBSET Symbols]
        BY <1>1 DEF Replay!TypeOK, ReplayPlaces
      <4>3. /\ stage' \in [Replays -> ReplayPlaces] /\ stage'[r] = "pricing"
            /\ \A o \in Replays \ {r} : stage'[o] = stage[o]
        BY <4>1, <4>2 DEF ReplayPlaces
      <4>4. /\ todo' \in [Replays -> SUBSET Symbols] /\ todo'[r] = Symbols
            /\ \A o \in Replays \ {r} : todo'[o] = todo[o]
        BY <4>1, <4>2
      <4> QED BY <3>2, <4>3, <4>4
    <3> QED BY <3>1, <3>2
  <2>3. Replay!TypeOK'
    BY <1>1, <1>2, <2>1, <2>2 DEF Replay!TypeOK, Replay!input, ReplayPlaces
  <2>4. Placed(r)' /\ (frame = "5m" => ScoredStored(r)') /\ (frame = "1h" => PricingStored(r)')
    <3>1. Placed(r)'
      BY <1>1, <1>3, <1>4, <2>1, <2>2 DEF Placed, Replay!TypeOK
    <3>2. frame = "5m" => ScoredStored(r)'
      BY <1>1, <1>2, <1>3, <1>4, <2>1, <2>2 DEF RunInv, ScoredStored, Passed
    <3>3. frame = "1h" => PricingStored(r)'
      BY <2>2 DEF PricingStored
    <3> QED BY <3>1, <3>2, <3>3
  <2>5. RunInv(r)'
    BY <1>3, <2>4 DEF RunInv
  <2>6. \A s \in Symbols, c \in Replay!Candles : signals'[s][c] > 0 => c \in Replay!Replayed
    BY <1>2 DEF BackfillInv
  <2> QED BY <1>2, <2>1, <2>2, <2>3, <2>5, <2>6, RunSteps, SameStored
<1>5. CASE todo[r] # {}
  <2>1. PICK s \in todo[r] :
          /\ todo' = [todo EXCEPT ![r] = @ \ {s}] /\ symbol' = [symbol EXCEPT ![r] = {s}]
          /\ cursor' = [cursor EXCEPT ![r] = 1] /\ Replay!Goto(r, "candle")
    BY <1>5 DEF Replay!WindowBegins
  <2>2. /\ stage' \in [Replays -> ReplayPlaces] /\ stage'[r] = "candle"
        /\ \A o \in Replays \ {r} : stage'[o] = stage[o]
        /\ todo' \in [Replays -> SUBSET Symbols] /\ todo'[r] = todo[r] \ {s}
        /\ symbol' \in [Replays -> SUBSET Symbols] /\ symbol'[r] = {s}
        /\ cursor' \in [Replays -> Replay!Candles] /\ cursor'[r] = 1
        /\ \A o \in Replays \ {r} : /\ todo'[o] = todo[o] /\ symbol'[o] = symbol[o]
                                 /\ cursor'[o] = cursor[o]
    BY <1>1, <2>1 DEF Replay!Goto, Replay!TypeOK, ReplayPlaces
  <2>3. Replay!TypeOK'
    BY <1>1, <1>2, <2>2 DEF Replay!TypeOK, Replay!input, ReplayPlaces
  <2>4. frame = "5m" => ScoredStored(r)'
    <3> SUFFICES ASSUME frame = "5m", NEW u \in Symbols \ (missed[r] \cup (todo[r] \ {s})),
                        NEW d \in served[u], Passed(r, u, d)'
                 PROVE  stored[u][d] # "none"
      BY <1>2, <1>3, <2>2 DEF ScoredStored
    <3>1. d \in Nat /\ d >= 1
      BY <1>1 DEF Replay!TypeOK, Replay!Candles
    <3>2. u # s
      BY <2>2, <3>1 DEF Passed
    <3> QED BY <1>1, <3>2 DEF RunInv, ScoredStored, Passed
  <2>5. RunInv(r)'
    BY <1>3, <2>2, <2>4 DEF RunInv, Placed, PricingStored
  <2>6. \A u \in Symbols, c \in Replay!Candles : signals'[u][c] > 0 => c \in Replay!Replayed
    BY <1>2 DEF BackfillInv
  <2> QED BY <1>2, <2>2, <2>3, <2>5, <2>6, RunSteps, SameStored
<1> QED BY <1>4, <1>5

\* The next candle, or the end of the window, once this candle is stored.
LEMMA NextCandleKeeps ==
  ASSUME Replay!ConstantsOK, Replay!TypeOK, NEW r \in Replays, RunInv(r), StoredGrows,
         UNCHANGED <<frame, served, todo, missed>>,
         stage[r] \in {"candle", "score"}, Replay!NextCandle(r),
         frame = "5m" =>
           \A s \in symbol[r] \ (missed[r] \cup todo[r]) :
             cursor[r] \in served[s] => stored'[s][cursor[r]] # "none"
  PROVE  /\ RunInv(r)'
         /\ stage' \in [Replays -> ReplayPlaces] /\ symbol' \in [Replays -> SUBSET Symbols]
         /\ cursor' \in [Replays -> Replay!Candles]
         /\ \A o \in Replays \ {r} : /\ stage'[o] = stage[o] /\ symbol'[o] = symbol[o]
                                  /\ cursor'[o] = cursor[o]
<1>1. cursor[r] \in Replay!Candles /\ Last \in Nat
  BY DEF Replay!TypeOK, Replay!ConstantsOK
<1>2. /\ stage' \in [Replays -> ReplayPlaces] /\ symbol' \in [Replays -> SUBSET Symbols]
      /\ cursor' \in [Replays -> Replay!Candles]
      /\ \A o \in Replays \ {r} : stage'[o] = stage[o] /\ symbol'[o] = symbol[o] /\ cursor'[o] = cursor[o]
      /\ \/ cursor[r] = Last /\ stage'[r] = "window" /\ symbol'[r] = {} /\ cursor'[r] = cursor[r]
         \/ stage'[r] = "candle" /\ symbol'[r] = symbol[r] /\ cursor'[r] = cursor[r] + 1
  <2>1. CASE cursor[r] = Last
    BY <1>1, <2>1 DEF Replay!NextCandle, Replay!Goto, Replay!TypeOK, ReplayPlaces
  <2>2. CASE cursor[r] # Last
    <3>1. cursor[r] + 1 \in Replay!Candles
      BY <1>1, <2>2 DEF Replay!Candles
    <3>2. /\ stage' = [stage EXCEPT ![r] = "candle"] /\ symbol' = symbol
          /\ cursor' = [cursor EXCEPT ![r] = cursor[r] + 1]
      BY <2>2 DEF Replay!NextCandle, Replay!Goto
    <3> QED BY <3>1, <3>2 DEF Replay!TypeOK, ReplayPlaces
  <2> QED BY <2>1, <2>2
<1>3. Placed(r)'
  BY <1>2 DEF RunInv, Placed
<1>4. frame = "5m" => ScoredStored(r)'
  <2> SUFFICES ASSUME frame = "5m", NEW s \in Symbols \ (missed[r] \cup todo[r]),
                      NEW d \in served[s], Passed(r, s, d)'
               PROVE  stored'[s][d] # "none"
    BY DEF ScoredStored
  <2>1. d \in Replay!Candles /\ d \in Nat /\ cursor[r] \in Nat /\ d <= Last
    BY <1>1 DEF Replay!TypeOK, Replay!Candles
  <2>2. s \in symbol[r] => d <= cursor[r]
    BY <1>2, <2>1 DEF Passed
  <2>3. CASE s \in symbol[r] /\ d = cursor[r]
    BY <2>3
  <2>4. CASE s \in symbol[r] => d < cursor[r]
    <3>1. Passed(r, s, d)
      BY <2>1, <2>4 DEF Passed
    <3>2. stored[s][d] # "none"
      BY <3>1 DEF RunInv, ScoredStored
    <3> QED BY <2>1, <3>2 DEF StoredGrows
  <2> QED BY <2>1, <2>2, <2>3, <2>4
<1>5. PricingStored(r)'
  BY <1>2 DEF PricingStored
<1> QED BY <1>2, <1>3, <1>4, <1>5 DEF RunInv

\* backfillWindow: a candle is stored.
LEMMA CandleKeeps ==
  ASSUME BackfillInv, NEW r \in Replays, Replay!Candle(r)
  PROVE  BackfillInv' /\ StoredGrows
<1>1. /\ stage[r] = "candle" /\ Replay!TypeOK /\ Replay!ConstantsOK /\ RunInv(r)
      /\ cursor[r] \in Replay!Candles /\ frame \in {"5m", "1h"}
  BY DEF Replay!Candle, BackfillInv, Replay!TypeOK
<1>2. PICK s \in symbol[r] :
        /\ stored' = IF Replay!Stores(s, cursor[r]) THEN Replay!Upserted(s, cursor[r]) ELSE stored
        /\ IF Replay!Fetched(s, cursor[r]) /\ Replay!Scorable(s, cursor[r])
             THEN Replay!Goto(r, "score") /\ UNCHANGED <<symbol, cursor>>
             ELSE Replay!NextCandle(r)
  BY DEF Replay!Candle
<1>3. UNCHANGED <<Replay!input, signals, recent, todo, missed, scored, live, boots, replayFaults>>
  BY DEF Replay!Candle
<1>4. UNCHANGED <<frame, served>>
  BY <1>3 DEF Replay!input
<1>5. s \in Symbols /\ \A u \in symbol[r] : u = s
  BY <1>1, <1>2 DEF Replay!TypeOK, RunInv, Placed
<1>6. /\ stored' \in [Symbols -> [Replay!Candles -> {"none", "live", "backfill"}]] /\ StoredGrows
      /\ Replay!Stores(s, cursor[r]) => stored'[s][cursor[r]] # "none"
  BY <1>1, <1>2, <1>5, CandleStores, SameStored DEF Replay!TypeOK
<1>7. frame = "5m" => \A u \in symbol[r] : cursor[r] \in served[u] => stored'[u][cursor[r]] # "none"
  BY <1>5, <1>6 DEF Replay!Stores
<1>8. /\ RunInv(r)'
      /\ stage' \in [Replays -> ReplayPlaces] /\ symbol' \in [Replays -> SUBSET Symbols]
      /\ cursor' \in [Replays -> Replay!Candles]
      /\ \A o \in Replays \ {r} : /\ stage'[o] = stage[o] /\ symbol'[o] = symbol[o]
                               /\ cursor'[o] = cursor[o]
  <2>1. CASE Replay!Fetched(s, cursor[r]) /\ Replay!Scorable(s, cursor[r])
    <3>1. /\ stage' = [stage EXCEPT ![r] = "score"] /\ UNCHANGED <<symbol, cursor>>
          /\ cursor[r] \in Replay!Replayed
      BY <1>2, <2>1 DEF Replay!Goto, Replay!Scorable
    <3>2. /\ stage' \in [Replays -> ReplayPlaces] /\ stage'[r] = "score"
          /\ \A o \in Replays \ {r} : stage'[o] = stage[o]
      BY <1>1, <3>1 DEF Replay!TypeOK, ReplayPlaces
    <3>3. Placed(r)'
      BY <1>1, <3>1, <3>2 DEF RunInv, Placed
    <3>4. frame = "5m" => ScoredStored(r)'
      <4> SUFFICES ASSUME frame = "5m", NEW u \in Symbols \ (missed[r] \cup todo[r]),
                          NEW d \in served[u], u \in symbol[r] => d <= cursor[r]
                   PROVE  stored'[u][d] # "none"
        BY <1>3, <1>4, <3>1, <3>2 DEF ScoredStored, Passed
      <4>1. d \in Replay!Candles /\ d \in Nat /\ cursor[r] \in Nat
        BY <1>1 DEF Replay!TypeOK, Replay!Candles
      <4>2. CASE u \in symbol[r] /\ d = cursor[r]
        BY <1>7, <4>2
      <4>3. CASE u \in symbol[r] => d < cursor[r]
        <5>1. stored[u][d] # "none"
          BY <1>1, <4>3 DEF RunInv, ScoredStored, Passed
        <5> QED BY <1>6, <4>1, <5>1 DEF StoredGrows
      <4> QED BY <4>1, <4>2, <4>3
    <3>5. PricingStored(r)'
      BY <3>2 DEF PricingStored
    <3> QED BY <1>1, <1>4, <3>1, <3>2, <3>3, <3>4, <3>5 DEF RunInv, Replay!TypeOK
  <2>2. CASE ~(Replay!Fetched(s, cursor[r]) /\ Replay!Scorable(s, cursor[r]))
    <3>1. Replay!NextCandle(r)
      BY <1>2, <2>2
    <3> QED BY <1>1, <1>3, <1>4, <1>6, <1>7, <3>1, NextCandleKeeps
  <2> QED BY <2>1, <2>2
<1>9. Replay!TypeOK'
  BY <1>1, <1>3, <1>6, <1>8 DEF Replay!TypeOK, Replay!input, ReplayPlaces
<1>10. \A u \in Symbols, c \in Replay!Candles : signals'[u][c] > 0 => c \in Replay!Replayed
  BY <1>3 DEF BackfillInv
<1> QED BY <1>3, <1>6, <1>8, <1>9, <1>10, RunSteps

\* writeBackfilledSignal.
LEMMA ScoreKeeps ==
  ASSUME BackfillInv, NEW r \in Replays, Replay!Score(r)
  PROVE  BackfillInv'
<1>1. /\ stage[r] = "score" /\ Replay!TypeOK /\ Replay!ConstantsOK /\ RunInv(r)
      /\ cursor[r] \in Replay!Candles /\ cursor[r] \in Replay!Replayed /\ cursor[r] \in Nat
  BY DEF Replay!Score, BackfillInv, Replay!TypeOK, RunInv, Placed, Replay!Candles
<1>2. PICK s \in symbol[r] :
        signals' = IF cursor[r] \in fires
                     THEN [signals EXCEPT ![s][cursor[r]] = IF @ = 2 THEN 2 ELSE @ + 1] ELSE signals
  BY DEF Replay!Score
<1>3. /\ UNCHANGED <<Replay!input, stored, recent, todo, missed, live, boots, replayFaults>>
      /\ Replay!NextCandle(r) /\ scored' \in [Replays -> BOOLEAN]
  BY <1>1 DEF Replay!Score, Replay!TypeOK
<1>4. UNCHANGED <<frame, served>> /\ s \in Symbols
  BY <1>1, <1>3 DEF Replay!input, Replay!TypeOK
<1>5. /\ signals' \in [Symbols -> [Replay!Candles -> 0 .. 2]]
      /\ \A u \in Symbols, c \in Replay!Candles : c = cursor[r] \/ signals'[u][c] = signals[u][c]
  <2>1. CASE cursor[r] \notin fires
    BY <1>1, <1>2, <2>1 DEF Replay!TypeOK
  <2>2. CASE cursor[r] \in fires
    <3>1. (IF signals[s][cursor[r]] = 2 THEN 2 ELSE signals[s][cursor[r]] + 1) \in 0 .. 2
      BY <1>1, <1>4 DEF Replay!TypeOK
    <3> DEFINE n == IF signals[s][cursor[r]] = 2 THEN 2 ELSE signals[s][cursor[r]] + 1
    <3>2. signals' = [signals EXCEPT ![s][cursor[r]] = n] /\ n \in 0 .. 2
      BY <1>2, <2>2, <3>1
    <3> HIDE DEF n
    <3> QED BY <1>1, <1>4, <3>2 DEF Replay!TypeOK
  <2> QED BY <2>1, <2>2
<1>6. \A u \in Symbols, c \in Replay!Candles : signals'[u][c] > 0 => c \in Replay!Replayed
  BY <1>1, <1>5 DEF BackfillInv
<1>7. frame = "5m" =>
        \A u \in symbol[r] \ (missed[r] \cup todo[r]) :
          cursor[r] \in served[u] => stored'[u][cursor[r]] # "none"
  <2> SUFFICES ASSUME frame = "5m", NEW u \in symbol[r] \ (missed[r] \cup todo[r]),
                      cursor[r] \in served[u]
               PROVE  stored[u][cursor[r]] # "none"
    BY <1>3
  <2>1. u \in Symbols /\ Passed(r, u, cursor[r])
    BY <1>1 DEF Passed, Replay!TypeOK
  <2> QED BY <1>1, <2>1 DEF RunInv, ScoredStored
<1>8. /\ RunInv(r)'
      /\ stage' \in [Replays -> ReplayPlaces] /\ symbol' \in [Replays -> SUBSET Symbols]
      /\ cursor' \in [Replays -> Replay!Candles]
      /\ \A o \in Replays \ {r} : /\ stage'[o] = stage[o] /\ symbol'[o] = symbol[o]
                               /\ cursor'[o] = cursor[o]
  BY <1>1, <1>3, <1>4, <1>7, NextCandleKeeps, SameStored
<1>9. Replay!TypeOK'
  BY <1>1, <1>3, <1>5, <1>8 DEF Replay!TypeOK, Replay!input, ReplayPlaces
<1> QED BY <1>3, <1>6, <1>8, <1>9, RunSteps, SameStored

\* A window that fails takes its symbol out of what the run answers for.
LEMMA WindowFailsKeeps ==
  ASSUME BackfillInv, NEW r \in Replays, Replay!WindowFails(r)
  PROVE  BackfillInv'
<1>1. stage[r] \in {"candle", "score"} /\ Replay!TypeOK /\ RunInv(r) /\ ReplayFaults \in Nat
  BY DEF Replay!WindowFails, BackfillInv, Replay!ConstantsOK
<1>2. /\ UNCHANGED <<Replay!input, stored, signals, recent, todo, cursor, scored, live, boots>>
      /\ replayFaults' \in 0 .. ReplayFaults
  BY <1>1 DEF Replay!WindowFails, Replay!Faulty, Replay!TypeOK
<1>3. UNCHANGED <<frame, served>> /\ frame \in {"5m", "1h"}
  BY <1>1, <1>2 DEF Replay!input, Replay!TypeOK
<1>4. /\ stage' \in [Replays -> ReplayPlaces] /\ stage'[r] = "window"
      /\ \A o \in Replays \ {r} : stage'[o] = stage[o]
      /\ symbol' \in [Replays -> SUBSET Symbols] /\ symbol'[r] = {}
      /\ \A o \in Replays \ {r} : symbol'[o] = symbol[o]
  BY <1>1 DEF Replay!WindowFails, Replay!Goto, Replay!TypeOK, ReplayPlaces
<1>5. /\ missed' \in [Replays -> SUBSET Symbols] /\ \A o \in Replays \ {r} : missed'[o] = missed[o]
      /\ frame = "5m" => missed'[r] = missed[r] \cup symbol[r]
  <2>1. CASE frame = "5m"
    <3>1. missed' = [missed EXCEPT ![r] = missed[r] \cup symbol[r]]
      BY <2>1 DEF Replay!WindowFails
    <3> QED BY <1>1, <3>1 DEF Replay!TypeOK
  <2>2. CASE frame # "5m"
    <3>1. missed' = [missed EXCEPT ![r] = missed[r]]
      BY <2>2 DEF Replay!WindowFails
    <3> QED BY <1>1, <2>2, <3>1 DEF Replay!TypeOK
  <2> QED BY <2>1, <2>2
<1>6. Replay!TypeOK'
  BY <1>1, <1>2, <1>4, <1>5 DEF Replay!TypeOK, Replay!input, ReplayPlaces
<1>7. frame = "5m" => ScoredStored(r)'
  <2> SUFFICES ASSUME frame = "5m", NEW u \in Symbols \ (missed[r] \cup symbol[r] \cup todo[r]),
                      NEW d \in served[u]
               PROVE  stored[u][d] # "none"
    BY <1>2, <1>3, <1>4, <1>5 DEF ScoredStored
  <2> QED BY <1>1 DEF RunInv, ScoredStored, Passed
<1>8. Placed(r)' /\ PricingStored(r)'
  BY <1>4 DEF Placed, PricingStored
<1>9. RunInv(r)'
  BY <1>3, <1>7, <1>8 DEF RunInv
<1>10. \A s \in Symbols, c \in Replay!Candles : signals'[s][c] > 0 => c \in Replay!Replayed
  BY <1>2 DEF BackfillInv
<1> QED BY <1>2, <1>4, <1>5, <1>6, <1>9, <1>10, RunSteps, SameStored

\* backfillPricingCandles.
LEMMA PricingKeeps ==
  ASSUME BackfillInv, NEW r \in Replays, Replay!Pricing(r)
  PROVE  BackfillInv' /\ StoredGrows
<1>1. /\ stage[r] = "pricing" /\ symbol[r] = {} /\ Replay!TypeOK /\ RunInv(r)
      /\ ReplayFaults \in Nat
  BY DEF Replay!Pricing, BackfillInv, RunInv, Placed, Replay!ConstantsOK
<1>2. UNCHANGED <<Replay!input, signals, recent, symbol, cursor, scored, live, boots>>
  BY DEF Replay!Pricing
<1>3. UNCHANGED <<frame, served>> /\ frame \in {"5m", "1h"}
  BY <1>1, <1>2 DEF Replay!input, Replay!TypeOK
<1>4. \A s \in Symbols, c \in Replay!Candles : signals'[s][c] > 0 => c \in Replay!Replayed
  BY <1>2 DEF BackfillInv
<1>5. CASE todo[r] = {}
  <2>1. Replay!Goto(r, "last") /\ UNCHANGED <<stored, todo, missed, replayFaults>>
    BY <1>5 DEF Replay!Pricing
  <2>2. /\ stage' \in [Replays -> ReplayPlaces] /\ stage'[r] = "last"
        /\ \A o \in Replays \ {r} : stage'[o] = stage[o]
    BY <1>1, <2>1 DEF Replay!Goto, Replay!TypeOK, ReplayPlaces
  <2>3. Replay!TypeOK'
    BY <1>1, <1>2, <2>1, <2>2 DEF Replay!TypeOK, Replay!input, ReplayPlaces
  <2>4. RunInv(r)'
    BY <1>1, <1>2, <1>3, <1>5, <2>1, <2>2
    DEF RunInv, Placed, ScoredStored, PricingStored, Passed
  <2> QED BY <1>2, <1>4, <2>1, <2>2, <2>3, <2>4, RunSteps, SameStored
<1>6. CASE todo[r] # {}
  <2>1. PICK s \in todo[r] :
          /\ todo' = [todo EXCEPT ![r] = @ \ {s}]
          /\ \/ /\ stored' = [stored EXCEPT ![s] =
                     [c \in Replay!Candles |-> IF c \in served[s] /\ c \in Replay!Replayed THEN Replay!Upserted(s, c)[s][c]
                                       ELSE @[c]]]
                /\ UNCHANGED <<missed, replayFaults>>
             \/ /\ Replay!Faulty
                /\ missed' = [missed EXCEPT ![r] = @ \cup {s}]
                /\ UNCHANGED stored
          /\ UNCHANGED stage
    BY <1>6 DEF Replay!Pricing
  <2>2. s \in Symbols /\ Replay!Replayed \subseteq Replay!Candles
    BY <1>1, <2>1 DEF Replay!TypeOK, Replay!Replayed, Replay!Candles, BackfillInv,
         Replay!ConstantsOK
  <2>3. /\ todo' \in [Replays -> SUBSET Symbols] /\ todo'[r] = todo[r] \ {s}
        /\ \A o \in Replays \ {r} : todo'[o] = todo[o]
    BY <1>1, <2>1 DEF Replay!TypeOK
  <2>4. /\ stored' \in [Symbols -> [Replay!Candles -> {"none", "live", "backfill"}]] /\ StoredGrows
        /\ missed' \in [Replays -> SUBSET Symbols]
        /\ \A o \in Replays \ {r} : missed'[o] = missed[o]
        /\ replayFaults' \in 0 .. ReplayFaults /\ missed[r] \subseteq missed'[r]
        /\ s \in missed'[r] \/ \A d \in served[s] : d \in Replay!Replayed => stored'[s][d] # "none"
    <3>1. CASE /\ Replay!Faulty /\ missed' = [missed EXCEPT ![r] = @ \cup {s}] /\ UNCHANGED stored
      BY <1>1, <2>2, <3>1, SameStored DEF Replay!TypeOK, Replay!Faulty
    <3>2. CASE /\ stored' = [stored EXCEPT ![s] =
                   [c \in Replay!Candles |-> IF c \in served[s] /\ c \in Replay!Replayed THEN Replay!Upserted(s, c)[s][c]
                                     ELSE @[c]]]
               /\ UNCHANGED <<missed, replayFaults>>
      <4> DEFINE row == [c \in Replay!Candles |-> IF c \in served[s] /\ c \in Replay!Replayed
                                            THEN Replay!Upserted(s, c)[s][c] ELSE stored[s][c]]
      <4>1. \A c \in Replay!Candles :
              Replay!Upserted(s, c)[s][c] = IF stored[s][c] = "live" THEN "live" ELSE "backfill"
        BY <1>1, <2>2 DEF Replay!Upserted, Replay!Kept, Replay!TypeOK
      <4>2. /\ row \in [Replay!Candles -> {"none", "live", "backfill"}]
            /\ \A c \in Replay!Candles :
                 /\ stored[s][c] # "none" => row[c] # "none"
                 /\ stored[s][c] = "live" => row[c] = "live"
                 /\ c \in served[s] /\ c \in Replay!Replayed => row[c] # "none"
        BY <1>1, <2>2, <4>1 DEF Replay!TypeOK
      <4>3. stored' = [stored EXCEPT ![s] = row]
        BY <3>2
      <4> HIDE DEF row
      <4>4. /\ stored' \in [Symbols -> [Replay!Candles -> {"none", "live", "backfill"}]]
            /\ stored'[s] = row /\ \A u \in Symbols \ {s} : stored'[u] = stored[u]
        BY <1>1, <2>2, <4>2, <4>3 DEF Replay!TypeOK
      <4>5. StoredGrows
        BY <4>2, <4>4 DEF StoredGrows
      <4> QED BY <1>1, <2>2, <3>2, <4>2, <4>4, <4>5 DEF Replay!TypeOK
    <3> QED BY <2>1, <3>1, <3>2
  <2>5. Replay!TypeOK'
    BY <1>1, <1>2, <2>1, <2>3, <2>4 DEF Replay!TypeOK, Replay!input
  <2>6. Placed(r)' /\ frame = "1h"
    BY <1>1, <1>2, <1>3, <2>1 DEF RunInv, Placed
  <2>7. PricingStored(r)'
    <3> SUFFICES ASSUME NEW u \in Symbols \ (missed'[r] \cup todo'[r]),
                        NEW d \in served[u], d \in Replay!Replayed
                 PROVE  stored'[u][d] # "none"
      BY <1>3 DEF PricingStored
    <3>1. CASE u = s
      BY <2>4, <3>1
    <3>2. CASE u # s
      <4>1. u \notin missed[r] \cup todo[r]
        BY <2>3, <2>4, <3>2
      <4>2. stored[u][d] # "none"
        BY <1>1, <2>6, <4>1 DEF RunInv, PricingStored
      <4> QED BY <2>2, <2>4, <4>2 DEF StoredGrows
    <3> QED BY <3>1, <3>2
  <2>8. RunInv(r)'
    BY <1>3, <2>6, <2>7 DEF RunInv
  <2> QED BY <1>2, <1>4, <2>1, <2>3, <2>4, <2>5, <2>8, RunSteps
<1> QED BY <1>5, <1>6, SameStored
-----------------------------------------------------------------------------
(* The specification. *)

\* The invariant holds at first,
LEMMA BackfillInit == ASSUME Replay!ConstantsOK, Replay!Init PROVE BackfillInv
<1>1. 0 \in 0 .. MaxLive /\ 0 \in 0 .. MaxBoots /\ 0 \in 0 .. ReplayFaults /\ 1 \in Replay!Candles
  BY DEF Replay!ConstantsOK, Replay!Candles
<1>2. Replay!TypeOK
  <2>1. /\ stored \in [Symbols -> [Replay!Candles -> {"none", "live", "backfill"}]]
        /\ signals \in [Symbols -> [Replay!Candles -> 0 .. 2]]
    BY DEF Replay!Init
  <2>2. /\ todo \in [Replays -> SUBSET Symbols] /\ symbol \in [Replays -> SUBSET Symbols]
        /\ cursor \in [Replays -> Replay!Candles] /\ missed \in [Replays -> SUBSET Symbols]
        /\ scored \in [Replays -> BOOLEAN]
    BY <1>1 DEF Replay!Init
  <2>3. stage \in [Replays -> {"off", "window", "candle", "score", "pricing", "last", "done"}]
    BY DEF Replay!Init
  <2>4. /\ frame \in {"5m", "1h"}
        /\ served \in [Symbols -> SUBSET Replay!Candles] /\ paired \in SUBSET Replay!Replayed
        /\ oiFrom \in Replay!Replayed /\ fires \in SUBSET Replay!Replayed /\ recent \in BOOLEAN
        /\ live \in 0 .. MaxLive /\ boots \in 0 .. MaxBoots /\ replayFaults \in 0 .. ReplayFaults
    BY <1>1 DEF Replay!Init
  <2> QED BY <2>1, <2>2, <2>3, <2>4 DEF Replay!TypeOK
<1>3. \A r \in Replays : stage[r] = "off" /\ symbol[r] = {}
  BY DEF Replay!Init
<1>4. \A s \in Symbols, c \in Replay!Candles : signals[s][c] = 0
  BY DEF Replay!Init
<1> QED BY <1>2, <1>3, <1>4
        DEF BackfillInv, RunInv, Placed, ScoredStored, PricingStored

\* and stands over each step, which takes no stored candle away.
LEMMA BackfillStep ==
  ASSUME BackfillInv, [Replay!Next]_(Replay!vars)
  PROVE  BackfillInv' /\ StoredGrows
<1>1. ASSUME NEW r \in Replays, Replay!Boot(r) PROVE BackfillInv' /\ StoredGrows
  BY <1>1, BootKeeps, SameStored DEF Replay!Boot
<1>2. ASSUME NEW r \in Replays, Replay!WindowBegins(r) PROVE BackfillInv' /\ StoredGrows
  BY <1>2, WindowBeginsKeeps, SameStored DEF Replay!WindowBegins
<1>3. ASSUME NEW r \in Replays, Replay!Candle(r) PROVE BackfillInv' /\ StoredGrows
  BY <1>3, CandleKeeps
<1>4. ASSUME NEW r \in Replays, Replay!Score(r) PROVE BackfillInv' /\ StoredGrows
  BY <1>4, ScoreKeeps, SameStored DEF Replay!Score
<1>5. ASSUME NEW r \in Replays, Replay!Pricing(r) PROVE BackfillInv' /\ StoredGrows
  BY <1>5, PricingKeeps
<1>6. ASSUME NEW r \in Replays, Replay!Finish(r) PROVE BackfillInv' /\ StoredGrows
  <2>1. /\ stage[r] = "last" /\ symbol[r] = {} /\ Replay!TypeOK /\ RunInv(r)
        /\ UNCHANGED <<frame, served>>
    BY <1>6 DEF Replay!Finish, BackfillInv, RunInv, Placed, Replay!input
  <2>2. /\ UNCHANGED <<Replay!input, stored, signals, Replay!run, live, boots, replayFaults>> /\ recent' \in BOOLEAN
        /\ UNCHANGED <<todo, symbol, cursor, missed, scored>>
    BY <1>6 DEF Replay!Finish, Replay!run
  <2>3. /\ stage' \in [Replays -> ReplayPlaces] /\ stage'[r] = "done"
        /\ \A o \in Replays \ {r} : stage'[o] = stage[o]
    BY <1>6, <2>1 DEF Replay!Finish, Replay!Goto, Replay!TypeOK, ReplayPlaces
  <2>4. Replay!TypeOK'
    BY <2>1, <2>2, <2>3 DEF Replay!TypeOK, Replay!input, ReplayPlaces
  <2>5. RunInv(r)'
    BY <2>1, <2>2, <2>3 DEF RunInv, Placed, ScoredStored, PricingStored, Passed
  <2>6. \A s \in Symbols, c \in Replay!Candles : signals'[s][c] > 0 => c \in Replay!Replayed
    BY <2>2 DEF BackfillInv
  <2> QED BY <2>2, <2>3, <2>4, <2>5, <2>6, RunSteps, SameStored
<1>7. ASSUME NEW r \in Replays, Replay!WindowFails(r) PROVE BackfillInv' /\ StoredGrows
  BY <1>7, WindowFailsKeeps, SameStored DEF Replay!WindowFails
<1>8. ASSUME NEW r \in Replays, Replay!Dies(r) PROVE BackfillInv' /\ StoredGrows
  <2>1. Replay!TypeOK /\ ReplayFaults \in Nat
    BY DEF BackfillInv, Replay!ConstantsOK
  <2>2. /\ UNCHANGED <<Replay!input, stored, signals, recent, cursor, missed, scored, live, boots>>
        /\ replayFaults' \in 0 .. ReplayFaults
    BY <1>8, <2>1 DEF Replay!Dies, Replay!Faulty, Replay!TypeOK
  <2>3. /\ stage' \in [Replays -> ReplayPlaces] /\ stage'[r] = "off"
        /\ \A o \in Replays \ {r} : stage'[o] = stage[o]
        /\ todo' \in [Replays -> SUBSET Symbols] /\ \A o \in Replays \ {r} : todo'[o] = todo[o]
        /\ symbol' \in [Replays -> SUBSET Symbols] /\ symbol'[r] = {}
        /\ \A o \in Replays \ {r} : symbol'[o] = symbol[o]
    BY <1>8, <2>1 DEF Replay!Dies, Replay!Goto, Replay!TypeOK, ReplayPlaces
  <2>4. Replay!TypeOK'
    BY <2>1, <2>2, <2>3 DEF Replay!TypeOK, Replay!input, ReplayPlaces
  <2>5. RunInv(r)'
    BY <2>3 DEF RunInv, Placed, ScoredStored, PricingStored
  <2>6. \A s \in Symbols, c \in Replay!Candles : signals'[s][c] > 0 => c \in Replay!Replayed
    BY <2>2 DEF BackfillInv
  <2> QED BY <2>2, <2>3, <2>4, <2>5, <2>6, RunSteps, SameStored
<1>9. ASSUME UNCHANGED <<Replay!input, signals, stage, Replay!run, boots, replayFaults>>,
             StoredGrows, Replay!TypeOK'
      PROVE  BackfillInv'
  <2>1. UNCHANGED <<frame, served, todo, symbol, cursor, missed, scored>>
    BY <1>9 DEF Replay!input, Replay!run
  <2>2. \A r \in Replays : RunInv(r)'
    <3> SUFFICES ASSUME NEW r \in Replays PROVE RunInv(r)'
      OBVIOUS
    <3>1. RunInv(r) /\ \A s \in Symbols : served[s] \subseteq Replay!Candles
      BY DEF BackfillInv, Replay!TypeOK
    <3>2. Placed(r)'
      BY <1>9, <2>1, <3>1 DEF RunInv, Placed
    <3>3. frame = "5m" => ScoredStored(r)'
      BY <1>9, <2>1, <3>1 DEF RunInv, ScoredStored, Passed, StoredGrows
    <3>4. frame = "1h" => PricingStored(r)'
      BY <1>9, <2>1, <3>1 DEF RunInv, PricingStored, StoredGrows
    <3> QED BY <2>1, <3>2, <3>3, <3>4 DEF RunInv
  <2> QED BY <1>9, <2>2 DEF BackfillInv
<1>10. ASSUME NEW s \in Symbols, NEW c \in Replay!Candles, Replay!LiveCandle(s, c)
       PROVE  BackfillInv' /\ StoredGrows
  <2>1. /\ stored' = [stored EXCEPT ![s][c] = "live"] /\ live' \in 0 .. MaxLive
        /\ UNCHANGED <<Replay!input, signals, recent, stage, Replay!run, boots, replayFaults>>
    BY <1>10 DEF Replay!LiveCandle, BackfillInv, Replay!TypeOK, Replay!ConstantsOK
  <2>2. /\ stored' \in [Symbols -> [Replay!Candles -> {"none", "live", "backfill"}]]
        /\ \A t \in Symbols, d \in Replay!Candles :
             stored'[t][d] = IF t = s /\ d = c THEN "live" ELSE stored[t][d]
    BY <2>1 DEF BackfillInv, Replay!TypeOK
  <2>3. StoredGrows
    BY <2>2 DEF StoredGrows
  <2>4. Replay!TypeOK'
    BY <2>1, <2>2 DEF BackfillInv, Replay!TypeOK, Replay!input, Replay!run
  <2> QED BY <1>9, <2>1, <2>3, <2>4
<1>11. CASE Replay!DayPasses
  <2>1. /\ recent' \in BOOLEAN
        /\ UNCHANGED <<Replay!input, stored, signals, stage, Replay!run, live, boots, replayFaults>>
    BY <1>11 DEF Replay!DayPasses
  <2>2. Replay!TypeOK'
    BY <2>1 DEF BackfillInv, Replay!TypeOK, Replay!input, Replay!run
  <2> QED BY <1>9, <2>1, <2>2, SameStored
<1>12. CASE UNCHANGED Replay!vars
  <2>1. UNCHANGED <<Replay!input, stored, signals, recent, stage, Replay!run, live, boots,
       replayFaults>>
    BY <1>12 DEF Replay!vars
  <2>2. Replay!TypeOK'
    BY <2>1 DEF BackfillInv, Replay!TypeOK, Replay!input, Replay!run
  <2> QED BY <1>9, <2>1, <2>2, SameStored
<1> QED BY <1>1, <1>2, <1>3, <1>4, <1>5, <1>6, <1>7, <1>8, <1>10, <1>11, <1>12 DEF Replay!Next,
     Replay!Step

\* What a finished replay answers for is there.
LEMMA DoneIsStored == ASSUME BackfillInv PROVE Replay!ReplayCanBePriced
<1> SUFFICES ASSUME NEW r \in Replays, NEW s \in Symbols, stage[r] = "done", s \notin missed[r],
                    NEW c \in Replay!Candles, NEW d \in served[s], signals[s][c] > 0, d > c
             PROVE  stored[s][d] # "none"
  BY DEF Replay!ReplayCanBePriced
<1>1. todo[r] = {} /\ symbol[r] = {} /\ RunInv(r) /\ frame \in {"5m", "1h"}
  BY DEF BackfillInv, RunInv, Placed, Replay!TypeOK
<1>2. CASE frame = "5m"
  BY <1>1, <1>2 DEF RunInv, ScoredStored, Passed
<1>3. CASE frame = "1h"
  <2>1. c \in Replay!Replayed /\ d \in Replay!Candles
    BY DEF BackfillInv, Replay!TypeOK
  <2>2. d \in Replay!Replayed
    BY <2>1 DEF Replay!Replayed, Replay!Candles, BackfillInv, Replay!ConstantsOK
  <2> QED BY <1>1, <1>3, <2>2 DEF RunInv, PricingStored
<1> QED BY <1>1, <1>2, <1>3
-----------------------------------------------------------------------------
(* The journal.  Its variables, by their own names. *)

now          == v1
used         == v2
journal      == v3
trade        == v4
patch        == v5
merged       == v6
USE DEF now, used, journal, trade, patch, merged

\* What a closed trade earned is a gain over an entry, and a risk above zero.
LEMMA ResultTyped ==
  ASSUME Trade!ConstantsOK, NEW side \in Trade!Sides, NEW entry \in Prices,
         NEW exit \in Trade!Nullable(Prices),
         NEW size \in Trade!Nullable(Prices), NEW stop \in Trade!Nullable(Prices)
  PROVE  Trade!Result(side, entry, exit, size, stop) \in Trade!Nullable(Trade!Results)
<1>1. CASE exit = None
  BY <1>1 DEF Trade!Result, Trade!Nullable
<1>2. CASE exit # None
  <2>1. exit \in Nat /\ entry \in Nat /\ exit \in Prices
    BY <1>2 DEF Trade!ConstantsOK, Trade!Nullable
  <2>2. Trade!Gain(side, entry, exit) \in Int
    BY <2>1 DEF Trade!Gain, Trade!Direction
  <2>3. stop # None => Trade!Risk(entry, stop) \in Nat
    BY <2>1 DEF Trade!Risk, Trade!ConstantsOK, Trade!Nullable
  <2> QED
    BY <1>2, <2>1, <2>2, <2>3 DEF Trade!Result, Trade!Results, Trade!Nullable
<1> QED BY <1>1, <1>2

\* A field after a patch has the type it had.
LEMMA PatchedTyped ==
  ASSUME NEW S, NEW new \in S \cup {Absent}, NEW old \in S
  PROVE  Trade!Patched(new, old) \in S
BY DEF Trade!Patched

\* A patch leaves a row.
LEMMA MergedTyped ==
  ASSUME Trade!ConstantsOK, now \in Trade!Times, NEW row \in Trade!Rows, NEW p \in Patches
  PROVE  Trade!Merged(row, p) \in Trade!Rows
<1> DEFINE side  == Trade!Patched(p.side, row.side)
           entry == Trade!Patched(p.entry, row.entry)
           exit  == Trade!Patched(p.exit, row.exit)
           size  == Trade!Patched(p.size, row.size)
           stop  == Trade!Patched(p.stop, row.stop)
<1>1. p \in Trade!AllPatches
  BY DEF Trade!ConstantsOK
<1>2. side \in Trade!Sides /\ entry \in Prices
  BY <1>1, PatchedTyped DEF Trade!AllPatches, Trade!Rows
<1>3. /\ exit \in Trade!Nullable(Prices) /\ size \in Trade!Nullable(Prices)
      /\ stop \in Trade!Nullable(Prices)
  BY <1>1, PatchedTyped DEF Trade!AllPatches, Trade!Rows
<1>4. Trade!Result(side, entry, exit, size, stop) \in Trade!Nullable(Trade!Results)
  BY <1>2, <1>3, ResultTyped
<1>5. /\ row.closedAt \in Trade!Nullable(Trade!Times) /\ now \in Trade!Nullable(Trade!Times)
      /\ None \in Trade!Nullable(Trade!Times)
  BY DEF Trade!Rows, Trade!Nullable
<1> HIDE DEF side, entry, exit, size, stop
<1>6. Trade!Merged(row, p) =
        [side |-> side, entry |-> entry, exit |-> exit, size |-> size, stop |-> stop,
         result |-> Trade!Result(side, entry, exit, size, stop),
         status |-> IF exit = None THEN "open" ELSE "closed",
         closedAt |-> IF exit = None THEN None ELSE IF row.status = "closed" THEN row.closedAt ELSE now]
  BY DEF Trade!Merged, side, entry, exit, size, stop
<1> QED
  BY <1>2, <1>3, <1>4, <1>5, <1>6 DEF Trade!Rows

\* The row a patch leaves is of a piece if the row it was read from is.
LEMMA MergedOfItsRow ==
  ASSUME Trade!ConstantsOK, now \in Trade!Times, NEW row \in Trade!Rows, NEW p \in Patches,
         Trade!OfItsRow(row)
  PROVE  Trade!OfItsRow(Trade!Merged(row, p))
<1>1. now # None
  BY DEF Trade!ConstantsOK
<1>2. row.status = "closed" => row.closedAt # None
  BY DEF Trade!OfItsRow
<1> DEFINE m == Trade!Merged(row, p)
<1>3. m.result = Trade!Result(m.side, m.entry, m.exit, m.size, m.stop)
  BY DEF Trade!Merged
<1>4. /\ m.status = IF m.exit = None THEN "open" ELSE "closed"
      /\ m.closedAt = IF m.exit = None THEN None ELSE IF row.status = "closed" THEN row.closedAt ELSE now
  BY DEF Trade!Merged
<1> HIDE DEF m
<1>5. Trade!OfItsRow(m)
  BY <1>1, <1>2, <1>3, <1>4 DEF Trade!OfItsRow
<1> QED BY <1>5 DEF m
-----------------------------------------------------------------------------
(* Types. *)

\* A request that is answered forgets its trade.
LEMMA AnswerTyped ==
  ASSUME Trade!TypeOK, NEW q \in Runs, Trade!Answer(q)
  PROVE  /\ stage' \in [Runs -> {"idle", "check", "merge", "write"}]
         /\ trade' \in [Runs -> Trade!Nullable(Trades)]
         /\ patch' \in [Runs -> Patches \cup {None}]
         /\ merged' \in [Runs -> Trade!Rows \cup {None}]
         /\ \A o \in Runs : stage'[o] # "idle" => trade'[o] \in Trades /\ patch'[o] \in Patches
         /\ \A o \in Runs : stage'[o] = "write" => merged'[o] \in Trade!Rows
<1>1. stage' \in [Runs -> {"idle", "check", "merge", "write"}]
  BY DEF Trade!Answer, Trade!Goto, Trade!TypeOK
<1>2. trade' \in [Runs -> Trade!Nullable(Trades)]
  BY DEF Trade!Answer, Trade!TypeOK, Trade!Nullable
<1>3. patch' \in [Runs -> Patches \cup {None}]
  BY DEF Trade!Answer, Trade!TypeOK
<1>4. merged' \in [Runs -> Trade!Rows \cup {None}]
  BY DEF Trade!Answer, Trade!TypeOK
<1>5. ASSUME NEW o \in Runs, stage'[o] # "idle"
      PROVE  /\ trade'[o] = trade[o] /\ patch'[o] = patch[o] /\ merged'[o] = merged[o]
             /\ stage'[o] = stage[o]
  <2>1. o # q
    BY <1>5 DEF Trade!Answer, Trade!Goto, Trade!TypeOK
  <2> QED BY <2>1 DEF Trade!Answer, Trade!Goto, Trade!TypeOK
<1> QED BY <1>1, <1>2, <1>3, <1>4, <1>5 DEF Trade!TypeOK

\* The journal keeps its types.
LEMMA JournalTypeStep ==
  ASSUME Trade!ConstantsOK, Trade!TypeOK, [Trade!Next]_(Trade!vars)
  PROVE  Trade!TypeOK'
<1>1. ASSUME NEW t \in Trades, NEW side \in Trade!Sides, NEW entry \in Prices,
             NEW size \in Trade!Nullable(Prices),
             NEW stop \in Trade!Nullable(Prices), Trade!Create(t, side, entry, size, stop)
      PROVE  Trade!TypeOK'
  <2> DEFINE row == [side |-> side, entry |-> entry, exit |-> None, size |-> size, stop |-> stop,
                     result |-> None, status |-> "open", closedAt |-> None]
  <2>1. row \in Trade!Rows
    BY DEF Trade!Rows, Trade!Nullable
  <2>2. journal' = [journal EXCEPT ![t] = row]
    BY <1>1 DEF Trade!Create
  <2> HIDE DEF row
  <2>3. journal' \in [Trades -> Trade!Nullable(Trade!Rows)]
    BY <2>1, <2>2 DEF Trade!TypeOK, Trade!Nullable
  <2> QED BY <1>1, <2>3 DEF Trade!Create, Trade!TypeOK
<1>2. ASSUME NEW t \in Trades, Trade!Delete(t)
      PROVE  Trade!TypeOK'
  <2>1. journal' \in [Trades -> Trade!Nullable(Trade!Rows)]
    BY <1>2 DEF Trade!Delete, Trade!TypeOK, Trade!Nullable
  <2> QED BY <1>2, <2>1 DEF Trade!Delete, Trade!TypeOK
<1>3. ASSUME NEW q \in Runs, NEW t \in Trades, NEW p \in Patches, Trade!Arrive(q, t, p)
      PROVE  Trade!TypeOK'
  <2>1. trade' \in [Runs -> Trade!Nullable(Trades)]
    BY <1>3 DEF Trade!Arrive, Trade!TypeOK, Trade!Nullable
  <2>2. patch' \in [Runs -> Patches \cup {None}]
    BY <1>3 DEF Trade!Arrive, Trade!TypeOK
  <2>3. stage' \in [Runs -> {"idle", "check", "merge", "write"}] /\ stage'[q] # "write"
    BY <1>3 DEF Trade!Arrive, Trade!Goto, Trade!TypeOK
  <2>4. \A o \in Runs : stage'[o] # "idle" => trade'[o] \in Trades /\ patch'[o] \in Patches
    BY <1>3 DEF Trade!Arrive, Trade!Goto, Trade!TypeOK
  <2>5. \A o \in Runs \ {q} : stage'[o] = stage[o]
    BY <1>3 DEF Trade!Arrive, Trade!Goto, Trade!TypeOK
  <2> QED BY <1>3, <2>1, <2>2, <2>3, <2>4, <2>5 DEF Trade!Arrive, Trade!TypeOK
<1>4. ASSUME NEW q \in Runs, Trade!Check(q)
      PROVE  Trade!TypeOK'
  <2>1. CASE Trade!Answer(q)
    BY <1>4, <2>1, AnswerTyped DEF Trade!Check, Trade!TypeOK
  <2>2. CASE Trade!Proceed(q, "merge")
    <3>1. stage' \in [Runs -> {"idle", "check", "merge", "write"}]
      BY <2>2 DEF Trade!Proceed, Trade!Goto, Trade!TypeOK
    <3>2. \A o \in Runs : (stage'[o] # "idle" => stage[o] # "idle") /\ (stage'[o] = "write" => stage[o] = "write")
      BY <1>4, <2>2 DEF Trade!Check, Trade!Proceed, Trade!Goto, Trade!TypeOK
    <3> QED BY <1>4, <2>2, <3>1, <3>2 DEF Trade!Check, Trade!Proceed, Trade!TypeOK
  <2> QED BY <1>4, <2>1, <2>2 DEF Trade!Check
<1>5. ASSUME NEW q \in Runs, Trade!Merge(q)
      PROVE  Trade!TypeOK'
  <2>1. CASE ~Trade!Exists(trade[q])
    <3>1. Trade!Answer(q)
      BY <1>5, <2>1 DEF Trade!Merge
    <3> QED BY <1>5, <3>1, AnswerTyped DEF Trade!Merge, Trade!TypeOK
  <2>2. CASE Trade!Exists(trade[q])
    <3>1. trade[q] \in Trades /\ patch[q] \in Patches
      BY <1>5 DEF Trade!Merge, Trade!TypeOK
    <3>2. journal[trade[q]] \in Trade!Rows
      BY <2>2, <3>1 DEF Trade!Exists, Trade!TypeOK, Trade!Nullable
    <3> DEFINE m == Trade!Merged(journal[trade[q]], patch[q])
    <3>3. m \in Trade!Rows
      BY <3>1, <3>2, MergedTyped DEF Trade!TypeOK
    <3>4. /\ merged' = [merged EXCEPT ![q] = m] /\ Trade!Goto(q, "write")
          /\ UNCHANGED <<now, used, journal, trade, patch>>
      BY <1>5, <2>2 DEF Trade!Merge
    <3> HIDE DEF m
    <3>5. merged' \in [Runs -> Trade!Rows \cup {None}] /\ merged'[q] \in Trade!Rows
      BY <3>3, <3>4 DEF Trade!TypeOK
    <3>6. stage' \in [Runs -> {"idle", "check", "merge", "write"}]
      BY <3>4 DEF Trade!Goto, Trade!TypeOK
    <3>7. \A o \in Runs \ {q} : stage'[o] = stage[o] /\ merged'[o] = merged[o]
      BY <3>4 DEF Trade!Goto, Trade!TypeOK
    <3> QED BY <3>1, <3>4, <3>5, <3>6, <3>7 DEF Trade!TypeOK
  <2> QED BY <2>1, <2>2
<1>6. ASSUME NEW q \in Runs, Trade!Write(q)
      PROVE  Trade!TypeOK'
  <2>1. trade[q] \in Trades /\ merged[q] \in Trade!Rows
    BY <1>6 DEF Trade!Write, Trade!TypeOK
  <2>2. journal' \in [Trades -> Trade!Nullable(Trade!Rows)]
    BY <1>6, <2>1 DEF Trade!Write, Trade!Written, Trade!TypeOK, Trade!Nullable
  <2>3. Trade!Answer(q)
    BY <1>6 DEF Trade!Write
  <2> QED BY <1>6, <2>2, <2>3, AnswerTyped DEF Trade!Write, Trade!TypeOK
<1>7. ASSUME NEW q \in Runs, Trade!Fails(q)
      PROVE  Trade!TypeOK'
  BY <1>7, AnswerTyped DEF Trade!Fails, Trade!TypeOK
<1>8. CASE Trade!Tick
  <2>1. now' \in Trade!Times
    BY <1>8 DEF Trade!Tick, Trade!TypeOK, Trade!Times, Trade!ConstantsOK
  <2> QED BY <1>8, <2>1 DEF Trade!Tick, Trade!TypeOK
<1>9. CASE UNCHANGED Trade!vars
  BY <1>9 DEF Trade!vars, Trade!TypeOK
<1> QED BY <1>1, <1>2, <1>3, <1>4, <1>5, <1>6, <1>7, <1>8, <1>9 DEF Trade!Next, Trade!Step
-----------------------------------------------------------------------------
(* The result of a trade. *)

\* What is stored is of a piece, and so is what a request is about to store: the
\* UPDATE sets every column, so it does not matter what became of the row since.
JournalInv ==
  /\ Trade!TypeOK
  /\ Trade!ResultOfItsRow
  /\ \A q \in Runs : stage[q] = "write" => Trade!OfItsRow(merged[q])

\* A request that is answered leaves nothing to write.
LEMMA AnswerKeeps ==
  ASSUME JournalInv, NEW q \in Runs, Trade!Answer(q)
  PROVE  \A o \in Runs : stage'[o] = "write" => Trade!OfItsRow(merged'[o])
<1> SUFFICES ASSUME NEW o \in Runs, stage'[o] = "write"
             PROVE  Trade!OfItsRow(merged'[o])
  OBVIOUS
<1>1. o # q
  BY DEF Trade!Answer, Trade!Goto, JournalInv, Trade!TypeOK
<1>2. stage[o] = "write" /\ merged'[o] = merged[o]
  BY <1>1 DEF Trade!Answer, Trade!Goto, JournalInv, Trade!TypeOK
<1> QED BY <1>2 DEF JournalInv

\* A step keeps the results those of their rows.
LEMMA JournalStep ==
  ASSUME Trade!ConstantsOK, JournalInv, [Trade!Next]_(Trade!vars)
  PROVE  JournalInv'
<1>0. Trade!TypeOK /\ Trade!TypeOK'
  BY JournalTypeStep DEF JournalInv
<1>1. ASSUME NEW t \in Trades, NEW side \in Trade!Sides, NEW entry \in Prices,
             NEW size \in Trade!Nullable(Prices),
             NEW stop \in Trade!Nullable(Prices), Trade!Create(t, side, entry, size, stop)
      PROVE  JournalInv'
  <2> DEFINE row == [side |-> side, entry |-> entry, exit |-> None, size |-> size, stop |-> stop,
                     result |-> None, status |-> "open", closedAt |-> None]
  <2>1. Trade!OfItsRow(row)
    BY DEF Trade!OfItsRow, Trade!Result
  <2>2. journal' = [journal EXCEPT ![t] = row]
    BY <1>1 DEF Trade!Create
  <2> HIDE DEF row
  <2>3. Trade!ResultOfItsRow'
    BY <1>0, <2>1, <2>2 DEF JournalInv, Trade!ResultOfItsRow, Trade!Exists, Trade!TypeOK
  <2> QED BY <1>0, <1>1, <2>3 DEF Trade!Create, JournalInv
<1>2. ASSUME NEW t \in Trades, Trade!Delete(t)
      PROVE  JournalInv'
  <2>1. Trade!ResultOfItsRow'
    BY <1>0, <1>2 DEF Trade!Delete, JournalInv, Trade!ResultOfItsRow, Trade!Exists, Trade!TypeOK
  <2> QED BY <1>0, <1>2, <2>1 DEF Trade!Delete, JournalInv
<1>3. ASSUME NEW q \in Runs, NEW t \in Trades, NEW p \in Patches, Trade!Arrive(q, t, p)
      PROVE  JournalInv'
  <2>1. \A o \in Runs : stage'[o] = "write" => stage[o] = "write"
    BY <1>0, <1>3 DEF Trade!Arrive, Trade!Goto, Trade!TypeOK
  <2> QED BY <1>0, <1>3, <2>1 DEF Trade!Arrive, JournalInv, Trade!ResultOfItsRow, Trade!Exists
<1>4. ASSUME NEW q \in Runs, Trade!Check(q)
      PROVE  JournalInv'
  <2>1. UNCHANGED journal /\ (Trade!Answer(q) \/ Trade!Proceed(q, "merge"))
    BY <1>4 DEF Trade!Check
  <2>2. Trade!ResultOfItsRow'
    BY <2>1 DEF JournalInv, Trade!ResultOfItsRow, Trade!Exists
  <2>3. CASE Trade!Answer(q)
    BY <1>0, <2>2, <2>3, AnswerKeeps DEF JournalInv
  <2>4. CASE Trade!Proceed(q, "merge")
    <3>1. UNCHANGED merged /\ \A o \in Runs : stage'[o] = "write" => stage[o] = "write"
      BY <1>0, <2>4 DEF Trade!Proceed, Trade!Goto, Trade!TypeOK
    <3> QED BY <1>0, <2>2, <3>1 DEF JournalInv
  <2> QED BY <2>1, <2>3, <2>4
<1>5. ASSUME NEW q \in Runs, Trade!Merge(q)
      PROVE  JournalInv'
  <2>1. Trade!ResultOfItsRow'
    BY <1>5 DEF Trade!Merge, JournalInv, Trade!ResultOfItsRow, Trade!Exists
  <2>2. CASE ~Trade!Exists(trade[q])
    BY <1>0, <1>5, <2>1, <2>2, AnswerKeeps DEF Trade!Merge, JournalInv
  <2>3. CASE Trade!Exists(trade[q])
    <3>1. trade[q] \in Trades /\ patch[q] \in Patches
      BY <1>0, <1>5 DEF Trade!Merge, Trade!TypeOK
    <3>2. journal[trade[q]] \in Trade!Rows /\ Trade!OfItsRow(journal[trade[q]])
      BY <1>0, <2>3, <3>1 DEF Trade!Exists, Trade!TypeOK, Trade!Nullable, JournalInv,
           Trade!ResultOfItsRow
    <3> DEFINE m == Trade!Merged(journal[trade[q]], patch[q])
    <3>3. Trade!OfItsRow(m)
      BY <1>0, <3>1, <3>2, MergedOfItsRow DEF Trade!TypeOK
    <3>4. merged' = [merged EXCEPT ![q] = m] /\ Trade!Goto(q, "write")
      BY <1>5, <2>3 DEF Trade!Merge
    <3> HIDE DEF m
    <3>5. \A o \in Runs : stage'[o] = "write" => Trade!OfItsRow(merged'[o])
      BY <1>0, <3>3, <3>4 DEF Trade!Goto, Trade!TypeOK, JournalInv
    <3> QED BY <1>0, <2>1, <3>5 DEF JournalInv
  <2> QED BY <2>2, <2>3
<1>6. ASSUME NEW q \in Runs, Trade!Write(q)
      PROVE  JournalInv'
  <2>1. trade[q] \in Trades /\ Trade!OfItsRow(merged[q])
    BY <1>0, <1>6 DEF Trade!Write, Trade!TypeOK, JournalInv
  <2>2. Trade!ResultOfItsRow'
    BY <1>0, <1>6, <2>1 DEF Trade!Write, Trade!Written, JournalInv, Trade!ResultOfItsRow,
         Trade!Exists, Trade!TypeOK
  <2> QED BY <1>0, <1>6, <2>2, AnswerKeeps DEF Trade!Write, JournalInv
<1>7. ASSUME NEW q \in Runs, Trade!Fails(q)
      PROVE  JournalInv'
  <2>1. Trade!ResultOfItsRow'
    BY <1>7 DEF Trade!Fails, JournalInv, Trade!ResultOfItsRow, Trade!Exists
  <2> QED BY <1>0, <1>7, <2>1, AnswerKeeps DEF Trade!Fails, JournalInv
<1>8. CASE Trade!Tick
  BY <1>0, <1>8 DEF Trade!Tick, JournalInv, Trade!ResultOfItsRow, Trade!Exists
<1>9. CASE UNCHANGED Trade!vars
  BY <1>0, <1>9 DEF Trade!vars, JournalInv, Trade!ResultOfItsRow, Trade!Exists
<1> QED BY <1>1, <1>2, <1>3, <1>4, <1>5, <1>6, <1>7, <1>8, <1>9 DEF Trade!Next, Trade!Step

\* An empty journal is of a piece.
LEMMA JournalInit == ASSUME Trade!ConstantsOK, Trade!Init PROVE JournalInv
<1>1. now \in Trade!Times
  BY DEF Trade!Init, Trade!Times, Trade!ConstantsOK
<1> QED BY <1>1 DEF Trade!Init, JournalInv, Trade!TypeOK, Trade!Nullable, Trade!ResultOfItsRow,
     Trade!Exists
-----------------------------------------------------------------------------
(* The sum, with the prices of the signals from their own module. *)

SampledLemmas == INSTANCE SignalOutcomesProofs WITH
  Runs <- Passes, MaxTime <- SampleTime, MaxFaults <- SampleFaults, pc <- stage,
  now <- v1, at <- v2, row <- v3, price <- v4, candles <- v5, begun <- v6, horizon <- v7,
  batch <- v8, faults <- v9

\* The proofs of the prices of signals are about those that Records plays.
LEMMA SameSampled ==
  /\ Sampled!ConstantsOK <=> SampledLemmas!ConstantsOK
  /\ Sampled!Init <=> SampledLemmas!Init
  /\ Sampled!Next <=> SampledLemmas!Next
<1>1. Sampled!ConstantsOK <=> SampledLemmas!ConstantsOK
  BY DEF Sampled!ConstantsOK, Sampled!Times, SampledLemmas!ConstantsOK, SampledLemmas!Times
<1>2. Sampled!Init <=> SampledLemmas!Init
  BY DEF Sampled!Init, Sampled!Shortest, SampledLemmas!Init, SampledLemmas!Shortest
<1>3. ASSUME NEW r
      PROVE  /\ Sampled!Begin(r) <=> SampledLemmas!Begin(r)
             /\ Sampled!Fails(r) <=> SampledLemmas!Fails(r)
  BY DEF Sampled!Begin, Sampled!Fails, Sampled!Faulty, Sampled!Shortest, Sampled!tables,
       SampledLemmas!Begin, SampledLemmas!Fails, SampledLemmas!Faulty, SampledLemmas!Shortest,
       SampledLemmas!tables
<1>4. ASSUME NEW r PROVE Sampled!Read(r) <=> SampledLemmas!Read(r)
  <2>1. ASSUME NEW s, NEW h PROVE Sampled!Answers(s, h) = SampledLemmas!Answers(s, h)
    BY DEF Sampled!Answers, SampledLemmas!Answers
  <2>2. ASSUME NEW s, NEW h PROVE Sampled!Answer(s, h) = SampledLemmas!Answer(s, h)
    BY <2>1 DEF Sampled!Answer, SampledLemmas!Answer
  <2>3. Sampled!Due(r) = SampledLemmas!Due(r)
    BY DEF Sampled!Due, SampledLemmas!Due
  <2>4. ASSUME NEW S, NEW h PROVE Sampled!Priceable(S, h) = SampledLemmas!Priceable(S, h)
    BY <2>1 DEF Sampled!Priceable, SampledLemmas!Priceable
  <2>5. ASSUME NEW S PROVE Sampled!PagesOf(S) = SampledLemmas!PagesOf(S)
    <3>1. ASSUME NEW T PROVE Sampled!Cardinality(T) = SampledLemmas!Cardinality(T)
      BY DEF Sampled!Cardinality, SampledLemmas!Cardinality
    <3> QED BY <3>1 DEF Sampled!PagesOf, SampledLemmas!PagesOf
  <2>6. Sampled!Pages(r) = SampledLemmas!Pages(r)
    BY <2>3, <2>4, <2>5 DEF Sampled!Pages, SampledLemmas!Pages
  <2>7. Sampled!NextHorizon(r) <=> SampledLemmas!NextHorizon(r)
    BY DEF Sampled!NextHorizon, SampledLemmas!NextHorizon
  <2> QED BY <2>2, <2>6, <2>7 DEF Sampled!Read, Sampled!tables, SampledLemmas!Read,
             SampledLemmas!tables
<1>5. ASSUME NEW r PROVE Sampled!Record(r) <=> SampledLemmas!Record(r)
  BY DEF Sampled!Record, Sampled!NextHorizon, SampledLemmas!Record, SampledLemmas!NextHorizon
<1>6. /\ \A s : Sampled!Fire(s) <=> SampledLemmas!Fire(s)
      /\ \A t : Sampled!Store(t) <=> SampledLemmas!Store(t)
      /\ Sampled!Tick <=> SampledLemmas!Tick
      /\ Sampled!Times = SampledLemmas!Times
  BY DEF Sampled!Fire, Sampled!Store, Sampled!Tick, Sampled!Faulty, Sampled!Times, Sampled!tables,
       SampledLemmas!Fire, SampledLemmas!Store, SampledLemmas!Tick, SampledLemmas!Faulty,
       SampledLemmas!Times, SampledLemmas!tables
<1> QED BY <1>1, <1>2, <1>3, <1>4, <1>5, <1>6 DEF Sampled!Next, Sampled!Step,
           SampledLemmas!Next, SampledLemmas!Step

\* So are the properties of them.
LEMMA SameSampledProperties ==
  /\ Sampled!PricedInWindow <=> SampledLemmas!PricedInWindow
  /\ Sampled!PricedApart <=> SampledLemmas!PricedApart
<1>1. Sampled!PricedInWindow <=> SampledLemmas!PricedInWindow
  BY DEF Sampled!PricedInWindow, SampledLemmas!PricedInWindow
<1>2. ASSUME NEW h, NEW from PROVE Sampled!Samples(h, from) = SampledLemmas!Samples(h, from)
  BY DEF Sampled!Samples, Sampled!StartsEpisode, Sampled!Firings,
         SampledLemmas!Samples, SampledLemmas!StartsEpisode, SampledLemmas!Firings
<1>3. Sampled!Sources = SampledLemmas!Sources
  BY DEF Sampled!Sources, SampledLemmas!Sources
<1>4. Sampled!PricedApart <=> SampledLemmas!PricedApart
  BY <1>2, <1>3 DEF Sampled!PricedApart, SampledLemmas!PricedApart
<1> QED BY <1>1, <1>4

-----------------------------------------------------------------------------
\* What holds of the part that is played, and of the setup tracker at any time.
RecordsInv ==
  /\ Typed
  /\ playing = "replay" => BackfillInv
  /\ playing = "sampled" => SampledLemmas!WindowInv
  /\ playing = "trade" => JournalInv

\* It holds at first.
LEMMA RecordsInitHolds == RecordsInit => RecordsInv
<1> SUFFICES ASSUME RecordsInit PROVE RecordsInv
  OBVIOUS
<1>1. Typed
  BY TypeInit, RecordsAssumption DEF RecordsInit
<1>2. ASSUME playing = "replay" PROVE BackfillInv
  BY <1>2, BackfillInit, RecordsAssumption DEF RecordsInit
<1>3. ASSUME playing = "sampled" PROVE SampledLemmas!WindowInv
  BY <1>3, SampledLemmas!WindowInit, SameSampled, RecordsAssumption DEF RecordsInit
<1>4. ASSUME playing = "trade" PROVE JournalInv
  BY <1>4, JournalInit, RecordsAssumption DEF RecordsInit
<1> QED BY <1>1, <1>2, <1>3, <1>4 DEF RecordsInv

\* It stands over every step.
LEMMA RecordsStep == RecordsInv /\ [RecordsNext]_all => RecordsInv'
<1> SUFFICES ASSUME RecordsInv, [RecordsNext]_all PROVE RecordsInv'
  OBVIOUS
<1>0. UNCHANGED playing /\ [Next]_vars
  BY DEF RecordsNext, all
<1>1. Typed'
  BY <1>0, TypeStep DEF RecordsInv
<1>2. ASSUME playing = "replay" PROVE BackfillInv'
  <2>1. [Replay!Next]_(Replay!vars)
    BY <1>2 DEF RecordsNext, all, slots, over6, over9, Replay!vars, Replay!input, Replay!run
  <2> QED BY <1>2, <2>1, BackfillStep DEF RecordsInv
<1>3. ASSUME playing = "sampled" PROVE SampledLemmas!WindowInv'
  <2>1. [SampledLemmas!Next]_(SampledLemmas!vars)
    BY <1>3, SameSampled DEF RecordsNext, all, slots, over6, over9, SampledLemmas!vars,
       SampledLemmas!tables
  <2> QED BY <1>3, <2>1, SampledLemmas!WindowStep DEF RecordsInv
<1>4. ASSUME playing = "trade" PROVE JournalInv'
  <2>1. [Trade!Next]_(Trade!vars)
    BY <1>4 DEF RecordsNext, all, slots, over6, over9, Trade!vars
  <2> QED BY <1>4, <2>1, RecordsAssumption, JournalStep DEF RecordsInv
<1> QED BY <1>0, <1>1, <1>2, <1>3, <1>4 DEF RecordsInv

\* The inductive invariant of the records: on any coins, bars, windows, signals and trades.
THEOREM RecordsInductive == RecordsSpec => []RecordsInv
<1> QED BY RecordsInitHolds, RecordsStep, PTL DEF RecordsSpec

\* The variables of the member that is played keep their types: of the setups, of the
\* replay, of the outcome passes and of the journal.
THEOREM RecordsTyped ==
  RecordsSpec => [](/\ TypeOK
                    /\ playing = "replay" => Replay!TypeOK
                    /\ playing = "sampled" => Sampled!TypeOK
                    /\ playing = "trade" => Trade!TypeOK)
<1>1. SampledLemmas!TypeOK => Sampled!TypeOK
  BY DEF Sampled!TypeOK, Sampled!Times, SampledLemmas!TypeOK, SampledLemmas!Times
<1>2. SampledLemmas!WindowInv => SampledLemmas!TypeOK
  BY DEF SampledLemmas!WindowInv
<1>3. RecordsInv => /\ TypeOK
                    /\ playing = "replay" => Replay!TypeOK
                    /\ playing = "sampled" => Sampled!TypeOK
                    /\ playing = "trade" => Trade!TypeOK
  BY <1>1, <1>2 DEF RecordsInv, Typed, BackfillInv, JournalInv
<1> QED BY <1>3, RecordsInductive, PTL

\* Whatever windows fail, however the boot's replay and the command's overlap and
\* wherever they die, a replayed signal keeps the candles that price it.
THEOREM ReplaysArePriced == RecordsSpec => []ReplayCanBePriced
<1>1. RecordsInv => ReplayCanBePriced
  BY DoneIsStored DEF RecordsInv, ReplayCanBePriced
<1> QED BY <1>1, RecordsInductive, PTL

\* Whenever a pass of runOutcomeTracker comes, late, twice at once or after an outage, a
\* price is of the window it stands for, and on the longer horizons of no other sample.
THEOREM SamplesApart == RecordsSpec => []PricedApart
<1>1. RecordsInv => PricedApart
  BY SampledLemmas!SamplesApart, SameSampledProperties DEF RecordsInv, PricedApart
<1> QED BY <1>1, RecordsInductive, PTL

\* updateTrade: whichever patches overlap, the result, the status and the closing time of
\* a trade are those of the prices stored with them.
THEOREM ResultsAreOfTheirRows == RecordsSpec => []ResultOfItsRow
<1>1. RecordsInv => ResultOfItsRow
  BY DEF RecordsInv, JournalInv, ResultOfItsRow
<1> QED BY <1>1, RecordsInductive, PTL

\* A resolved setup is not resolved again, and no replay overwrites a candle of the live
\* collector.
THEOREM RecordsStandFast == RecordsSpec => RecordsStand
<1> DEFINE Stand == /\ playing = "setup" => ResolvedStands
                    /\ playing = "replay" => Replay!LiveRowsStand
<1>1. RecordsInv /\ [RecordsNext]_all => [Stand]_all
  <2> SUFFICES ASSUME RecordsInv, RecordsNext PROVE Stand
    OBVIOUS
  <2>1. ASSUME playing = "setup" PROVE ResolvedStands
    BY <2>1, SetupsStand DEF RecordsInv, RecordsNext
  <2>2. ASSUME playing = "replay" PROVE Replay!LiveRowsStand
    <3>1. StoredGrows
      BY <2>2, BackfillStep DEF RecordsInv, RecordsNext
    <3> QED BY <3>1 DEF StoredGrows, Replay!LiveRowsStand
  <2> QED BY <2>1, <2>2
<1> QED BY <1>1, RecordsInductive, PTL DEF RecordsSpec, RecordsStand
=============================================================================
