----------------------------- MODULE ChartSetups -----------------------------
(***************************************************************************)
(* The chart of one coin: readMarketStructure on its closed daily bars and *)
(* detectSetups on its closed 4H bars, as each 4H bar closes.              *)
(*                                                                         *)
(* Prices are integers.  The average true range is kept as the sum it is   *)
(* the average of, so that stops and targets are in units of               *)
(* 1 / (2 * AtrPeriod) of a price.  Whether the daily close is above its   *)
(* moving average and whether the coin did worse than BTC are inputs.      *)
(***************************************************************************)
EXTENDS Integers, Sequences, FiniteSetsExt

CONSTANTS
  Width,     \* bars on each side a swing must beat
  AtrPeriod, \* ATR_PERIOD
  Lookback,  \* VOLUME_LOOKBACK
  Window,    \* BREAKOUT_WINDOW
  MinReward, \* minRr
  PerDay,    \* 4H bars of a day
  Charts     \* bound: for each 4H bar in turn, what it may be

Bars == [open : Nat, high : Nat, low : Nat, close : Nat, volume : Nat]

ConstantsOK ==
  /\ Width \in Nat \ {0} /\ AtrPeriod \in Nat \ {0} /\ Lookback \in Nat \ {0}
  /\ Window \in Nat /\ MinReward \in Nat /\ PerDay \in Nat \ {0}
  /\ Charts \in Seq(SUBSET Bars)

VARIABLES
  bars,  \* closed 4H bars, oldest first
  daily, \* closed daily bars, oldest first
  above, \* aboveEma of the last daily close: not so before there is an average
  worse  \* relativeStrengthPct is negative: not so when BTC was not read

vars == <<bars, daily, above, worse>>

TypeOK ==
  /\ bars \in Seq(Bars) /\ daily \in Seq([high : Nat, low : Nat, close : Nat])
  /\ above \in BOOLEAN /\ worse \in BOOLEAN
  /\ Len(daily) * PerDay <= Len(bars) /\ Len(bars) < (Len(daily) + 1) * PerDay

Init == bars = <<>> /\ daily = <<>> /\ above = FALSE /\ worse = FALSE

Last(chart) == chart[Len(chart)]

\* External: the daily bar the exchange makes of the 4H bars of the day.
DayOf(chart) ==
  LET day == (Len(chart) - PerDay + 1) .. Len(chart)
  IN  [high |-> Max({chart[i].high : i \in day}), low |-> Min({chart[i].low : i \in day}),
       close |-> Last(chart).close]

BarCloses(b) ==
  /\ bars' = Append(bars, b)
  /\ worse' \in BOOLEAN
  /\ IF Len(bars') % PerDay = 0
       THEN daily' = Append(daily, DayOf(bars')) /\ above' \in BOOLEAN
       ELSE UNCHANGED <<daily, above>>

Next == Len(bars) < Len(Charts) /\ \E b \in Charts[Len(bars) + 1] : BarCloses(b)

Spec == Init /\ [][Next]_vars
-----------------------------------------------------------------------------
(* findPivots: strict on the left, inclusive on the right. *)

Around(i) == ((i - Width) .. (i + Width)) \ {i}

\* Mutant of SwingHighs: a high counts before the bars on its right have closed.
SwingHighsUnconfirmed(chart) ==
  {i \in (Width + 1) .. Len(chart) :
     \A j \in Around(i) \cap DOMAIN chart :
       IF j < i THEN chart[j].high < chart[i].high ELSE chart[j].high <= chart[i].high}

SwingHighs(chart) ==
  {i \in (Width + 1) .. (Len(chart) - Width) :
     \A j \in Around(i) :
       IF j < i THEN chart[j].high < chart[i].high ELSE chart[j].high <= chart[i].high}

SwingLows(chart) ==
  {i \in (Width + 1) .. (Len(chart) - Width) :
     \A j \in Around(i) :
       IF j < i THEN chart[j].low > chart[i].low ELSE chart[j].low >= chart[i].low}
-----------------------------------------------------------------------------
(* readMarketStructure. *)

Latest(S)   == Max(S)
Previous(S) == Max(S \ {Max(S)})

Resistance == daily[Latest(SwingHighs(daily))].high
Support    == daily[Latest(SwingLows(daily))].low

\* MIN_SWINGS on each side, or there is no structure.
HasStructure == Cardinality(SwingHighs(daily)) >= 2 /\ Cardinality(SwingLows(daily)) >= 2

HigherHigh == Resistance > daily[Previous(SwingHighs(daily))].high
HigherLow  == Support > daily[Previous(SwingLows(daily))].low

\* The close beyond the swing that held the structure: the event, which makes the
\* trend sideways whatever the swings say.
UpBroken   == HigherLow /\ Last(daily).close < Support
DownBroken == ~HigherHigh /\ Last(daily).close > Resistance
Broken     == UpBroken \/ DownBroken

\* Mutant of Trend: what the last close has broken still counts.
TrendBySwings ==
  IF HigherHigh /\ HigherLow THEN "up" ELSE IF ~HigherHigh /\ ~HigherLow THEN "down" ELSE "sideways"

Trend ==
  IF ~Broken /\ HigherHigh /\ HigherLow THEN "up"
  ELSE IF ~Broken /\ ~HigherHigh /\ ~HigherLow THEN "down" ELSE "sideways"
-----------------------------------------------------------------------------
(* detectSetups. *)

Unit == 2 * AtrPeriod

TrueRange(i) ==
  LET before == bars[i - 1].close
      Apart(x, y) == IF x > y THEN x - y ELSE y - x
  IN  Max({bars[i].high - bars[i].low, Apart(bars[i].high, before), Apart(bars[i].low, before)})

\* averageTrueRange, times AtrPeriod: half of it in a Unit is half of the average.
TrueRanges == MapThenSumSet(TrueRange, (Len(bars) - AtrPeriod + 1) .. Len(bars))

\* isRejection
Rejects(b) ==
  LET range == b.high - b.low
      body  == IF b.open < b.close THEN b.open ELSE b.close
  IN  range > 0 /\ 10 * (body - b.low) >= 3 * range /\ 20 * (b.close - b.low) >= 11 * range

\* nextResistanceAbove: the structure's own high for a pullback, else the nearest
\* daily swing high above the price; none is no target.
Targets(own, price) ==
  LET highs == {daily[i].high : i \in SwingHighs(daily)}
      higher == {h \in highs : h > price}
  IN  IF own \cap higher # {} THEN own ELSE IF higher = {} THEN {} ELSE {Min(higher)}

\* finish: the plan in units, or none.
Finish(kind, level, own, stop) ==
  { [kind |-> kind, level |-> Unit * level, entry |-> Unit * Last(bars).close, stop |-> stop,
     target |-> Unit * t] : t \in
      {x \in Targets(own, Last(bars).close) :
         LET entry == Unit * Last(bars).close
         IN  stop < entry /\ Unit * x - entry >= MinReward * (entry - stop)} }

Touched == Min({Last(bars).low, bars[Len(bars) - 1].low})

\* Mutant of PullbackStop: under the level, wherever the wick went.
PullbackStopAtLevel == Unit * Support - TrueRanges

PullbackStop == Unit * Min({Support, Touched}) - TrueRanges

\* Dipped to within one average range of the latest daily swing low and rejected there.
Pullbacks ==
  LET before == bars[Len(bars) - 1]
  IN  IF /\ Trend = "up"
         /\ AtrPeriod * Touched <= AtrPeriod * Support + TrueRanges
         /\ AtrPeriod * Touched >= AtrPeriod * Support - TrueRanges
         /\ Last(bars).close > Support
         /\ Rejects(Last(bars)) \/ (Rejects(before) /\ Last(bars).close > Last(bars).open)
        THEN Finish("pullback", Support, {Resistance}, PullbackStop)
        ELSE {}

\* The bars of the window that closed over the level on volume.
Breakouts ==
  LET n == Len(bars)
      Usual(i) == MapThenSumSet(LAMBDA j : bars[j].volume, (i - Lookback) .. (i - 1))
  IN  {i \in Max({Lookback + 2, n - Window}) .. (n - 1) :
         /\ bars[i].close > Resistance /\ bars[i - 1].close <= Resistance
         /\ Usual(i) > 0 /\ 2 * Lookback * bars[i].volume >= 3 * Usual(i)}

\* The first of them, every close since above the level, and the level touched again.
Retests ==
  IF /\ Trend # "down"
     /\ Breakouts # {}
     /\ \A i \in (Min(Breakouts) + 1) .. Len(bars) : bars[i].close > Resistance
     /\ Unit * Last(bars).low <= Unit * Resistance + TrueRanges
     /\ Last(bars).close > Last(bars).open
    THEN Finish("breakout_retest", Resistance, {},
                Min({Unit * Resistance - 2 * TrueRanges, Unit * Last(bars).low - TrueRanges}))
    ELSE {}

Setups ==
  IF HasStructure /\ Len(bars) > AtrPeriod /\ TrueRanges > 0 /\ above /\ ~worse
    THEN Pullbacks \cup Retests
    ELSE {}
-----------------------------------------------------------------------------
(* Properties. *)

\* A confirmed swing is not redrawn by the bars that follow, and no swing appears
\* among those already read (findPivots): the levels a plan stands on stay where
\* they were.
Kept(chart, later) ==
  /\ SwingHighs(chart) = SwingHighs(later) \cap 1 .. (Len(chart) - Width)
  /\ SwingLows(chart) = SwingLows(later) \cap 1 .. (Len(chart) - Width)
  /\ \A i \in DOMAIN chart : later[i] = chart[i]

SwingsStand == [][Kept(daily, daily')]_vars

\* A plan can be carried out and judged: its stop is under the level and under the
\* bars it was read on, so that they have not decided it, its entry above the
\* level and under the target, its reward worth the risk; and a pullback stands
\* on a low no daily close has lost (detectSetups).
PlanIsSound ==
  \A p \in Setups :
    /\ p.stop < p.level /\ p.level < p.entry /\ p.entry < p.target
    /\ p.target - p.entry >= MinReward * (p.entry - p.stop)
    /\ p.stop < Unit * Last(bars).low
    /\ p.kind = "pullback" => /\ p.stop < Unit * bars[Len(bars) - 1].low
                              /\ Last(daily).close >= Support
=============================================================================
