---------------------------- MODULE SignalEngine ----------------------------
(***************************************************************************)
(* The signal engine: the ten rules run over the snapshot of one closed    *)
(* candle, and the severity and confidence of what fires.                  *)
(*                                                                         *)
(* A snapshot `s` is the MarketSnapshot with integers for its numbers:     *)
(*   price     [change, baseline, atr]: changePct, baselineAtrPct (0 for   *)
(*             null) and atrPct, in hundredths                             *)
(*   spot      [listed, skew, volume, basis]: whether it is there, and its *)
(*             cvdSkewRatio in hundredths, volumeRatio in tenths and       *)
(*             basisPct in hundredths                                      *)
(*   futures   [skew, volume]: the same of the futures leg                 *)
(*   interest  [change, velocity]: oiChangePct, oiVelocityPctPerHour       *)
(*   funding   fundingRatePct, in hundredths                               *)
(*   forced    [longs, shorts, usual]: liquidated in the window, and the   *)
(*             24 h average                                                *)
(*   quality   dataQuality.score                                           *)
(* The thresholds T are in the units of what they are compared with.       *)
(***************************************************************************)
EXTENDS Integers

CONSTANTS
  T,         \* the Thresholds
  Historical \* per signal type: its historical score, 50 while it has none

ASSUME ThresholdsAssumption ==
  /\ T \in [price : Nat, skew : Nat, oi : Nat, oiStrong : Nat, elevated : Nat, extreme : Nat,
            volumeElevated : Nat, volumeAbnormal : Nat, volumeExtreme : Nat,
            spike : Nat, basis : Nat, shock : Nat, shockMove : Nat]
  /\ T.price > 0 /\ T.skew > 0 /\ T.oi > 0 /\ T.elevated > 0 /\ T.extreme >= T.elevated
  /\ T.oiStrong >= T.oi /\ T.spike > 0 /\ T.basis > 0 /\ T.shock > 0 /\ T.shockMove > 0

Types ==
  {"LEVERAGED_RALLY", "SPOT_CONFIRMED_RALLY", "SHORT_COVERING_POSSIBLE",
   "SELLING_ABSORPTION_POSSIBLE", "BULLISH_SPOT_DIVERGENCE", "LONG_LIQUIDATION",
   "SHORT_LIQUIDATION", "LONG_CROWDING", "SHORT_CROWDING", "PRICE_SPIKE_UP", "PRICE_SPIKE_DOWN"}

ASSUME HistoricalAssumption == Historical \in [Types -> 0 .. 100]

\* SEVERITY_ORDER.
INFO == 0
LOW == 1
MEDIUM == 2
HIGH == 3
EXTREME == 4

Size(n) == IF n < 0 THEN -n ELSE n
Clamp(n, low, high) == IF n < low THEN low ELSE IF n > high THEN high ELSE n
Nearest(n, d) == (2 * n + d) \div (2 * d) \* Math.round(n / d)
One(b) == IF b THEN 1 ELSE 0
-----------------------------------------------------------------------------
(* Readings of the snapshot that rules ask for. *)

\* classifyFunding: elevated or extreme on one side, 1 the longs', -1 the shorts'.
Elevated(s, side) == side * s.funding >= T.elevated
Extreme(s, side)  == side * s.funding >= T.extreme
Neutral(s) == Size(s.funding) < T.elevated

\* classifyVolumeAnomaly, as a rank: normal, elevated, abnormal, extreme.
VolumeAnomaly(ratio) ==
  IF ratio >= T.volumeExtreme THEN 3
  ELSE IF ratio >= T.volumeAbnormal THEN 2
  ELSE One(ratio >= T.volumeElevated)

\* computeLiquidationAnomalyRatio is at least n; without an average it is 0.
Liquidated(s, n) ==
  IF s.forced.usual > 0 THEN s.forced.longs + s.forced.shorts >= n * s.forced.usual ELSE 0 >= n

Spike(s) == Liquidated(s, T.spike)

PriceUp(s)   == s.price.change >= T.price
PriceDown(s) == s.price.change <= -T.price
OiUp(s)      == s.interest.change >= T.oi
OiDown(s)    == s.interest.change <= -T.oi
-----------------------------------------------------------------------------
(* A rule fires a signal that carries its severity, how many of its optional *)
(* checks held, the value and threshold its magnitude is measured by, and    *)
(* the most confidence it may claim; or nothing.                             *)

Fired(type, guard, severity, confirmed, checks, value, threshold, cap) ==
  IF guard
  THEN {[type |-> type, severity |-> Clamp(severity, INFO, EXTREME), confirmed |-> confirmed,
         checks |-> checks, value |-> value, threshold |-> threshold, cap |-> cap]}
  ELSE {}

LeveragedRally(s) ==
  Fired("LEVERAGED_RALLY",
        s.spot.listed /\ PriceUp(s) /\ s.spot.skew <= -T.skew /\ s.futures.skew >= T.skew /\ OiUp(s),
        MEDIUM + One(Elevated(s, 1)) + One(Extreme(s, 1)),
        One(Elevated(s, 1)) + One(VolumeAnomaly(s.futures.volume) >= 2), 2,
        s.spot.skew, T.skew, 100)

\* Mutant of SpotConfirmedRally: measured by a threshold it does not apply.
SpotConfirmedRallyBySkew(s) ==
  Fired("SPOT_CONFIRMED_RALLY",
        /\ s.spot.listed /\ PriceUp(s) /\ s.spot.skew > 0 /\ s.futures.skew > 0
        /\ s.interest.change > 0 /\ s.interest.change < T.oiStrong /\ Neutral(s),
        INFO, 2, 2, s.spot.skew, T.skew, 100)

\* Mutant of SpotConfirmedRally: funding need not be neutral.
SpotConfirmedRallyAnyFunding(s) ==
  Fired("SPOT_CONFIRMED_RALLY",
        /\ s.spot.listed /\ PriceUp(s) /\ s.spot.skew > 0 /\ s.futures.skew > 0
        /\ s.interest.change > 0 /\ s.interest.change < T.oiStrong,
        INFO, One(s.spot.skew >= T.skew) + One(VolumeAnomaly(s.spot.volume) > 0), 2,
        s.price.change, T.price, 100)

SpotConfirmedRally(s) ==
  Fired("SPOT_CONFIRMED_RALLY",
        /\ s.spot.listed /\ PriceUp(s) /\ s.spot.skew > 0 /\ s.futures.skew > 0
        /\ s.interest.change > 0 /\ s.interest.change < T.oiStrong /\ Neutral(s),
        INFO, One(s.spot.skew >= T.skew) + One(VolumeAnomaly(s.spot.volume) > 0), 2,
        s.price.change, T.price, 100)

ShortCoveringPossible(s) ==
  Fired("SHORT_COVERING_POSSIBLE",
        PriceUp(s) /\ OiDown(s) /\ s.futures.skew >= T.skew,
        LOW, 1, 1, s.interest.change, T.oi, 65)

SellingAbsorptionPossible(s) ==
  LET confirms == VolumeAnomaly(s.spot.volume) >= 2
  IN  Fired("SELLING_ABSORPTION_POSSIBLE",
            s.spot.listed /\ s.spot.skew <= -T.skew /\ Size(s.price.change) < T.price,
            LOW, One(confirms), 1, s.spot.skew, T.skew, IF confirms THEN 60 ELSE 45)

BullishSpotDivergence(s) ==
  Fired("BULLISH_SPOT_DIVERGENCE",
        s.spot.listed /\ PriceDown(s) /\ s.spot.skew >= T.skew,
        MEDIUM, One(s.futures.skew > 0), 1, s.spot.skew, T.skew, 100)

\* What both liquidation rules share; the magnitude is the anomaly ratio.
Liquidation(type, s, moved, skewed) ==
  LET extreme == Liquidated(s, 2 * T.spike)
  IN  Fired(type, moved /\ OiDown(s) /\ Spike(s) /\ skewed,
            HIGH + One(extreme), One(extreme), 1,
            s.forced.longs + s.forced.shorts, T.spike * s.forced.usual, 100)

LongLiquidation(s) ==
  Liquidation("LONG_LIQUIDATION", s, PriceDown(s), s.forced.longs > s.forced.shorts)

\* Mutant of ShortLiquidation: a liquidation of both sides alike counts too.
ShortLiquidationOrEven(s) ==
  Liquidation("SHORT_LIQUIDATION", s, PriceUp(s), s.forced.shorts >= s.forced.longs)

ShortLiquidation(s) ==
  Liquidation("SHORT_LIQUIDATION", s, PriceUp(s), s.forced.shorts > s.forced.longs)

Crowding(type, s, side) ==
  Fired(type, Elevated(s, side) /\ OiUp(s),
        IF Extreme(s, side) THEN HIGH ELSE MEDIUM, One(Extreme(s, side)), 1,
        s.funding, T.elevated, 100)

LongCrowding(s)  == Crowding("LONG_CROWDING", s, 1)
ShortCrowding(s) == Crowding("SHORT_CROWDING", s, -1)

\* The move against the baseline, which is multiplied out: no division.
Shock(s, n) == Size(s.price.change) >= n * s.price.baseline

PriceShock(s) ==
  Fired(IF s.price.change > 0 THEN "PRICE_SPIKE_UP" ELSE "PRICE_SPIKE_DOWN",
        s.price.baseline > 0 /\ Size(s.price.change) >= T.shockMove /\ Shock(s, T.shock),
        \* twice the multiple is two steps, one and a half is one
        MEDIUM + (One(2 * Size(s.price.change) >= 3 * T.shock * s.price.baseline)
                  + One(Shock(s, 2 * T.shock))),
        One(s.futures.volume >= T.volumeElevated) + One(Spike(s)), 2,
        Size(s.price.change), T.shock * s.price.baseline, 100)

\* evaluateSignals: every rule on its own, no winner among them.
Signals(s) ==
  LeveragedRally(s) \cup SpotConfirmedRally(s) \cup ShortCoveringPossible(s)
    \cup SellingAbsorptionPossible(s) \cup BullishSpotDivergence(s)
    \cup LongLiquidation(s) \cup ShortLiquidation(s)
    \cup LongCrowding(s) \cup ShortCrowding(s) \cup PriceShock(s)

TypesIn(signals) == {x.type : x \in signals}
-----------------------------------------------------------------------------
(* Confidence. *)

Confirmation(x) == IF x.checks <= 0 THEN 50 ELSE Nearest(100 * x.confirmed, x.checks)

\* magnitudeFromRatio: 20 at the threshold, 100 at three times it.
Magnitude(x) ==
  IF x.threshold = 0 THEN 50
  ELSE Nearest(Clamp(40 * Size(x.value) - 20 * x.threshold, 20 * x.threshold, 100 * x.threshold),
               x.threshold)

\* computeConfidence with CONFIDENCE_WEIGHTS, and the rule's cap.
Confidence(x, s) ==
  LET raw == 25 * s.quality + 30 * Confirmation(x) + 25 * Magnitude(x) + 20 * Historical[x.type]
  IN  Clamp(Nearest(Clamp(raw, 0, 10000), 100), 0, x.cap)
=============================================================================
