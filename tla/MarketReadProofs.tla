-------------------------- MODULE MarketReadProofs --------------------------
(***************************************************************************)
(* Proofs about the engines, for all thresholds and all readings.          *)
(***************************************************************************)
EXTENDS MarketChart, Sequences, FiniteSetTheorems, WellFoundedInduction, TLAPS

\* Every step leaves a snapshot: the fields keep their types.
THEOREM SnapshotsTyped == Spec => [](market \in Snapshots)
<1>1. Init => market \in Snapshots
  BY ReadingsAssumption DEF Init, Readings, Snapshots
<1>2. market \in Snapshots /\ [Next]_market => (market \in Snapshots)'
  <2> SUFFICES ASSUME market \in Snapshots, [Next]_market
               PROVE  market' \in Snapshots
    OBVIOUS
  <2> USE ReadingsAssumption DEF Snapshots
  <2>1. CASE PriceMoves BY <2>1 DEF PriceMoves
  <2>2. CASE SpotMoves BY <2>2 DEF SpotMoves
  <2>3. CASE FuturesMove BY <2>3 DEF FuturesMove
  <2>4. CASE OpenInterestMoves BY <2>4 DEF OpenInterestMoves
  <2>5. CASE FundingMoves BY <2>5 DEF FundingMoves
  <2>6. CASE LiquidationsMove BY <2>6 DEF LiquidationsMove
  <2>7. CASE QualityMoves BY <2>7 DEF QualityMoves
  <2>8. CASE UNCHANGED market BY <2>8
  <2> QED BY <2>1, <2>2, <2>3, <2>4, <2>5, <2>6, <2>7, <2>8 DEF Next
<1> QED BY <1>1, <1>2, PTL DEF Spec
-----------------------------------------------------------------------------
(* What a signal of each type says of the snapshot it fired on. *)

\* The part of the guard of x's rule that the theorems use, and its magnitude.
Says(x, s) ==
  CASE x.type = "LEVERAGED_RALLY" ->
         PriceUp(s) /\ OiUp(s) /\ s.spot.skew <= -T.skew /\ x.value = s.spot.skew /\ x.threshold = T.skew
    [] x.type = "SPOT_CONFIRMED_RALLY" ->
         /\ PriceUp(s) /\ s.spot.skew > 0 /\ s.interest.change > 0 /\ Neutral(s)
         /\ x.value = s.price.change /\ x.threshold = T.price
    [] x.type = "SHORT_COVERING_POSSIBLE" ->
         PriceUp(s) /\ OiDown(s) /\ x.value = s.interest.change /\ x.threshold = T.oi
    [] x.type = "SELLING_ABSORPTION_POSSIBLE" ->
         s.spot.skew <= -T.skew /\ Size(s.price.change) < T.price /\ x.value = s.spot.skew /\ x.threshold = T.skew
    [] x.type = "BULLISH_SPOT_DIVERGENCE" ->
         PriceDown(s) /\ s.spot.skew >= T.skew /\ x.value = s.spot.skew /\ x.threshold = T.skew
    [] x.type = "LONG_LIQUIDATION" ->
         /\ PriceDown(s) /\ OiDown(s) /\ s.forced.longs > s.forced.shorts
         /\ x.value = s.forced.longs + s.forced.shorts /\ x.threshold = T.spike * s.forced.usual
         /\ Spike(s)
    [] x.type = "SHORT_LIQUIDATION" ->
         /\ PriceUp(s) /\ OiDown(s) /\ s.forced.shorts > s.forced.longs
         /\ x.value = s.forced.longs + s.forced.shorts /\ x.threshold = T.spike * s.forced.usual
         /\ Spike(s)
    [] x.type = "LONG_CROWDING" ->
         Elevated(s, 1) /\ x.value = s.funding /\ x.threshold = T.elevated
    [] x.type = "SHORT_CROWDING" ->
         Elevated(s, -1) /\ x.value = s.funding /\ x.threshold = T.elevated
    [] x.type \in {"PRICE_SPIKE_UP", "PRICE_SPIKE_DOWN"} ->
         /\ (x.type = "PRICE_SPIKE_UP") = (s.price.change > 0)
         /\ s.price.baseline > 0 /\ Shock(s, T.shock)
         /\ x.value = Size(s.price.change) /\ x.threshold = T.shock * s.price.baseline
    [] OTHER -> FALSE

\* Every signal says so: it comes from the one rule of its type.
LEMMA WhatIsSaid ==
  ASSUME NEW s \in Snapshots, NEW x \in Signals(s)
  PROVE  Says(x, s)
<1>1. CASE x \in LeveragedRally(s)
  BY <1>1 DEF LeveragedRally, Fired, Says
<1>2. CASE x \in SpotConfirmedRally(s)
  BY <1>2 DEF SpotConfirmedRally, Fired, Says
<1>3. CASE x \in ShortCoveringPossible(s)
  BY <1>3 DEF ShortCoveringPossible, Fired, Says
<1>4. CASE x \in SellingAbsorptionPossible(s)
  BY <1>4 DEF SellingAbsorptionPossible, Fired, Says
<1>5. CASE x \in BullishSpotDivergence(s)
  BY <1>5 DEF BullishSpotDivergence, Fired, Says
<1>6. CASE x \in LongLiquidation(s)
  BY <1>6 DEF LongLiquidation, Liquidation, Fired, Says
<1>7. CASE x \in ShortLiquidation(s)
  BY <1>7 DEF ShortLiquidation, Liquidation, Fired, Says
<1>8. CASE x \in LongCrowding(s)
  BY <1>8 DEF LongCrowding, Crowding, Fired, Says
<1>9. CASE x \in ShortCrowding(s)
  BY <1>9 DEF ShortCrowding, Crowding, Fired, Says
<1>10. CASE x \in PriceShock(s)
  BY <1>10 DEF PriceShock, Fired, Says
<1> QED
  BY <1>1, <1>2, <1>3, <1>4, <1>5, <1>6, <1>7, <1>8, <1>9, <1>10 DEF Signals
-----------------------------------------------------------------------------
(* No snapshot is read both ways. *)

\* What the first of two signals says of the snapshot keeps the second from firing.
LEMMA TwoSignals ==
  ASSUME NEW s \in Snapshots, NEW x \in Signals(s), NEW y \in Signals(s)
  PROVE  /\ x.type = "LONG_LIQUIDATION" =>
              y.type \notin {"SHORT_LIQUIDATION", "SHORT_COVERING_POSSIBLE"}
         /\ x.type = "SPOT_CONFIRMED_RALLY" =>
              /\ y.type \notin {"SHORT_COVERING_POSSIBLE", "SELLING_ABSORPTION_POSSIBLE"}
              /\ y.type \notin NegativeTypes
         /\ x.type = "LONG_CROWDING" => y.type # "SHORT_CROWDING"
         /\ x.type = "PRICE_SPIKE_UP" => y.type # "PRICE_SPIKE_DOWN"
         /\ x.type = "LEVERAGED_RALLY" => y.type # "BULLISH_SPOT_DIVERGENCE"
<1>1. Says(x, s) /\ Says(y, s)
  BY WhatIsSaid
<1> USE ThresholdsAssumption
    DEF Snapshots, PriceUp, PriceDown, OiUp, OiDown, Elevated, Neutral, Size, NegativeTypes
<1>2. CASE x.type = "LONG_LIQUIDATION"
  BY <1>1, <1>2 DEF Says
<1>3. CASE x.type = "SPOT_CONFIRMED_RALLY"
  BY <1>1, <1>3 DEF Says
<1>4. CASE x.type = "LONG_CROWDING"
  BY <1>1, <1>4 DEF Says
<1>5. CASE x.type = "PRICE_SPIKE_UP"
  BY <1>1, <1>5 DEF Says
<1>6. CASE x.type = "LEVERAGED_RALLY"
  BY <1>1, <1>6 DEF Says
<1> QED
  BY <1>2, <1>3, <1>4, <1>5, <1>6

\* evaluateSignals: on no snapshot whatever do two types that contradict fire together.
THEOREM NeverContradicts == Spec => []NoContradiction
<1>1. ASSUME market \in Snapshots
      PROVE  NoContradiction
  <2> SUFFICES ASSUME NEW pair \in Contradictions, pair \subseteq TypesIn(Signals(market))
               PROVE  FALSE
    BY DEF NoContradiction
  <2> DEFINE Fires(a, b) ==
        \E x, y \in Signals(market) : x.type = a /\ y.type = b
  <2>1. \A a, b : pair = {a, b} => Fires(a, b)
    BY DEF TypesIn
  <2>2. ~Fires("LONG_LIQUIDATION", "SHORT_LIQUIDATION")
        /\ ~Fires("LONG_LIQUIDATION", "SHORT_COVERING_POSSIBLE")
        /\ ~Fires("LONG_CROWDING", "SHORT_CROWDING")
        /\ ~Fires("PRICE_SPIKE_UP", "PRICE_SPIKE_DOWN")
        /\ ~Fires("LEVERAGED_RALLY", "BULLISH_SPOT_DIVERGENCE")
        /\ ~Fires("SPOT_CONFIRMED_RALLY", "SHORT_COVERING_POSSIBLE")
        /\ ~Fires("SPOT_CONFIRMED_RALLY", "SELLING_ABSORPTION_POSSIBLE")
    BY <1>1, TwoSignals
  <2>3. \A t \in NegativeTypes : ~Fires("SPOT_CONFIRMED_RALLY", t)
    BY <1>1, TwoSignals
  <2> HIDE DEF Fires
  <2>4. CASE pair \in { {"SPOT_CONFIRMED_RALLY", t} : t \in NegativeTypes }
    BY <2>1, <2>3, <2>4
  <2>5. CASE pair \notin { {"SPOT_CONFIRMED_RALLY", t} : t \in NegativeTypes }
    <3>1. \/ pair = {"LONG_LIQUIDATION", "SHORT_LIQUIDATION"}
          \/ pair = {"LONG_LIQUIDATION", "SHORT_COVERING_POSSIBLE"}
          \/ pair = {"LONG_CROWDING", "SHORT_CROWDING"}
          \/ pair = {"PRICE_SPIKE_UP", "PRICE_SPIKE_DOWN"}
          \/ pair = {"LEVERAGED_RALLY", "BULLISH_SPOT_DIVERGENCE"}
          \/ pair = {"SPOT_CONFIRMED_RALLY", "SHORT_COVERING_POSSIBLE"}
          \/ pair = {"SPOT_CONFIRMED_RALLY", "SELLING_ABSORPTION_POSSIBLE"}
      BY <2>5 DEF Contradictions
    <3> QED BY <3>1, <2>1, <2>2
  <2> QED BY <2>4, <2>5
<1> QED BY <1>1, SnapshotsTyped, PTL
-----------------------------------------------------------------------------
(* Magnitudes. *)

\* buildSignal: whatever fires has passed the threshold its magnitude is measured by,
\* whatever the thresholds are.
THEOREM MagnitudesAreGated == Spec => []GatedByItsMagnitude
<1>1. ASSUME market \in Snapshots, NEW x \in Signals(market)
      PROVE  x.threshold > 0 /\ Size(x.value) >= x.threshold
  <2>1. Says(x, market)
    BY <1>1, WhatIsSaid
  <2> USE ThresholdsAssumption DEF Snapshots, Size
  <2>2. CASE x.type \in {"LEVERAGED_RALLY", "SPOT_CONFIRMED_RALLY", "SHORT_COVERING_POSSIBLE",
                         "SELLING_ABSORPTION_POSSIBLE", "BULLISH_SPOT_DIVERGENCE"}
    BY <1>1, <2>1, <2>2 DEF Says, PriceUp, OiDown
  <2>3. CASE x.type \in {"LONG_LIQUIDATION", "SHORT_LIQUIDATION"}
    <3>1. Spike(market) /\ x.value = market.forced.longs + market.forced.shorts
          /\ x.threshold = T.spike * market.forced.usual
      BY <2>1, <2>3 DEF Says
    <3>2. market.forced.usual > 0 /\ x.value >= x.threshold
      BY <1>1, <3>1 DEF Spike, Liquidated
    <3>3. T.spike \in Nat \ {0} /\ market.forced.usual \in Nat \ {0}
      BY <1>1, <3>2
    <3>4. T.spike * market.forced.usual > 0
      BY <3>3
    <3> QED BY <1>1, <3>1, <3>2, <3>4
  <2>4. CASE x.type \in {"LONG_CROWDING", "SHORT_CROWDING"}
    BY <1>1, <2>1, <2>4 DEF Says, Elevated
  <2>5. CASE x.type \in {"PRICE_SPIKE_UP", "PRICE_SPIKE_DOWN"}
    <3>1. /\ market.price.baseline > 0 /\ Shock(market, T.shock)
          /\ x.value = Size(market.price.change) /\ x.threshold = T.shock * market.price.baseline
      BY <2>1, <2>5 DEF Says
    <3>2. T.shock \in Nat \ {0} /\ market.price.baseline \in Nat \ {0} /\ market.price.change \in Int
      BY <1>1, <3>1
    <3>3. T.shock * market.price.baseline > 0
      BY <3>2
    <3> QED BY <3>1, <3>2, <3>3 DEF Shock
  <2> QED BY <2>1, <2>2, <2>3, <2>4, <2>5 DEF Says
<1>2. market \in Snapshots => GatedByItsMagnitude
  BY <1>1 DEF GatedByItsMagnitude
<1> QED BY <1>2, SnapshotsTyped, PTL
-----------------------------------------------------------------------------
(* The two sides of the market. *)

\* The reversed snapshot is one too, and its fields are these.
LEMMA ReversedFields ==
  ASSUME NEW s \in Snapshots
  PROVE  /\ Reversed(s).price.change = -s.price.change
         /\ Reversed(s).price.baseline = s.price.baseline
         /\ Reversed(s).funding = -s.funding
         /\ Reversed(s).interest = s.interest
         /\ Reversed(s).futures = s.futures
         /\ Reversed(s).forced.longs = s.forced.shorts
         /\ Reversed(s).forced.shorts = s.forced.longs
         /\ Reversed(s).forced.usual = s.forced.usual
  BY DEF Reversed, Snapshots

\* Readings of size are the same on both sides, readings of a side change it.
LEMMA ReversedReadings ==
  ASSUME NEW s \in Snapshots
  PROVE  /\ \A n \in Int : Liquidated(Reversed(s), n) = Liquidated(s, n)
         /\ \A n \in Int : Shock(Reversed(s), n) = Shock(s, n)
         /\ Size(Reversed(s).price.change) = Size(s.price.change)
         /\ OiUp(Reversed(s)) = OiUp(s) /\ OiDown(Reversed(s)) = OiDown(s)
         /\ PriceUp(Reversed(s)) = PriceDown(s) /\ PriceDown(Reversed(s)) = PriceUp(s)
         /\ \A side \in {1, -1} :
              Elevated(Reversed(s), side) = Elevated(s, -side)
              /\ Extreme(Reversed(s), side) = Extreme(s, -side)
<1>1. /\ s.price.change \in Int /\ s.funding \in Int /\ s.price.baseline \in Nat
      /\ s.forced.longs \in Nat /\ s.forced.shorts \in Nat
  BY DEF Snapshots
<1>2. T.price \in Nat /\ T.elevated \in Nat /\ T.extreme \in Nat
  BY ThresholdsAssumption
<1>3. \A n \in Int : Liquidated(Reversed(s), n) = Liquidated(s, n)
  BY <1>1, ReversedFields DEF Liquidated
<1>4. Size(Reversed(s).price.change) = Size(s.price.change)
  BY <1>1, ReversedFields DEF Size
<1>5. \A n \in Int : Shock(Reversed(s), n) = Shock(s, n)
  BY <1>4, ReversedFields DEF Shock
<1>6. OiUp(Reversed(s)) = OiUp(s) /\ OiDown(Reversed(s)) = OiDown(s)
  BY ReversedFields DEF OiUp, OiDown
<1>7. PriceUp(Reversed(s)) = PriceDown(s) /\ PriceDown(Reversed(s)) = PriceUp(s)
  BY <1>1, <1>2, ReversedFields DEF PriceUp, PriceDown
<1>8. \A side \in {1, -1} :
        Elevated(Reversed(s), side) = Elevated(s, -side)
        /\ Extreme(Reversed(s), side) = Extreme(s, -side)
  BY <1>1, <1>2, ReversedFields DEF Elevated, Extreme
<1> QED BY <1>3, <1>4, <1>5, <1>6, <1>7, <1>8

\* longLiquidation and shortLiquidation, longCrowding and shortCrowding, and the two
\* sides of priceShock are mirrors of one another on every snapshot.
THEOREM RulesMirror == Spec => []Mirrored
<1>1. ASSUME market \in Snapshots, NEW x \in Signals(market), x.type \in DOMAIN Opposite
      PROVE  \E y \in Signals(Reversed(market)) :
               y.type = Opposite[x.type] /\ y.severity = x.severity /\ y.confirmed = x.confirmed
  <2> DEFINE r == Reversed(market)
             Same(y) == y.type = Opposite[x.type] /\ y.severity = x.severity /\ y.confirmed = x.confirmed
  <2>1. /\ x.type \in {"LONG_LIQUIDATION", "SHORT_LIQUIDATION", "LONG_CROWDING",
                       "SHORT_CROWDING", "PRICE_SPIKE_UP", "PRICE_SPIKE_DOWN"}
        /\ T.spike \in Nat /\ T.shock \in Nat
    BY <1>1, ThresholdsAssumption DEF Opposite
  <2>2. CASE x \in LongLiquidation(market)
    <3> DEFINE extreme == Liquidated(market, 2 * T.spike)
    <3>1. /\ x.type = "LONG_LIQUIDATION" /\ x.confirmed = One(extreme)
          /\ x.severity = Clamp(HIGH + One(extreme), INFO, EXTREME)
          /\ PriceDown(market) /\ OiDown(market) /\ Spike(market)
          /\ market.forced.longs > market.forced.shorts
      BY <2>2 DEF LongLiquidation, Liquidation, Fired
    <3>2. /\ PriceUp(r) /\ OiDown(r) /\ Spike(r) /\ r.forced.shorts > r.forced.longs
          /\ Liquidated(r, 2 * T.spike) = extreme
      BY <1>1, <2>1, <3>1, ReversedFields, ReversedReadings DEF Spike
    <3>3. \E y \in ShortLiquidation(r) :
            /\ y.type = "SHORT_LIQUIDATION" /\ y.confirmed = One(extreme)
            /\ y.severity = Clamp(HIGH + One(extreme), INFO, EXTREME)
      BY <3>2 DEF ShortLiquidation, Liquidation, Fired
    <3> QED BY <3>1, <3>3 DEF Signals, Opposite
  <2>3. CASE x \in ShortLiquidation(market)
    <3> DEFINE extreme == Liquidated(market, 2 * T.spike)
    <3>1. /\ x.type = "SHORT_LIQUIDATION" /\ x.confirmed = One(extreme)
          /\ x.severity = Clamp(HIGH + One(extreme), INFO, EXTREME)
          /\ PriceUp(market) /\ OiDown(market) /\ Spike(market)
          /\ market.forced.shorts > market.forced.longs
      BY <2>3 DEF ShortLiquidation, Liquidation, Fired
    <3>2. /\ PriceDown(r) /\ OiDown(r) /\ Spike(r) /\ r.forced.longs > r.forced.shorts
          /\ Liquidated(r, 2 * T.spike) = extreme
      BY <1>1, <2>1, <3>1, ReversedFields, ReversedReadings DEF Spike
    <3>3. \E y \in LongLiquidation(r) :
            /\ y.type = "LONG_LIQUIDATION" /\ y.confirmed = One(extreme)
            /\ y.severity = Clamp(HIGH + One(extreme), INFO, EXTREME)
      BY <3>2 DEF LongLiquidation, Liquidation, Fired
    <3> QED BY <3>1, <3>3 DEF Signals, Opposite
  <2>4. CASE x \in LongCrowding(market)
    <3>1. /\ x.type = "LONG_CROWDING" /\ Elevated(market, 1) /\ OiUp(market)
          /\ x.confirmed = One(Extreme(market, 1))
          /\ x.severity = Clamp(IF Extreme(market, 1) THEN HIGH ELSE MEDIUM, INFO, EXTREME)
      BY <2>4 DEF LongCrowding, Crowding, Fired
    <3>2. /\ Elevated(r, -1) /\ OiUp(r)
          /\ Extreme(r, -1) = Extreme(market, 1)
      BY <1>1, <3>1, ReversedReadings
    <3>3. \E y \in ShortCrowding(r) :
            /\ y.type = "SHORT_CROWDING" /\ y.confirmed = One(Extreme(market, 1))
            /\ y.severity = Clamp(IF Extreme(market, 1) THEN HIGH ELSE MEDIUM, INFO, EXTREME)
      BY <3>2 DEF ShortCrowding, Crowding, Fired
    <3> QED BY <3>1, <3>3 DEF Signals, Opposite
  <2>5. CASE x \in ShortCrowding(market)
    <3>1. /\ x.type = "SHORT_CROWDING" /\ Elevated(market, -1) /\ OiUp(market)
          /\ x.confirmed = One(Extreme(market, -1))
          /\ x.severity = Clamp(IF Extreme(market, -1) THEN HIGH ELSE MEDIUM, INFO, EXTREME)
      BY <2>5 DEF ShortCrowding, Crowding, Fired
    <3>2. /\ Elevated(r, 1) /\ OiUp(r)
          /\ Extreme(r, 1) = Extreme(market, -1)
      BY <1>1, <3>1, ReversedReadings
    <3>3. \E y \in LongCrowding(r) :
            /\ y.type = "LONG_CROWDING" /\ y.confirmed = One(Extreme(market, -1))
            /\ y.severity = Clamp(IF Extreme(market, -1) THEN HIGH ELSE MEDIUM, INFO, EXTREME)
      BY <3>2 DEF LongCrowding, Crowding, Fired
    <3> QED BY <3>1, <3>3 DEF Signals, Opposite
  <2>6. CASE x \in PriceShock(market)
    <3> DEFINE Checks(s) == One(s.futures.volume >= T.volumeElevated) + One(Spike(s))
               Steps(s)  == One(2 * Size(s.price.change) >= 3 * T.shock * s.price.baseline)
                              + One(Shock(s, 2 * T.shock))
    <3>1. /\ x.type = IF market.price.change > 0 THEN "PRICE_SPIKE_UP" ELSE "PRICE_SPIKE_DOWN"
          /\ market.price.baseline > 0 /\ Size(market.price.change) >= T.shockMove
          /\ Shock(market, T.shock)
          /\ x.confirmed = Checks(market)
          /\ x.severity = Clamp(MEDIUM + Steps(market), INFO, EXTREME)
      BY <2>6 DEF PriceShock, Fired
    <3>2. market.price.change > 0 \/ market.price.change < 0
      BY <1>1, <3>1, ThresholdsAssumption DEF Size, Snapshots
    <3>3. /\ r.price.change = -market.price.change /\ r.price.baseline = market.price.baseline
          /\ Size(r.price.change) = Size(market.price.change) /\ r.futures = market.futures
          /\ Shock(r, T.shock) = Shock(market, T.shock)
          /\ Shock(r, 2 * T.shock) = Shock(market, 2 * T.shock)
          /\ Spike(r) = Spike(market)
      BY <1>1, <2>1, ReversedFields, ReversedReadings DEF Spike
    <3>4. \E y \in PriceShock(r) :
            /\ y.type = IF r.price.change > 0 THEN "PRICE_SPIKE_UP" ELSE "PRICE_SPIKE_DOWN"
            /\ y.confirmed = Checks(market)
            /\ y.severity = Clamp(MEDIUM + Steps(market), INFO, EXTREME)
      BY <3>1, <3>3 DEF PriceShock, Fired
    <3>5. (r.price.change > 0) = ~(market.price.change > 0)
      BY <1>1, <3>2, <3>3 DEF Snapshots
    <3> QED BY <3>1, <3>4, <3>5 DEF Signals, Opposite
  <2>7. x \notin LeveragedRally(market) /\ x \notin SpotConfirmedRally(market)
        /\ x \notin ShortCoveringPossible(market) /\ x \notin SellingAbsorptionPossible(market)
        /\ x \notin BullishSpotDivergence(market)
    BY <2>1 DEF LeveragedRally, SpotConfirmedRally, ShortCoveringPossible,
                SellingAbsorptionPossible, BullishSpotDivergence, Fired
  <2> QED BY <2>2, <2>3, <2>4, <2>5, <2>6, <2>7 DEF Signals
<1>2. market \in Snapshots => Mirrored
  BY <1>1 DEF Mirrored
<1> QED BY <1>2, SnapshotsTyped, PTL
-----------------------------------------------------------------------------
(* The scores. *)

\* A quotient is a whole number,
LEMMA QuotientIsInt ==
  ASSUME NEW a \in Int, NEW b \in Nat \ {0}
  PROVE  a \div b \in Int
OBVIOUS

\* so is a rounded one,
LEMMA NearestIsInt ==
  ASSUME NEW a \in Int, NEW b \in Nat \ {0}
  PROVE  Nearest(a, b) \in Int
<1>1. 2 * a + b \in Int /\ 2 * b \in Nat \ {0}
  OBVIOUS
<1> QED BY <1>1, QuotientIsInt DEF Nearest

\* and rounding to whole points keeps the order.
LEMMA NearestGrows ==
  ASSUME NEW a \in Int, NEW b \in Int, a <= b
  PROVE  Nearest(a, 100) <= Nearest(b, 100)
BY DEF Nearest

\* What is clamped is in its range.
LEMMA ClampedInRange ==
  ASSUME NEW n \in Int, NEW low \in Int, NEW high \in Int, low <= high
  PROVE  Clamp(n, low, high) \in low .. high
BY DEF Clamp

\* The thresholds are positive numbers.
LEMMA Thresholds ==
  /\ {T.price, T.skew, T.oi, T.oiStrong, T.elevated, T.extreme, T.spike, T.basis, T.shock,
      T.shockMove} \subseteq Nat \ {0}
  /\ {T.volumeElevated, T.volumeAbnormal, T.volumeExtreme} \subseteq Nat
  /\ T.extreme >= T.elevated /\ T.oiStrong >= T.oi
BY ThresholdsAssumption

\* The readings are numbers.
LEMMA ReadingsTyped ==
  ASSUME NEW s \in Snapshots
  PROVE  /\ {s.price.change, s.spot.skew, s.spot.basis, s.futures.skew, s.interest.change,
             s.interest.velocity, s.funding} \subseteq Int
         /\ {s.price.baseline, s.price.atr, s.spot.volume, s.futures.volume, s.forced.longs,
             s.forced.shorts, s.forced.usual} \subseteq Nat
         /\ s.spot.listed \in BOOLEAN /\ s.quality \in 0 .. 100
BY DEF Snapshots

\* The anomaly of a volume is one of four.
LEMMA AnomalyIsRank == ASSUME NEW ratio PROVE VolumeAnomaly(ratio) \in {0, 1, 2, 3}
BY DEF VolumeAnomaly, One

\* computeHealthComponents: each of the eight parts lies between 0 and 100.
LEMMA HealthInRange ==
  ASSUME NEW s \in Snapshots, NEW types
  PROVE  /\ SpotConfirmationScore(s) \in 0 .. 100 /\ FuturesPositioningScore(s) \in 0 .. 100
         /\ OpenInterestScore(s) \in 0 .. 100 /\ FundingScore(s) \in 0 .. 100
         /\ LiquidationScore(s) \in 0 .. 100 /\ VolumeScore(s.spot.volume) \in 0 .. 100
         /\ StructureScore(s) \in 0 .. 100 /\ DivergenceScore(types) \in 0 .. 100
<1>1. SpotConfirmationScore(s) \in 0 .. 100
  <2> DEFINE agreement == IF s.price.change < 0 THEN -s.spot.skew ELSE s.spot.skew
  <2>1. agreement \in Int /\ 20 * s.spot.skew \in Int /\ 40 * agreement \in Int
    BY ReadingsTyped
  <2> HIDE DEF agreement
  <2>2. 50 + (20 * s.spot.skew) \div T.skew \in Int /\ 50 + (40 * agreement) \div T.skew \in Int
    BY <2>1, Thresholds, QuotientIsInt
  <2>3. /\ Clamp(50 + (20 * s.spot.skew) \div T.skew, 0, 100) \in 0 .. 100
        /\ Clamp(50 + (40 * agreement) \div T.skew, 0, 100) \in 0 .. 100
    BY <2>2 DEF Clamp
  <2> QED BY <2>3 DEF SpotConfirmationScore, agreement
<1>2. FuturesPositioningScore(s) \in 0 .. 100
  <2>1. 25 * s.spot.skew * s.futures.skew \in Int /\ T.skew * T.skew \in Nat \ {0}
    BY ReadingsTyped, Thresholds
  <2>2. 50 + (25 * s.spot.skew * s.futures.skew) \div (T.skew * T.skew) \in Int
    BY <2>1, QuotientIsInt
  <2> QED BY <2>2 DEF Clamp, FuturesPositioningScore
<1>3. OpenInterestScore(s) \in 0 .. 100
  <2> DEFINE span == IF T.oiStrong = T.oi THEN 1 ELSE T.oiStrong - T.oi
             over == 60 * (Size(s.interest.change) - T.oi)
  <2>1. span \in Nat \ {0} /\ over \in Int
    BY ReadingsTyped, Thresholds DEF Size
  <2> HIDE DEF span, over
  <2>2. 80 - over \div span \in Int
    BY <2>1, QuotientIsInt
  <2>3. Clamp(80 - over \div span, 10, 80) \in 10 .. 80
    BY <2>2 DEF Clamp
  <2>4. OpenInterestScore(s) = 80 \/ OpenInterestScore(s) = Clamp(80 - over \div span, 10, 80)
    BY DEF OpenInterestScore, span, over
  <2> QED BY <2>3, <2>4
<1>4. FundingScore(s) \in 0 .. 100
  BY DEF FundingScore, ByFunding
<1>5. LiquidationScore(s) \in 0 .. 100
  <2> DEFINE spikeAt == T.spike * s.forced.usual
             over    == 50 * (s.forced.longs + s.forced.shorts - spikeAt)
  <2>1. CASE Spike(s)
    <3>1. s.forced.usual \in Nat \ {0}
      BY <2>1, ReadingsTyped, Thresholds DEF Spike, Liquidated
    <3>2. spikeAt \in Nat \ {0}
      BY <3>1, Thresholds
    <3> HIDE DEF spikeAt
    <3>3. over \in Int
      BY <3>2, ReadingsTyped
    <3> HIDE DEF over
    <3>4. 85 - over \div spikeAt \in Int
      BY <3>2, <3>3, QuotientIsInt
    <3>5. Clamp(85 - over \div spikeAt, 10, 85) \in 10 .. 85
      BY <3>4 DEF Clamp
    <3>6. LiquidationScore(s) = Clamp(85 - over \div spikeAt, 10, 85)
      BY <2>1 DEF LiquidationScore, spikeAt, over
    <3> QED BY <3>5, <3>6
  <2>2. CASE ~Spike(s)
    BY <2>2 DEF LiquidationScore
  <2> QED BY <2>1, <2>2
<1>6. VolumeScore(s.spot.volume) \in 0 .. 100
  BY AnomalyIsRank DEF VolumeScore
<1>7. StructureScore(s) \in 0 .. 100
  <2>1. (8 * s.price.atr) \div 100 \in Int
    BY ReadingsTyped, QuotientIsInt
  <2>2. Clamp((8 * s.price.atr) \div 100, 0, 70) \in 0 .. 70
    BY <2>1 DEF Clamp
  <2> QED BY <2>2 DEF StructureScore
<1>8. DivergenceScore(types) \in 0 .. 100
  BY DEF DivergenceScore
<1> QED BY <1>1, <1>2, <1>3, <1>4, <1>5, <1>6, <1>7, <1>8

\* computeRiskComponents: so does each of the six parts of Leverage Risk.
LEMMA RiskInRange ==
  ASSUME NEW s \in Snapshots, NEW signals
  PROVE  /\ FundingExtremityRisk(s) \in 0 .. 100 /\ OiVelocityRisk(s) \in 0 .. 100
         /\ BasisExtremityRisk(s) \in 0 .. 100 /\ LiquidationAnomalyRisk(s) \in 0 .. 100
         /\ VolumeExtremityRisk(s) \in 0 .. 100 /\ CrowdingRisk(signals) \in 0 .. 100
<1>1. FundingExtremityRisk(s) \in 0 .. 100
  BY DEF FundingExtremityRisk, ByFunding
<1>2. OiVelocityRisk(s) \in 0 .. 100
  <2>1. 100 * Size(s.interest.velocity) \in Int
    BY ReadingsTyped DEF Size
  <2>2. (100 * Size(s.interest.velocity)) \div T.oiStrong \in Int
    BY <2>1, Thresholds, QuotientIsInt
  <2> QED BY <2>2 DEF Clamp, OiVelocityRisk
<1>3. BasisExtremityRisk(s) \in 0 .. 100
  <2>1. 50 * Size(s.spot.basis) \in Int
    BY ReadingsTyped DEF Size
  <2>2. (50 * Size(s.spot.basis)) \div T.basis \in Int
    BY <2>1, Thresholds, QuotientIsInt
  <2> QED BY <2>2 DEF Clamp, BasisExtremityRisk
<1>4. LiquidationAnomalyRisk(s) \in 0 .. 100
  <2>1. CASE s.forced.usual = 0
    BY <2>1 DEF LiquidationAnomalyRisk
  <2>2. CASE s.forced.usual # 0
    <3>1. 40 * (s.forced.longs + s.forced.shorts) \in Int /\ s.forced.usual \in Nat \ {0}
      BY <2>2, ReadingsTyped
    <3>2. T.spike * s.forced.usual \in Nat \ {0}
      BY <3>1, Thresholds
    <3>3. (40 * (s.forced.longs + s.forced.shorts)) \div (T.spike * s.forced.usual) \in Int
      BY <3>1, <3>2, QuotientIsInt
    <3>4. Clamp((40 * (s.forced.longs + s.forced.shorts)) \div (T.spike * s.forced.usual), 0, 100)
            \in 0 .. 100
      BY <3>3 DEF Clamp
    <3> QED BY <2>2, <3>4 DEF LiquidationAnomalyRisk
  <2> QED BY <2>1, <2>2
<1>5. VolumeExtremityRisk(s) \in 0 .. 100
  BY AnomalyIsRank DEF VolumeExtremityRisk
<1>6. CrowdingRisk(signals) \in 0 .. 100
  BY DEF CrowdingRisk
<1> QED BY <1>1, <1>2, <1>3, <1>4, <1>5, <1>6

\* What a signal carries, whichever rule fired it.
Shape(x) ==
  /\ x.type \in Types /\ x.severity \in INFO .. EXTREME
  /\ x.confirmed \in Nat /\ x.checks \in Nat \ {0}
  /\ x.value \in Int /\ x.threshold \in Nat /\ x.cap \in Nat

\* What a rule says, when it fires, has the fields of a signal.
LEMMA FiredShape ==
  ASSUME NEW type \in Types, NEW guard, NEW severity \in Int, NEW confirmed \in Nat,
         NEW checks \in Nat \ {0}, NEW value \in Int, NEW threshold \in Nat, NEW cap \in Nat,
         NEW x \in Fired(type, guard, severity, confirmed, checks, value, threshold, cap)
  PROVE  Shape(x)
<1>1. Clamp(severity, INFO, EXTREME) \in INFO .. EXTREME
  BY DEF Clamp, INFO, EXTREME
<1>2. x = [type |-> type, severity |-> Clamp(severity, INFO, EXTREME), confirmed |-> confirmed,
           checks |-> checks, value |-> value, threshold |-> threshold, cap |-> cap]
  BY DEF Fired
<1> QED BY <1>1, <1>2 DEF Shape

\* A product of counts is a count.
LEMMA ProductIsNat == ASSUME NEW a \in Nat, NEW b \in Nat PROVE a * b \in Nat
OBVIOUS

\* Each of the ten rules fires signals of this shape only.
LEMMA SignalsTyped ==
  ASSUME NEW s \in Snapshots, NEW x \in Signals(s)
  PROVE  Shape(x)
<1>1. /\ s.price.change \in Int /\ s.spot.skew \in Int /\ s.interest.change \in Int
      /\ s.funding \in Int /\ Size(s.price.change) \in Int
      /\ s.forced.longs + s.forced.shorts \in Int
      /\ T.skew \in Nat /\ T.price \in Nat /\ T.oi \in Nat /\ T.elevated \in Nat
  BY ReadingsTyped, Thresholds DEF Size
<1>2. T.spike * s.forced.usual \in Nat /\ T.shock * s.price.baseline \in Nat
  BY ReadingsTyped, Thresholds, ProductIsNat
<1>3. \A b : One(b) \in {0, 1}
  BY DEF One
<1>4. \A b, c : One(b) + One(c) \in Nat /\ MEDIUM + One(b) + One(c) \in Int
                /\ MEDIUM + (One(b) + One(c)) \in Int /\ HIGH + One(b) \in Int
  BY <1>3 DEF MEDIUM, HIGH
<1>5. INFO \in Int /\ LOW \in Int /\ MEDIUM \in Int /\ HIGH \in Int
  BY DEF INFO, LOW, MEDIUM, HIGH
<1>6. CASE x \in LeveragedRally(s)
  <2>1. "LEVERAGED_RALLY" \in Types BY DEF Types
  <2> QED BY <1>1, <1>4, <1>6, <2>1, FiredShape DEF LeveragedRally
<1>7. CASE x \in SpotConfirmedRally(s)
  <2>1. "SPOT_CONFIRMED_RALLY" \in Types BY DEF Types
  <2> DEFINE guard     == /\ s.spot.listed /\ PriceUp(s) /\ s.spot.skew > 0 /\ s.futures.skew > 0
                          /\ s.interest.change > 0 /\ s.interest.change < T.oiStrong /\ Neutral(s)
             confirmed == One(s.spot.skew >= T.skew) + One(VolumeAnomaly(s.spot.volume) > 0)
  <2>2. confirmed \in Nat
    BY <1>4
  <2>3. x \in Fired("SPOT_CONFIRMED_RALLY", guard, INFO, confirmed, 2, s.price.change, T.price, 100)
    BY <1>7 DEF SpotConfirmedRally
  <2> HIDE DEF guard, confirmed
  <2> QED BY <1>1, <1>5, <2>1, <2>2, <2>3, FiredShape
<1>8. CASE x \in ShortCoveringPossible(s)
  <2>1. "SHORT_COVERING_POSSIBLE" \in Types BY DEF Types
  <2> QED BY <1>1, <1>5, <1>8, <2>1, FiredShape DEF ShortCoveringPossible
<1>9. CASE x \in SellingAbsorptionPossible(s)
  <2> DEFINE confirms == VolumeAnomaly(s.spot.volume) >= 2
  <2>1. "SELLING_ABSORPTION_POSSIBLE" \in Types BY DEF Types
  <2>2. (IF confirms THEN 60 ELSE 45) \in Nat /\ One(confirms) \in Nat
    BY <1>3
  <2>3. x \in Fired("SELLING_ABSORPTION_POSSIBLE",
                    s.spot.listed /\ s.spot.skew <= -T.skew /\ Size(s.price.change) < T.price,
                    LOW, One(confirms), 1, s.spot.skew, T.skew, IF confirms THEN 60 ELSE 45)
    BY <1>9 DEF SellingAbsorptionPossible
  <2> HIDE DEF confirms
  <2> QED BY <1>1, <1>5, <2>1, <2>2, <2>3, FiredShape
<1>10. CASE x \in BullishSpotDivergence(s)
  <2>1. "BULLISH_SPOT_DIVERGENCE" \in Types /\ One(s.futures.skew > 0) \in Nat
    BY <1>3 DEF Types
  <2> QED BY <1>1, <1>5, <1>10, <2>1, FiredShape DEF BullishSpotDivergence
<1>11. ASSUME NEW type \in Types, NEW moved, NEW skewed, x \in Liquidation(type, s, moved, skewed)
       PROVE  Shape(x)
  <2> DEFINE extreme == Liquidated(s, 2 * T.spike)
  <2>1. One(extreme) \in Nat /\ HIGH + One(extreme) \in Int
    BY <1>3 DEF HIGH
  <2>2. x \in Fired(type, moved /\ OiDown(s) /\ Spike(s) /\ skewed, HIGH + One(extreme),
                    One(extreme), 1, s.forced.longs + s.forced.shorts,
                    T.spike * s.forced.usual, 100)
    BY <1>11 DEF Liquidation
  <2> HIDE DEF extreme
  <2> QED BY <1>1, <1>2, <2>1, <2>2, FiredShape
<1>12. CASE x \in LongLiquidation(s) \cup ShortLiquidation(s)
  <2>1. {"LONG_LIQUIDATION", "SHORT_LIQUIDATION"} \subseteq Types BY DEF Types
  <2> QED BY <1>11, <1>12, <2>1 DEF LongLiquidation, ShortLiquidation
<1>13. ASSUME NEW type \in Types, NEW side, x \in Crowding(type, s, side)
       PROVE  Shape(x)
  <2>1. (IF Extreme(s, side) THEN HIGH ELSE MEDIUM) \in Int /\ One(Extreme(s, side)) \in Nat
    BY <1>3, <1>5
  <2> QED BY <1>1, <1>13, <2>1, FiredShape DEF Crowding
<1>14. CASE x \in LongCrowding(s) \cup ShortCrowding(s)
  <2>1. {"LONG_CROWDING", "SHORT_CROWDING"} \subseteq Types BY DEF Types
  <2> QED BY <1>13, <1>14, <2>1 DEF LongCrowding, ShortCrowding
<1>15. CASE x \in PriceShock(s)
  <2>1. (IF s.price.change > 0 THEN "PRICE_SPIKE_UP" ELSE "PRICE_SPIKE_DOWN") \in Types
    BY DEF Types
  <2> QED BY <1>1, <1>2, <1>4, <1>15, <2>1, FiredShape DEF PriceShock
<1> QED BY <1>6, <1>7, <1>8, <1>9, <1>10, <1>12, <1>14, <1>15 DEF Signals

\* computeConfidence: a signal claims no more than its rule's cap.
LEMMA ConfidenceInRange ==
  ASSUME NEW s \in Snapshots, NEW x, Shape(x)
  PROVE  Confidence(x, s) \in 0 .. x.cap
<1> DEFINE scaled == Clamp(40 * Size(x.value) - 20 * x.threshold, 20 * x.threshold, 100 * x.threshold)
           raw    == 25 * s.quality + 30 * Confirmation(x) + 25 * Magnitude(x)
                     + 20 * Historical[x.type]
<1>1. Confirmation(x) \in Int
  BY NearestIsInt DEF Shape, Confirmation
<1>2. Magnitude(x) \in Int
  <2>1. scaled \in Int
    BY DEF Shape, Clamp, Size
  <2>2. x.threshold = 0 \/ Nearest(scaled, x.threshold) \in Int
    BY <2>1, NearestIsInt DEF Shape
  <2>3. Magnitude(x) = IF x.threshold = 0 THEN 50 ELSE Nearest(scaled, x.threshold)
    BY DEF Magnitude
  <2> QED BY <2>2, <2>3
<1>3. raw \in Int
  <2>1. s.quality \in Int /\ Historical[x.type] \in Int
    BY HistoricalAssumption, ReadingsTyped DEF Shape
  <2> QED BY <1>1, <1>2, <2>1
<1> HIDE DEF raw
<1>4. Clamp(raw, 0, 10000) \in Int
  BY <1>3 DEF Clamp
<1>5. Nearest(Clamp(raw, 0, 10000), 100) \in Int
  BY <1>4, NearestIsInt
<1>6. Clamp(Nearest(Clamp(raw, 0, 10000), 100), 0, x.cap) \in 0 .. x.cap
  BY <1>5 DEF Clamp, Shape
<1> QED BY <1>6 DEF Confidence, raw

\* What the engines say of a market keeps its range on every snapshot: Health, Leverage Risk
\* and the confidence of each signal, for all thresholds and all historical scores.
THEOREM ScoresKeepTheirRange == Spec => []TypeOK
<1>1. ASSUME market \in Snapshots
      PROVE  TypeOK
  <2>1. ASSUME NEW x \in Signals(market)
        PROVE  x.type \in Types /\ x.severity \in INFO .. EXTREME
               /\ Confidence(x, market) \in 0 .. x.cap
    <3>1. Shape(x)
      BY <1>1, SignalsTyped
    <3> QED BY <1>1, <3>1, ConfidenceInRange DEF Shape
  <2> DEFINE h == HealthComponents(market, TypesIn(Signals(market)))
             r == RiskComponents(market, Signals(market))
  <2>2. \A part \in DOMAIN h : h[part] \in 0 .. 100
    BY <1>1, HealthInRange DEF HealthComponents
  <2>3. \A part \in DOMAIN r : r[part] \in 0 .. 100
    BY <1>1, RiskInRange DEF RiskComponents
  <2> QED BY <1>1, <2>1, <2>2, <2>3 DEF TypeOK
<1> QED BY <1>1, SnapshotsTyped, PTL
-----------------------------------------------------------------------------
(* What moves the scores. *)

\* ByFunding sees how far funding is from zero, not on which side.
LEMMA FundingBySize ==
  ASSUME NEW s \in Snapshots, NEW neutral, NEW elevated, NEW extreme
  PROVE  ByFunding(s, neutral, elevated, extreme) =
           IF Size(s.funding) >= T.extreme THEN extreme
           ELSE IF Size(s.funding) < T.elevated THEN neutral ELSE elevated
<1>1. s.funding \in Int /\ T.extreme \in Nat \ {0}
  BY ReadingsTyped, Thresholds
<1>2. (Extreme(s, 1) \/ Extreme(s, -1)) <=> Size(s.funding) >= T.extreme
  BY <1>1 DEF Extreme, Size
<1> QED BY <1>2 DEF ByFunding, Neutral

\* The crowding signals are those of the two crowding rules.
LEMMA CrowdingSignals ==
  ASSUME NEW s \in Snapshots
  PROVE  {x \in Signals(s) : x.type \in {"LONG_CROWDING", "SHORT_CROWDING"}}
           = LongCrowding(s) \cup ShortCrowding(s)
<1>1. \A x \in LongCrowding(s) \cup ShortCrowding(s) :
        x \in Signals(s) /\ x.type \in {"LONG_CROWDING", "SHORT_CROWDING"}
  BY DEF Signals, LongCrowding, ShortCrowding, Crowding, Fired
<1>2. ASSUME NEW x \in Signals(s), x.type \in {"LONG_CROWDING", "SHORT_CROWDING"}
      PROVE  x \in LongCrowding(s) \cup ShortCrowding(s)
  <2>1. /\ x \notin LeveragedRally(s) /\ x \notin SpotConfirmedRally(s)
        /\ x \notin ShortCoveringPossible(s) /\ x \notin SellingAbsorptionPossible(s)
        /\ x \notin BullishSpotDivergence(s)
    BY <1>2 DEF LeveragedRally, SpotConfirmedRally, ShortCoveringPossible,
                SellingAbsorptionPossible, BullishSpotDivergence, Fired
  <2>2. x \notin LongLiquidation(s) /\ x \notin ShortLiquidation(s)
    BY <1>2 DEF LongLiquidation, ShortLiquidation, Liquidation, Fired
  <2>3. x \notin PriceShock(s)
    BY <1>2 DEF PriceShock, Fired
  <2> QED BY <2>1, <2>2, <2>3 DEF Signals
<1> QED BY <1>1, <1>2

\* So crowding, too, is a matter of open interest and of how far funding is from zero.
LEMMA CrowdingBySize ==
  ASSUME NEW s \in Snapshots
  PROVE  CrowdingRisk(Signals(s)) =
           IF ~OiUp(s) \/ Size(s.funding) < T.elevated THEN 15
           ELSE IF Size(s.funding) >= T.extreme THEN 90 ELSE 60
<1> DEFINE crowding == LongCrowding(s) \cup ShortCrowding(s)
<1>1. CrowdingRisk(Signals(s)) =
        IF crowding = {} THEN 15
        ELSE IF \E x \in crowding : x.severity >= HIGH THEN 90 ELSE 60
  BY CrowdingSignals DEF CrowdingRisk
<1>2. s.funding \in Int /\ T.extreme \in Nat \ {0} /\ T.elevated \in Nat \ {0}
      /\ T.extreme >= T.elevated
  BY ReadingsTyped, Thresholds
<1>3. /\ Size(s.funding) >= T.elevated <=> Elevated(s, 1) \/ Elevated(s, -1)
      /\ Size(s.funding) >= T.extreme <=> Extreme(s, 1) \/ Extreme(s, -1)
      /\ Extreme(s, 1) => Elevated(s, 1)
      /\ Extreme(s, -1) => Elevated(s, -1)
      /\ Size(s.funding) \in Int
      /\ ~(Elevated(s, 1) /\ Elevated(s, -1))
  BY <1>2 DEF Elevated, Extreme, Size
<1>4. ASSUME NEW type, NEW side
      PROVE  /\ Crowding(type, s, side) = {} <=> ~(Elevated(s, side) /\ OiUp(s))
             /\ \A x \in Crowding(type, s, side) : x.severity >= HIGH <=> Extreme(s, side)
  <2> DEFINE severity == IF Extreme(s, side) THEN HIGH ELSE MEDIUM
  <2>1. Clamp(severity, INFO, EXTREME) >= HIGH <=> Extreme(s, side)
    BY DEF Clamp, INFO, EXTREME, HIGH, MEDIUM
  <2>2. Crowding(type, s, side) =
          IF Elevated(s, side) /\ OiUp(s)
          THEN {[type |-> type, severity |-> Clamp(severity, INFO, EXTREME),
                 confirmed |-> One(Extreme(s, side)), checks |-> 1, value |-> s.funding,
                 threshold |-> T.elevated, cap |-> 100]}
          ELSE {}
    BY DEF Crowding, Fired
  <2> HIDE DEF severity
  <2>3. Crowding(type, s, side) = {} <=> ~(Elevated(s, side) /\ OiUp(s))
    BY <2>2
  <2>4. \A x \in Crowding(type, s, side) : x.severity = Clamp(severity, INFO, EXTREME)
    BY <2>2
  <2> QED BY <2>1, <2>3, <2>4
<1>5. crowding = {} <=> ~OiUp(s) \/ ~(Elevated(s, 1) \/ Elevated(s, -1))
  BY <1>4 DEF LongCrowding, ShortCrowding
<1>6. ASSUME OiUp(s), Elevated(s, 1) \/ Elevated(s, -1)
      PROVE  (\E x \in crowding : x.severity >= HIGH) <=> Extreme(s, 1) \/ Extreme(s, -1)
  <2>1. CASE Elevated(s, 1)
    <3>1. ~Elevated(s, -1) /\ ~Extreme(s, -1)
      BY <1>3, <2>1
    <3>2. ShortCrowding(s) = {} /\ LongCrowding(s) # {}
      BY <1>4, <1>6, <2>1, <3>1 DEF ShortCrowding, LongCrowding
    <3> QED BY <1>4, <3>1, <3>2 DEF LongCrowding
  <2>2. CASE Elevated(s, -1)
    <3>1. ~Elevated(s, 1) /\ ~Extreme(s, 1)
      BY <1>3, <2>2
    <3>2. LongCrowding(s) = {} /\ ShortCrowding(s) # {}
      BY <1>4, <1>6, <2>2, <3>1 DEF ShortCrowding, LongCrowding
    <3> QED BY <1>4, <3>1, <3>2 DEF ShortCrowding
  <2> QED BY <1>6, <2>1, <2>2
<1>7. Size(s.funding) < T.elevated <=> ~(Elevated(s, 1) \/ Elevated(s, -1))
  BY <1>2, <1>3
<1> HIDE DEF crowding
<1> QED BY <1>1, <1>3, <1>5, <1>6, <1>7

\* Leverage Risk reads the spot leg for its basis only.
LEMMA SpotLeavesRisk ==
  ASSUME NEW s \in Snapshots, NEW t \in Snapshots, SpotOnly(s, t)
  PROVE  RiskScore(t) = RiskScore(s)
<1>1. /\ t.price = s.price /\ t.futures = s.futures /\ t.interest = s.interest
      /\ t.funding = s.funding /\ t.forced = s.forced /\ t.spot.basis = s.spot.basis
  BY DEF SpotOnly, Snapshots
<1>2. FundingExtremityRisk(t) = FundingExtremityRisk(s)
  BY <1>1, FundingBySize DEF FundingExtremityRisk
<1>3. OiVelocityRisk(t) = OiVelocityRisk(s) /\ BasisExtremityRisk(t) = BasisExtremityRisk(s)
      /\ LiquidationAnomalyRisk(t) = LiquidationAnomalyRisk(s)
      /\ VolumeExtremityRisk(t) = VolumeExtremityRisk(s)
  BY <1>1 DEF OiVelocityRisk, BasisExtremityRisk, LiquidationAnomalyRisk, VolumeExtremityRisk
<1>4. CrowdingRisk(Signals(t)) = CrowdingRisk(Signals(s))
  BY <1>1, CrowdingBySize DEF OiUp
<1> QED BY <1>2, <1>3, <1>4 DEF RiskScore, RiskComponents

\* Funding further from zero on its side is, for each part of Leverage Risk, as it was or worse,
LEMMA StretchedRisk ==
  ASSUME NEW s \in Snapshots, NEW t \in Snapshots, Stretched(s, t)
  PROVE  RiskScore(t) >= RiskScore(s)
<1>1. /\ t.price = s.price /\ t.futures = s.futures /\ t.interest = s.interest
      /\ t.spot = s.spot /\ t.forced = s.forced
  BY DEF Stretched, Snapshots
<1>2. Size(s.funding) \in Int /\ Size(t.funding) \in Int /\ Size(t.funding) >= Size(s.funding)
      /\ T.extreme \in Int /\ T.elevated \in Int /\ T.extreme >= T.elevated
  BY ReadingsTyped, Thresholds DEF Size, Stretched
<1>3. FundingExtremityRisk(t) >= FundingExtremityRisk(s)
  BY <1>2, FundingBySize DEF FundingExtremityRisk
<1>4. OiVelocityRisk(t) = OiVelocityRisk(s) /\ BasisExtremityRisk(t) = BasisExtremityRisk(s)
      /\ LiquidationAnomalyRisk(t) = LiquidationAnomalyRisk(s)
      /\ VolumeExtremityRisk(t) = VolumeExtremityRisk(s)
  BY <1>1 DEF OiVelocityRisk, BasisExtremityRisk, LiquidationAnomalyRisk, VolumeExtremityRisk
<1>5. CrowdingRisk(Signals(t)) >= CrowdingRisk(Signals(s))
  BY <1>1, <1>2, CrowdingBySize DEF OiUp
<1> DEFINE sum(z) == 25 * FundingExtremityRisk(z) + 20 * OiVelocityRisk(z)
                     + 15 * BasisExtremityRisk(z) + 20 * LiquidationAnomalyRisk(z)
                     + 10 * VolumeExtremityRisk(z) + 10 * CrowdingRisk(Signals(z))
<1>6. sum(s) \in Int /\ sum(t) \in Int /\ sum(s) <= sum(t)
  <2>1. \A z \in {s, t} :
          /\ FundingExtremityRisk(z) \in Int /\ OiVelocityRisk(z) \in Int
          /\ BasisExtremityRisk(z) \in Int /\ LiquidationAnomalyRisk(z) \in Int
          /\ VolumeExtremityRisk(z) \in Int /\ CrowdingRisk(Signals(z)) \in Int
    <3> TAKE z \in {s, t}
    <3>1. z \in Snapshots
      OBVIOUS
    <3> DEFINE signals == Signals(z)
    <3> HIDE DEF signals
    <3>2. /\ FundingExtremityRisk(z) \in Int /\ OiVelocityRisk(z) \in Int
          /\ BasisExtremityRisk(z) \in Int /\ LiquidationAnomalyRisk(z) \in Int
          /\ VolumeExtremityRisk(z) \in Int /\ CrowdingRisk(signals) \in Int
      BY <3>1, RiskInRange
    <3> QED BY <3>2 DEF signals
  <2> QED BY <1>3, <1>4, <1>5, <2>1
<1>7. RiskScore(s) = Nearest(sum(s), 100) /\ RiskScore(t) = Nearest(sum(t), 100)
  BY DEF RiskScore, RiskComponents
<1> HIDE DEF sum
<1>8. Nearest(sum(s), 100) \in Int /\ Nearest(sum(t), 100) \in Int
  BY <1>6, NearestIsInt
<1>9. Nearest(sum(s), 100) <= Nearest(sum(t), 100)
  BY <1>6, NearestGrows
<1> QED BY <1>7, <1>8, <1>9

\* and for each part of Health as it was or worse.
LEMMA StretchedDivergence ==
  ASSUME NEW s \in Snapshots, NEW t \in Snapshots, Stretched(s, t)
  PROVE  DivergenceScore(TypesIn(Signals(t))) <= DivergenceScore(TypesIn(Signals(s)))
<1>1. /\ t.price = s.price /\ t.futures = s.futures /\ t.interest = s.interest
      /\ t.spot = s.spot /\ t.forced = s.forced
  BY DEF Stretched, Snapshots
<1>2. /\ s.funding \in Int /\ t.funding \in Int /\ s.funding * t.funding >= 0
      /\ Size(t.funding) >= Size(s.funding) /\ T.elevated \in Nat \ {0}
  BY ReadingsTyped, Thresholds DEF Stretched
<1>3. Size(s.funding) \in Int /\ Size(t.funding) \in Int
  BY <1>2 DEF Size
<1>4. Neutral(t) => Neutral(s)
  BY <1>2, <1>3 DEF Neutral
<1>5. ASSUME NEW x \in Signals(s), x.type \in NegativeTypes
      PROVE  TypesIn(Signals(t)) \cap NegativeTypes # {}
  <2>1. CASE x \in LeveragedRally(s)
    <3>1. PICK y \in LeveragedRally(t) : y.type = "LEVERAGED_RALLY"
      BY <1>1, <2>1 DEF LeveragedRally, Fired, PriceUp, OiUp
    <3> QED BY <3>1 DEF Signals, TypesIn, NegativeTypes
  <2>2. CASE x \in LongLiquidation(s) \cup ShortLiquidation(s)
    <3>1. LongLiquidation(t) = LongLiquidation(s) /\ ShortLiquidation(t) = ShortLiquidation(s)
      BY <1>1 DEF LongLiquidation, ShortLiquidation, Liquidation, Fired, PriceUp, PriceDown, OiDown,
                  Spike, Liquidated
    <3>2. x \in Signals(t)
      BY <2>2, <3>1 DEF Signals
    <3> QED BY <1>5, <3>2 DEF TypesIn
  <2>3. CASE x \in LongCrowding(s) \cup ShortCrowding(s)
    <3>1. OiUp(s) /\ Size(s.funding) >= T.elevated
      BY <1>2, <2>3 DEF LongCrowding, ShortCrowding, Crowding, Fired, Elevated, Size
    <3>2. OiUp(t) /\ Size(t.funding) >= T.elevated
      BY <1>1, <1>2, <1>3, <3>1 DEF OiUp
    <3>3. Elevated(t, 1) \/ Elevated(t, -1)
      BY <1>2, <3>2 DEF Elevated, Size
    <3>4. \E y \in LongCrowding(t) \cup ShortCrowding(t) : y.type \in NegativeTypes
      <4>1. CASE Elevated(t, 1)
        <5>1. PICK y \in LongCrowding(t) : y.type = "LONG_CROWDING"
          BY <3>2, <4>1 DEF LongCrowding, Crowding, Fired
        <5> QED BY <5>1 DEF NegativeTypes
      <4>2. CASE Elevated(t, -1)
        <5>1. PICK y \in ShortCrowding(t) : y.type = "SHORT_CROWDING"
          BY <3>2, <4>2 DEF ShortCrowding, Crowding, Fired
        <5> QED BY <5>1 DEF NegativeTypes
      <4> QED BY <3>3, <4>1, <4>2
    <3> QED BY <3>4 DEF Signals, TypesIn
  <2>4. /\ x \notin SpotConfirmedRally(s) /\ x \notin ShortCoveringPossible(s)
        /\ x \notin SellingAbsorptionPossible(s) /\ x \notin BullishSpotDivergence(s)
    BY <1>5 DEF SpotConfirmedRally, ShortCoveringPossible, SellingAbsorptionPossible,
                BullishSpotDivergence, Fired, NegativeTypes
  <2>5. x \notin PriceShock(s)
    BY <1>5 DEF PriceShock, Fired, NegativeTypes
  <2> QED BY <2>1, <2>2, <2>3, <2>4, <2>5 DEF Signals
<1>6. ASSUME "SPOT_CONFIRMED_RALLY" \in TypesIn(Signals(t))
      PROVE  "SPOT_CONFIRMED_RALLY" \in TypesIn(Signals(s))
  <2>1. PICK x \in Signals(t) : x.type = "SPOT_CONFIRMED_RALLY"
    BY <1>6 DEF TypesIn
  <2>2. /\ x \notin LeveragedRally(t) /\ x \notin ShortCoveringPossible(t)
        /\ x \notin SellingAbsorptionPossible(t) /\ x \notin BullishSpotDivergence(t)
        /\ x \notin LongLiquidation(t) /\ x \notin ShortLiquidation(t)
        /\ x \notin LongCrowding(t) /\ x \notin ShortCrowding(t)
    BY <2>1 DEF LeveragedRally, ShortCoveringPossible, SellingAbsorptionPossible,
                BullishSpotDivergence, LongLiquidation, ShortLiquidation, Liquidation,
                LongCrowding, ShortCrowding, Crowding, Fired
  <2>3. x \notin PriceShock(t)
    BY <2>1 DEF PriceShock, Fired
  <2>4. x \in SpotConfirmedRally(t)
    BY <2>2, <2>3 DEF Signals
  <2>5. x \in SpotConfirmedRally(s)
    BY <1>1, <1>4, <2>4 DEF SpotConfirmedRally, Fired, PriceUp
  <2> QED BY <2>1, <2>5 DEF Signals, TypesIn
<1>7. TypesIn(Signals(s)) \cap NegativeTypes # {} => TypesIn(Signals(t)) \cap NegativeTypes # {}
  BY <1>5 DEF TypesIn
<1> QED BY <1>6, <1>7 DEF DivergenceScore

\* Funding farther from zero does not raise the health score.
LEMMA StretchedHealth ==
  ASSUME NEW s \in Snapshots, NEW t \in Snapshots, Stretched(s, t)
  PROVE  HealthScore(t) <= HealthScore(s)
<1>1. /\ t.price = s.price /\ t.futures = s.futures /\ t.interest = s.interest
      /\ t.spot = s.spot /\ t.forced = s.forced
  BY DEF Stretched, Snapshots
<1>2. Size(s.funding) \in Int /\ Size(t.funding) \in Int /\ Size(t.funding) >= Size(s.funding)
      /\ T.extreme \in Int /\ T.elevated \in Int /\ T.extreme >= T.elevated
  BY ReadingsTyped, Thresholds DEF Size, Stretched
<1>3. FundingScore(t) <= FundingScore(s)
  BY <1>2, FundingBySize DEF FundingScore
<1>4. /\ SpotConfirmationScore(t) = SpotConfirmationScore(s)
      /\ FuturesPositioningScore(t) = FuturesPositioningScore(s)
      /\ OpenInterestScore(t) = OpenInterestScore(s)
  BY <1>1 DEF SpotConfirmationScore, FuturesPositioningScore, OpenInterestScore
<1>5. /\ LiquidationScore(t) = LiquidationScore(s)
      /\ VolumeScore(t.spot.volume) = VolumeScore(s.spot.volume)
      /\ StructureScore(t) = StructureScore(s)
  BY <1>1 DEF LiquidationScore, Spike, Liquidated, StructureScore
<1> DEFINE divergence(z) == DivergenceScore(TypesIn(Signals(z)))
           sum(z) == 25 * SpotConfirmationScore(z) + 15 * FuturesPositioningScore(z)
                     + 15 * OpenInterestScore(z) + 10 * FundingScore(z)
                     + 10 * LiquidationScore(z) + 10 * VolumeScore(z.spot.volume)
                     + 10 * StructureScore(z) + 5 * divergence(z)
<1>6. divergence(t) <= divergence(s)
  BY StretchedDivergence
<1>7. divergence(s) \in 0 .. 100 /\ divergence(t) \in 0 .. 100
  BY HealthInRange
<1>8. HealthScore(s) = Nearest(sum(s), 100) /\ HealthScore(t) = Nearest(sum(t), 100)
  BY DEF HealthScore, HealthComponents
<1> HIDE DEF divergence
<1>9. sum(s) \in Int /\ sum(t) \in Int /\ sum(t) <= sum(s)
  <2>1. \A z \in {s, t} :
          /\ SpotConfirmationScore(z) \in Int /\ FuturesPositioningScore(z) \in Int
          /\ OpenInterestScore(z) \in Int /\ FundingScore(z) \in Int
          /\ LiquidationScore(z) \in Int /\ VolumeScore(z.spot.volume) \in Int
          /\ StructureScore(z) \in Int
    BY HealthInRange
  <2> QED BY <1>3, <1>4, <1>5, <1>6, <1>7, <2>1
<1> HIDE DEF sum
<1>10. Nearest(sum(t), 100) <= Nearest(sum(s), 100)
  BY <1>9, NearestGrows
<1> QED BY <1>8, <1>10

\* computeLeverageRisk: nothing the spot leg says beyond its basis moves Leverage Risk, and
\* funding that only grows on its side neither lowers it nor raises Health, from any
\* snapshot to any other, for all thresholds.
THEOREM RiskFollowsLeverage == Spec => LeverageDrivesRisk
<1>1. ASSUME NEW s \in Snapshots, NEW t \in Snapshots
      PROVE  /\ SpotOnly(s, t) => RiskScore(t) = RiskScore(s)
             /\ Stretched(s, t) =>
                  RiskScore(t) >= RiskScore(s) /\ HealthScore(t) <= HealthScore(s)
  BY SpotLeavesRisk, StretchedRisk, StretchedHealth
<1>2. market \in Snapshots /\ (market \in Snapshots)' =>
        [/\ SpotOnly(market, market') => RiskScore(market') = RiskScore(market)
         /\ Stretched(market, market') =>
              /\ RiskScore(market') >= RiskScore(market)
              /\ market.spot.listed => HealthScore(market') <= HealthScore(market)]_market
  BY <1>1
<1> QED BY <1>2, SnapshotsTyped, PTL DEF LeverageDrivesRisk
-----------------------------------------------------------------------------
(* Least and greatest elements: induction over finite sets, by the fewest elements. *)

\* A set of numbers that is not empty has a least one,
LEMMA LeastOf ==
  ASSUME NEW S \in SUBSET Nat, S # {}
  PROVE  \E t \in S : \A u \in S : t <= u
<1> DEFINE R == OpToRel(<, Nat)
<1>1. IsWellFoundedOn(R, Nat)
  BY NatLessThanWellFounded
<1>2. \A x, y \in Nat : y < x => <<y, x>> \in R
  BY DEF OpToRel
<1> HIDE DEF R
<1>3. PICK t \in S : \A u \in S : ~ (<<u, t>> \in R)
  BY <1>1, WFMin
<1>4. ASSUME NEW u \in S PROVE t <= u
  <2>1. ~(u < t)
    BY <1>2, <1>3
  <2> QED BY <2>1
<1> QED BY <1>4

\* and what holds of every set of fewer elements holds of all finite sets: otherwise
\* there is one of the fewest elements for which it does not.
LEMMA FewestOf ==
  ASSUME NEW F, \A A \in F : IsFiniteSet(A), F # {}
  PROVE  \E A \in F : \A U \in F : Cardinality(A) <= Cardinality(U)
<1>1. {Cardinality(A) : A \in F} \in SUBSET Nat /\ {Cardinality(A) : A \in F} # {}
  BY FS_CardinalityType
<1>2. PICK n \in {Cardinality(A) : A \in F} : \A m \in {Cardinality(A) : A \in F} : n <= m
  BY <1>1, LeastOf
<1> QED BY <1>2

\* A finite set of numbers that is not empty has a greatest one.
LEMMA GreatestOf ==
  ASSUME NEW S, IsFiniteSet(S), S \subseteq Int, S # {}
  PROVE  \E m \in S : \A y \in S : y <= m
<1> DEFINE Without == {A \in SUBSET S : A # {} /\ ~\E m \in A : \A y \in A : y <= m}
<1> SUFFICES ASSUME Without # {} PROVE FALSE
  OBVIOUS
<1>1. \A A \in SUBSET S : IsFiniteSet(A)
  BY FS_Subset
<1>2. PICK A \in Without : \A U \in Without : Cardinality(A) <= Cardinality(U)
  BY <1>1, FewestOf
<1>3. A \in SUBSET S /\ A # {} /\ IsFiniteSet(A)
  BY <1>1, <1>2
<1> HIDE DEF Without
<1>4. PICK x \in A : TRUE
  BY <1>3
<1>5. A \ {x} \notin Without
  <2>1. Cardinality(A \ {x}) = Cardinality(A) - 1 /\ Cardinality(A) \in Nat
    BY <1>3, <1>4, FS_RemoveElement, FS_CardinalityType
  <2>2. ~(Cardinality(A) <= Cardinality(A \ {x}))
    BY <2>1
  <2> QED BY <1>2, <2>2
<1> USE DEF Without
<1>6. CASE A \ {x} = {}
  BY <1>2, <1>4, <1>6
<1>7. CASE A \ {x} # {}
  <2>1. PICK m \in A \ {x} : \A y \in A \ {x} : y <= m
    BY <1>3, <1>5, <1>7
  <2>2. x \in Int /\ m \in Int /\ A \subseteq Int
    BY <1>3, <1>4, <2>1
  <2>3. CASE x <= m
    <3>1. \A y \in A : y <= m
      BY <2>1, <2>3
    <3> QED BY <1>2, <2>1, <3>1
  <2>4. CASE m <= x
    <3>1. \A y \in A : y <= x
      BY <2>1, <2>2, <2>4
    <3> QED BY <1>2, <1>4, <3>1
  <2> QED BY <2>2, <2>3, <2>4
<1> QED BY <1>6, <1>7

-----------------------------------------------------------------------------
(* Sums. *)

\* One step of a sum of g over a set: an element is taken out, and the rest is summed.
Taken(s) == CHOOSE x \in s : TRUE
SumStep(g, f, s) == IF s = {} THEN 0 ELSE g[Taken(s)] + f[s \ {Taken(s)}]

\* f is the sum of g on every part of A.
Sums(g, f, A)  == \A s \in SUBSET A : f[s] = SumStep(g, f, s)
SumsOn(g, f, A) == f \in [SUBSET A -> Int] /\ Sums(g, f, A)

\* What is taken out was in,
LEMMA TakenIn == ASSUME NEW s, s # {} PROVE Taken(s) \in s
BY DEF Taken

\* and leaves fewer elements.
LEMMA Fewer ==
  ASSUME NEW S, IsFiniteSet(S), NEW s \in SUBSET S, s # {}
  PROVE  /\ IsFiniteSet(s) /\ Cardinality(s) \in Nat /\ Cardinality(s \ {Taken(s)}) \in Nat
         /\ Cardinality(s \ {Taken(s)}) < Cardinality(s)
<1>1. IsFiniteSet(s) /\ Taken(s) \in s
  BY FS_Subset, TakenIn
<1>2. IsFiniteSet(s \ {Taken(s)})
  BY <1>1, FS_Subset
<1> QED BY <1>1, <1>2, FS_RemoveElement, FS_CardinalityType

\* Two functions that step alike agree on what both are defined on.
LEMMA SumsAgree ==
  ASSUME NEW S, IsFiniteSet(S), NEW g, NEW f, NEW h, NEW A \in SUBSET S,
         Sums(g, f, A), Sums(g, h, A)
  PROVE  \A s \in SUBSET A : f[s] = h[s]
<1> DEFINE Differ == {s \in SUBSET A : f[s] # h[s]}
<1> SUFFICES ASSUME Differ # {} PROVE FALSE
  OBVIOUS
<1>1. \A s \in Differ : IsFiniteSet(s)
  BY FS_Subset
<1>2. PICK s \in Differ : \A u \in Differ : Cardinality(s) <= Cardinality(u)
  BY <1>1, FewestOf
<1>3. CASE s = {}
  BY <1>2, <1>3 DEF Sums, SumStep
<1>4. CASE s # {}
  <2> DEFINE rest == s \ {Taken(s)}
  <2>1. Cardinality(s) \in Nat /\ Cardinality(rest) \in Nat /\ Cardinality(rest) < Cardinality(s)
    BY <1>2, <1>4, Fewer
  <2>2. rest \in SUBSET A /\ rest \notin Differ
    BY <1>2, <2>1
  <2>3. f[rest] = h[rest]
    BY <2>2
  <2> QED BY <1>2, <1>4, <2>3 DEF Sums, SumStep
<1> QED BY <1>3, <1>4

\* There is a sum on every finite set.
LEMMA SumExists ==
  ASSUME NEW S, IsFiniteSet(S), NEW g, \A x \in S : g[x] \in Int
  PROVE  \E f : SumsOn(g, f, S)
<1> DEFINE Without == {A \in SUBSET S : ~\E f : SumsOn(g, f, A)}
<1> SUFFICES ASSUME Without # {} PROVE FALSE
  BY Zenon
<1>1. \A A \in SUBSET S : IsFiniteSet(A)
  BY FS_Subset
<1>2. PICK A \in Without : \A U \in Without : Cardinality(A) <= Cardinality(U)
  BY <1>1, FewestOf
<1> DEFINE Of(U) == CHOOSE f : SumsOn(g, f, U)
<1>3. ASSUME NEW U \in SUBSET A, U # A PROVE SumsOn(g, Of(U), U)
  <2>1. Cardinality(U) < Cardinality(A) /\ Cardinality(U) \in Nat /\ Cardinality(A) \in Nat
    BY <1>1, <1>2, <1>3, FS_Subset, FS_CardinalityType
  <2>2. U \notin Without /\ U \in SUBSET S
    BY <1>2, <2>1
  <2> QED BY <2>2, Zenon
<1> HIDE DEF Of
<1>4. CASE A = {}
  <2> DEFINE f == [s \in SUBSET A |-> 0]
  <2>1. SumsOn(g, f, A)
    BY <1>4 DEF SumsOn, Sums, SumStep
  <2> QED BY <1>2, <2>1
<1>5. CASE A # {}
  <2> DEFINE x == Taken(A)
             f == [s \in SUBSET A |-> IF s = A THEN g[x] + Of(A \ {x})[A \ {x}] ELSE Of(s)[s]]
  <2>1. x \in A /\ A \ {x} \in SUBSET A /\ A \ {x} # A
    BY <1>5, TakenIn
  <2>2. ASSUME NEW s \in SUBSET A, s # A PROVE f[s] = Of(s)[s] /\ Of(s)[s] \in Int
    BY <1>3, <2>2 DEF SumsOn
  <2>3. f[A] = g[x] + Of(A \ {x})[A \ {x}] /\ f[A] \in Int
    <3>1. Of(A \ {x})[A \ {x}] \in Int
      BY <2>1, <2>2
    <3>2. g[x] \in Int
      BY <1>2, <2>1
    <3> QED BY <3>1, <3>2
  <2>4. f \in [SUBSET A -> Int]
    BY <2>2, <2>3
  <2>5. f[A] = SumStep(g, f, A)
    <3>1. f[A \ {x}] = Of(A \ {x})[A \ {x}]
      BY <2>1, <2>2
    <3> HIDE DEF f
    <3> QED BY <1>5, <2>3, <3>1 DEF SumStep
  <2>6. ASSUME NEW s \in SUBSET A, s # A PROVE f[s] = SumStep(g, f, s)
    <3>1. CASE s = {}
      <4>1. Of(s)[s] = 0
        BY <1>3, <2>6, <3>1 DEF SumsOn, Sums, SumStep
      <4> QED BY <2>2, <2>6, <3>1, <4>1 DEF SumStep
    <3>2. CASE s # {}
      <4> DEFINE rest == s \ {Taken(s)}
      <4>1. Taken(s) \in s /\ rest \in SUBSET s /\ rest # s /\ rest \in SUBSET A /\ rest # A
        BY <3>2, <2>6, TakenIn
      <4>2. Of(s)[s] = g[Taken(s)] + Of(s)[rest]
        BY <1>3, <2>6, <3>2 DEF SumsOn, Sums, SumStep
      <4>3. Of(s)[rest] = Of(rest)[rest]
        <5>1. Sums(g, Of(s), rest)
          BY <1>3, <2>6, <4>1 DEF SumsOn, Sums
        <5>2. Sums(g, Of(rest), rest)
          BY <1>3, <4>1 DEF SumsOn, Sums
        <5>3. rest \in SUBSET S
          BY <1>2, <4>1
        <5> HIDE DEF rest
        <5>4. \A u \in SUBSET rest : Of(s)[u] = Of(rest)[u]
          BY <5>1, <5>2, <5>3, SumsAgree
        <5> QED BY <5>4
      <4>4. f[s] = Of(s)[s] /\ f[rest] = Of(rest)[rest]
        BY <2>2, <2>6, <4>1
      <4> HIDE DEF f
      <4> QED BY <3>2, <4>2, <4>3, <4>4 DEF SumStep
    <3> QED BY <3>1, <3>2
  <2> HIDE DEF f
  <2>7. SumsOn(g, f, A)
    BY <2>4, <2>5, <2>6 DEF SumsOn, Sums
  <2> QED BY <1>2, <2>7
<1> QED BY <1>4, <1>5

\* So the recursion of a fold has the sum for its value.
LEMMA SumIsInt ==
  ASSUME NEW S, IsFiniteSet(S), NEW g, \A x \in S : g[x] \in Int,
         NEW iter, iter = CHOOSE f : f = [s \in SUBSET S |-> SumStep(g, f, s)]
  PROVE  iter[S] \in Int
<1>1. PICK f : SumsOn(g, f, S)
  BY SumExists
<1>2. f = [s \in SUBSET S |-> SumStep(g, f, s)]
  BY <1>1 DEF SumsOn, Sums
<1>3. iter = [s \in SUBSET S |-> SumStep(g, iter, s)]
  BY <1>2, Zenon
<1>4. Sums(g, iter, S)
  BY <1>3, Zenon DEF Sums
<1>5. \A s \in SUBSET S : f[s] = iter[s]
  BY <1>1, <1>4, SumsAgree DEF SumsOn
<1>6. f[S] = iter[S]
  BY <1>5
<1> QED BY <1>1, <1>6 DEF SumsOn

-----------------------------------------------------------------------------
(* The chart's types. *)

\* The constants of the chart.
LEMMA ChartConstants ==
  /\ Width \in Nat \ {0} /\ AtrPeriod \in Nat \ {0} /\ Lookback \in Nat \ {0}
  /\ Window \in Nat /\ MinReward \in Nat /\ PerDay \in Nat \ {0}
  /\ Charts \in Seq(SUBSET Chart!Bars)
BY ChartAssumption DEF Chart!ConstantsOK

\* Max and Min of the numbers a module takes them of.
LEMMA MaxIsIn ==
  ASSUME NEW S, IsFiniteSet(S), S \subseteq Int, S # {}
  PROVE  Chart!Max(S) \in S /\ \A y \in S : y <= Chart!Max(S)
<1>1. PICK m \in S : \A y \in S : m >= y
  BY GreatestOf
<1> QED BY <1>1 DEF Chart!Max

\* the least,
LEMMA MinIsIn ==
  ASSUME NEW S \in SUBSET Nat, S # {}
  PROVE  Chart!Min(S) \in S /\ \A y \in S : Chart!Min(S) <= y
<1>1. PICK m \in S : \A y \in S : m <= y
  BY LeastOf
<1> QED BY <1>1 DEF Chart!Min

\* and the lesser of two.
LEMMA MinOfTwo ==
  ASSUME NEW a \in Int, NEW b \in Int
  PROVE  Chart!Min({a, b}) \in {a, b} /\ Chart!Min({a, b}) <= a /\ Chart!Min({a, b}) <= b
<1>1. PICK m \in {a, b} : \A y \in {a, b} : m <= y
  <2>1. CASE a <= b
    BY <2>1
  <2>2. CASE b <= a
    BY <2>2
  <2> QED BY <2>1, <2>2
<1>2. Chart!Min({a, b}) \in {a, b} /\ \A y \in {a, b} : Chart!Min({a, b}) <= y
  BY <1>1 DEF Chart!Min
<1> QED BY <1>2

\* A day is PerDay bars: the bar that makes the count a multiple ends the day under way.
LEMMA DayIsFull ==
  ASSUME NEW n \in Nat, NEW d \in Nat, NEW p \in Nat \ {0},
         d * p <= n, n < (d + 1) * p, (n + 1) % p = 0
  PROVE  n + 1 = (d + 1) * p
<1> DEFINE q == (n + 1) \div p
<1>1. q \in Nat /\ n + 1 = p * q
  BY SMT
<1> HIDE DEF q
<1>2. CASE q <= d
  <2>1. p * q <= p * d
    BY <1>1, <1>2
  <2> QED BY <1>1, <2>1
<1>3. CASE q >= d + 2
  <2>1. p * q >= p * (d + 2)
    BY <1>1, <1>3
  <2>2. p * (d + 2) = (d + 1) * p + p
    OBVIOUS
  <2> QED BY <1>1, <2>1, <2>2
<1>4. q = d + 1
  BY <1>1, <1>2, <1>3
<1> QED BY <1>1, <1>4

\* or it leaves the day open.
LEMMA DayIsOpen ==
  ASSUME NEW n \in Nat, NEW d \in Nat, NEW p \in Nat \ {0},
         d * p <= n, n < (d + 1) * p, (n + 1) % p # 0
  PROVE  n + 1 < (d + 1) * p
<1>1. SUFFICES ASSUME n + 1 = (d + 1) * p PROVE FALSE
  OBVIOUS
<1>2. (n + 1) % p = 0
  BY <1>1
<1> QED BY <1>2

\* The bar of a day is a bar of its bars.
LEMMA DayTyped ==
  ASSUME NEW c \in Seq(Chart!Bars), Len(c) >= PerDay
  PROVE  Chart!DayOf(c) \in [high : Nat, low : Nat, close : Nat]
<1> DEFINE day == (Len(c) - PerDay + 1) .. Len(c)
           highs == {c[i].high : i \in day}
           lows  == {c[i].low : i \in day}
<1>1. Len(c) \in Nat /\ PerDay \in Nat \ {0} /\ day \subseteq 1 .. Len(c) /\ Len(c) \in day
  BY ChartConstants
<1>2. \A i \in day : c[i].high \in Nat /\ c[i].low \in Nat /\ c[i].close \in Nat
  <2>1. ASSUME NEW i \in day PROVE c[i].high \in Nat /\ c[i].low \in Nat /\ c[i].close \in Nat
    <3>1. i \in 1 .. Len(c)
      BY <1>1
    <3> HIDE DEF day
    <3>2. c[i] \in Chart!Bars
      BY <3>1
    <3> QED BY <3>2 DEF Chart!Bars
  <2> QED BY <2>1
<1>3. IsFiniteSet(day)
  <2>1. Len(c) - PerDay + 1 \in Int
    BY <1>1
  <2> QED BY <1>1, <2>1, FS_Interval
<1>4. IsFiniteSet(highs)
  <2> HIDE DEF day
  <2> DEFINE high == [i \in day |-> c[i].high]
  <2>1. high \in Surjection(day, highs)
    BY DEF Surjection
  <2> HIDE DEF high, highs
  <2> QED BY <1>3, <2>1, FS_Surjection
<1>5. highs \in SUBSET Nat /\ lows \in SUBSET Nat /\ highs # {} /\ lows # {}
  BY <1>1, <1>2
<1> HIDE DEF highs, lows
<1>6. Chart!Max(highs) \in Nat
  <2>1. highs \subseteq Int
    BY <1>5
  <2>2. Chart!Max(highs) \in highs
    BY <1>4, <1>5, <2>1, MaxIsIn
  <2> QED BY <1>5, <2>2
<1>7. Chart!Min(lows) \in Nat
  BY <1>5, MinIsIn
<1>8. Chart!DayOf(c) = [high |-> Chart!Max(highs), low |-> Chart!Min(lows), close |-> c[Len(c)].close]
  BY DEF Chart!DayOf, Chart!Last, highs, lows
<1> QED BY <1>1, <1>2, <1>6, <1>7, <1>8

\* The bars keep their types, and the day under way is never longer than a day.
LEMMA ChartStep ==
  ASSUME Chart!TypeOK, [Chart!Next]_chart
  PROVE  Chart!TypeOK'
<1>1. CASE UNCHANGED chart
  BY <1>1 DEF chart, Chart!TypeOK
<1>2. CASE Chart!Next
  <2>1. PICK b \in Charts[Len(bars) + 1] : Len(bars) < Len(Charts) /\ Chart!BarCloses(b)
    BY <1>2 DEF Chart!Next
  <2>2. /\ bars \in Seq(Chart!Bars) /\ daily \in Seq([high : Nat, low : Nat, close : Nat])
        /\ above \in BOOLEAN /\ worse \in BOOLEAN
        /\ Len(daily) * PerDay <= Len(bars) /\ Len(bars) < (Len(daily) + 1) * PerDay
        /\ Len(bars) \in Nat /\ Len(daily) \in Nat /\ PerDay \in Nat \ {0}
    BY ChartConstants DEF Chart!TypeOK
  <2>3. b \in Chart!Bars
    BY <2>1, <2>2, ChartConstants
  <2>4. bars' = Append(bars, b) /\ bars' \in Seq(Chart!Bars) /\ Len(bars') = Len(bars) + 1
        /\ worse' \in BOOLEAN
    BY <2>1, <2>2, <2>3 DEF Chart!BarCloses
  <2>5. CASE Len(bars') % PerDay = 0
    <3>1. daily' = Append(daily, Chart!DayOf(bars')) /\ above' \in BOOLEAN
      BY <2>1, <2>5 DEF Chart!BarCloses
    <3>2. Len(bars') = (Len(daily) + 1) * PerDay
      BY <2>2, <2>4, <2>5, DayIsFull
    <3>3. Len(bars') >= PerDay
      BY <2>2, <3>2
    <3>4. Chart!DayOf(bars') \in [high : Nat, low : Nat, close : Nat]
      BY <2>4, <3>3, DayTyped
    <3>5. daily' \in Seq([high : Nat, low : Nat, close : Nat]) /\ Len(daily') = Len(daily) + 1
      BY <2>2, <3>1, <3>4
    <3>6. Len(bars') < (Len(daily') + 1) * PerDay /\ Len(daily') * PerDay <= Len(bars')
      BY <2>2, <3>2, <3>5
    <3> QED BY <2>4, <3>1, <3>5, <3>6 DEF Chart!TypeOK
  <2>6. CASE Len(bars') % PerDay # 0
    <3>1. daily' = daily /\ above' = above
      BY <2>1, <2>6 DEF Chart!BarCloses
    <3>2. Len(bars') < (Len(daily) + 1) * PerDay
      BY <2>2, <2>4, <2>6, DayIsOpen
    <3>3. Len(daily) * PerDay <= Len(bars')
      <4>1. Len(daily) * PerDay \in Nat
        BY <2>2
      <4> QED BY <2>2, <2>4, <4>1
    <3> QED BY <2>2, <2>4, <3>1, <3>2, <3>3 DEF Chart!TypeOK
  <2> QED BY <2>5, <2>6
<1> QED BY <1>1, <1>2

\* They have them before the first bar.
LEMMA ChartInit == Chart!Init => Chart!TypeOK
<1>1. SUFFICES ASSUME Chart!Init PROVE Chart!TypeOK
  OBVIOUS
<1>2. Len(bars) = 0 /\ Len(daily) = 0 /\ 0 * PerDay = 0 /\ (0 + 1) * PerDay > 0
  <2>1. bars = <<>> /\ daily = <<>>
    BY <1>1 DEF Chart!Init
  <2>2. PerDay \in Nat \ {0}
    BY ChartConstants
  <2>3. 0 * PerDay = 0 /\ (0 + 1) * PerDay > 0
    BY <2>2
  <2> QED BY <2>1, <2>3
<1>3. bars \in Seq(Chart!Bars) /\ daily \in Seq([high : Nat, low : Nat, close : Nat])
      /\ above \in BOOLEAN /\ worse \in BOOLEAN
  <2>1. \A S : <<>> \in Seq(S)
    OBVIOUS
  <2>2. bars = <<>> /\ daily = <<>> /\ above = FALSE /\ worse = FALSE
    BY <1>1 DEF Chart!Init
  <2> QED BY <2>1, <2>2, Zenon
<1>4. Len(daily) * PerDay <= Len(bars) /\ Len(bars) < (Len(daily) + 1) * PerDay
  <2>1. Len(daily) * PerDay = 0 * PerDay /\ (Len(daily) + 1) * PerDay = (0 + 1) * PerDay
    BY <1>2, Zenon
  <2> QED BY <1>2, <2>1
<1> QED BY <1>3, <1>4 DEF Chart!TypeOK
-----------------------------------------------------------------------------
(* The plans. *)

\* The greatest of three numbers,
LEMMA MaxOfThree ==
  ASSUME NEW a \in Int, NEW b \in Int, NEW c \in Int
  PROVE  Chart!Max({a, b, c}) \in Int
<1>1. PICK m \in {a, b, c} : \A y \in {a, b, c} : m >= y
  <2>1. CASE a >= b /\ a >= c
    BY <2>1
  <2>2. CASE b >= a /\ b >= c
    BY <2>2
  <2>3. CASE c >= a /\ c >= b
    BY <2>3
  <2> QED BY <2>1, <2>2, <2>3
<1>2. Chart!Max({a, b, c}) \in {a, b, c}
  BY <1>1 DEF Chart!Max
<1> QED BY <1>2

\* and of two.
LEMMA MaxOfTwo ==
  ASSUME NEW a \in Int, NEW b \in Int
  PROVE  Chart!Max({a, b}) \in Int /\ Chart!Max({a, b}) >= a
<1>1. PICK m \in {a, b} : \A y \in {a, b} : m >= y
  <2>1. CASE a >= b
    BY <2>1
  <2>2. CASE b >= a
    BY <2>2
  <2> QED BY <2>1, <2>2
<1>2. Chart!Max({a, b}) \in {a, b} /\ \A y \in {a, b} : Chart!Max({a, b}) >= y
  BY <1>1 DEF Chart!Max
<1> QED BY <1>2

\* A bar is of whole numbers.
LEMMA BarTyped ==
  ASSUME Chart!TypeOK, NEW i \in 1 .. Len(bars)
  PROVE  /\ bars[i].open \in Nat /\ bars[i].high \in Nat /\ bars[i].low \in Nat
         /\ bars[i].close \in Nat
<1>1. bars[i] \in Chart!Bars
  BY DEF Chart!TypeOK
<1> QED BY <1>1 DEF Chart!Bars

\* averageTrueRange: the range of a bar is a number,
LEMMA TrueRangeIsInt ==
  ASSUME Chart!TypeOK, NEW i \in 2 .. Len(bars)
  PROVE  Chart!TrueRange(i) \in Int
<1>1. Len(bars) \in Nat /\ i \in 1 .. Len(bars) /\ i - 1 \in 1 .. Len(bars)
  BY DEF Chart!TypeOK
<1>2. /\ bars[i].high \in Nat /\ bars[i].low \in Nat /\ bars[i - 1].close \in Nat
  BY <1>1, BarTyped
<1> DEFINE before == bars[i - 1].close
           Apart(x, y) == IF x > y THEN x - y ELSE y - x
<1>3. /\ bars[i].high - bars[i].low \in Int
      /\ Apart(bars[i].high, before) \in Int /\ Apart(bars[i].low, before) \in Int
  BY <1>2
<1>4. Chart!TrueRange(i)
        = Chart!Max({bars[i].high - bars[i].low, Apart(bars[i].high, before), Apart(bars[i].low, before)})
  BY DEF Chart!TrueRange
<1> HIDE DEF Apart
<1> QED BY <1>3, <1>4, MaxOfThree

\* and so is the sum of them that the stops are measured by.
LEMMA TrueRangesIsInt ==
  ASSUME Chart!TypeOK, Len(bars) > AtrPeriod
  PROVE  Chart!TrueRanges \in Int
<1> DEFINE S == (Len(bars) - AtrPeriod + 1) .. Len(bars)
           g == [i \in S |-> Chart!TrueRange(i)]
           Body(f, s) == IF s = {} THEN 0
                         ELSE Chart!TrueRange(CHOOSE x \in s : TRUE) + f[s \ {CHOOSE x \in s : TRUE}]
           sum == CHOOSE f : f = [s \in SUBSET S |-> Body(f, s)]
<1>1. Len(bars) \in Nat /\ AtrPeriod \in Nat
  BY ChartConstants DEF Chart!TypeOK
<1>2. IsFiniteSet(S)
  <2>1. Len(bars) - AtrPeriod + 1 \in Int
    BY <1>1
  <2> QED BY <1>1, <2>1, FS_Interval
<1>3. \A i \in S : g[i] \in Int
  <2>1. ASSUME NEW i \in S PROVE g[i] \in Int
    <3>1. i \in 2 .. Len(bars)
      BY <1>1
    <3>2. Chart!TrueRange(i) \in Int
      BY <3>1, TrueRangeIsInt
    <3> QED BY <3>2
  <2> QED BY <2>1
<1>4. Chart!TrueRanges = sum[S]
  BY DEF Chart!TrueRanges, Chart!MapThenSumSet, Chart!MapThenFoldSet
<1>5. ASSUME NEW f, NEW s \in SUBSET S PROVE Body(f, s) = SumStep(g, f, s)
  <2>1. CASE s = {}
    BY <2>1 DEF SumStep
  <2>2. CASE s # {}
    <3>1. Taken(s) \in S /\ Taken(s) = CHOOSE x \in s : TRUE
      BY <2>2, TakenIn DEF Taken
    <3>2. g[Taken(s)] = Chart!TrueRange(Taken(s))
      BY <3>1
    <3> HIDE DEF g, S
    <3> QED BY <2>2, <3>1, <3>2 DEF SumStep
  <2> QED BY <2>1, <2>2
<1> HIDE DEF S, g, Body
<1>6. PICK f : SumsOn(g, f, S)
  BY <1>2, <1>3, SumExists
<1>7. f = [s \in SUBSET S |-> Body(f, s)]
  <2>1. f \in [SUBSET S -> Int] /\ \A s \in SUBSET S : f[s] = SumStep(g, f, s)
    BY <1>6 DEF SumsOn, Sums
  <2>2. \A s \in SUBSET S : f[s] = Body(f, s)
    BY <1>5, <2>1
  <2> QED BY <2>1, <2>2
<1>8. sum = [s \in SUBSET S |-> Body(sum, s)]
  BY <1>7, Zenon
<1> HIDE DEF sum
<1>9. Sums(g, sum, S)
  <2>1. ASSUME NEW s \in SUBSET S PROVE sum[s] = SumStep(g, sum, s)
    <3>1. sum[s] = Body(sum, s)
      BY <1>8, Zenon
    <3> QED BY <1>5, <3>1
  <2> QED BY <2>1 DEF Sums
<1>10. f[S] = sum[S] /\ f[S] \in Int
  BY <1>2, <1>6, <1>9, SumsAgree DEF SumsOn
<1> QED BY <1>4, <1>10

\* Prices in units keep their order,
LEMMA LargerUnits ==
  ASSUME NEW u \in Nat \ {0}, NEW a \in Int, NEW b \in Int, a < b
  PROVE  u * a < u * b
OBVIOUS

\* strictly or not.
LEMMA NotLessUnits ==
  ASSUME NEW u \in Nat \ {0}, NEW a \in Int, NEW b \in Int, a <= b
  PROVE  u * a <= u * b
OBVIOUS

\* So is a day.
LEMMA DayBarTyped ==
  ASSUME Chart!TypeOK, NEW i \in 1 .. Len(daily)
  PROVE  daily[i].high \in Nat /\ daily[i].low \in Nat /\ daily[i].close \in Nat
<1> DEFINE Days == [high : Nat, low : Nat, close : Nat]
<1>1. daily \in Seq(Days)
  BY DEF Chart!TypeOK
<1> HIDE DEF Days
<1>2. daily[i] \in Days
  BY <1>1
<1> QED BY <1>2 DEF Days

\* readMarketStructure: with two swings on each side there is a level above and one below.
LEMMA LevelsTyped ==
  ASSUME Chart!TypeOK, Chart!HasStructure
  PROVE  /\ Chart!Resistance \in Nat /\ Chart!Support \in Nat
         /\ Chart!SwingHighs(daily) \subseteq 1 .. Len(daily)
         /\ Len(daily) \in Nat /\ Len(daily) > 0
         /\ Chart!Last(daily).close \in Nat
<1>1. Len(daily) \in Nat /\ Width \in Nat
      /\ \A i \in 1 .. Len(daily) : /\ daily[i].high \in Nat /\ daily[i].low \in Nat
                                    /\ daily[i].close \in Nat
  <2>1. Len(daily) \in Nat
    BY DEF Chart!TypeOK
  <2> QED BY <2>1, ChartConstants, DayBarTyped
<1>2. Chart!SwingHighs(daily) \subseteq 1 .. Len(daily) /\ Chart!SwingLows(daily) \subseteq 1 .. Len(daily)
  BY <1>1 DEF Chart!SwingHighs, Chart!SwingLows
<1>3. IsFiniteSet(1 .. Len(daily))
  BY <1>1, FS_Interval
<1>4. IsFiniteSet(Chart!SwingHighs(daily)) /\ IsFiniteSet(Chart!SwingLows(daily))
  BY <1>2, <1>3, FS_Subset
<1>5. Chart!SwingHighs(daily) # {} /\ Chart!SwingLows(daily) # {}
  <2>1. \A S : Chart!Cardinality(S) = Cardinality(S)
    BY DEF Chart!Cardinality, Cardinality
  <2>2. Cardinality({}) = 0
    BY FS_EmptySet
  <2> QED BY <2>1, <2>2 DEF Chart!HasStructure
<1>6. /\ Chart!SwingHighs(daily) \subseteq Int /\ Chart!SwingLows(daily) \subseteq Int
  BY <1>1, <1>2
<1>7. /\ Chart!Max(Chart!SwingHighs(daily)) \in 1 .. Len(daily)
      /\ Chart!Max(Chart!SwingLows(daily)) \in 1 .. Len(daily)
  BY <1>2, <1>4, <1>5, <1>6, MaxIsIn
<1>8. Chart!Resistance \in Nat /\ Chart!Support \in Nat
  BY <1>1, <1>7 DEF Chart!Resistance, Chart!Support, Chart!Latest
<1>9. Len(daily) > 0
  BY <1>1, <1>7
<1> QED BY <1>1, <1>2, <1>8, <1>9 DEF Chart!Last

\* nextResistanceAbove: a target is above the price.
LEMMA TargetsTyped ==
  ASSUME Chart!TypeOK, Chart!HasStructure, NEW price \in Nat, NEW own,
         own = {} \/ \E r \in Nat : own = {r}, NEW t \in Chart!Targets(own, price)
  PROVE  t \in Nat /\ t > price
<1> DEFINE highs == {daily[i].high : i \in Chart!SwingHighs(daily)}
           higher == {h \in highs : h > price}
<1>1. \A i \in 1 .. Len(daily) : daily[i].high \in Nat
  BY DayBarTyped
<1>2. Chart!SwingHighs(daily) \subseteq 1 .. Len(daily)
  BY LevelsTyped
<1>3. higher \in SUBSET Nat
  BY <1>1, <1>2
<1>4. Chart!Targets(own, price)
        = IF own \cap higher # {} THEN own ELSE IF higher = {} THEN {} ELSE {Chart!Min(higher)}
  BY DEF Chart!Targets
<1>5. \A h \in higher : h > price
  OBVIOUS
<1> HIDE DEF higher
<1>6. CASE own \cap higher # {}
  <2>1. own \subseteq higher /\ t \in own
    BY <1>4, <1>6
  <2> QED BY <1>3, <1>5, <2>1
<1>7. CASE own \cap higher = {}
  <2>1. higher # {} /\ t = Chart!Min(higher)
    BY <1>4, <1>7
  <2>2. t \in higher
    BY <1>3, <2>1, MinIsIn
  <2> QED BY <1>3, <1>5, <2>2
<1> QED BY <1>6, <1>7

\* finish: a plan is what it was called with, and worth its risk.
LEMMA Finished ==
  ASSUME Chart!TypeOK, Chart!HasStructure, Len(bars) > 0,
         NEW kind, NEW level, NEW stop \in Int, NEW own,
         own = {} \/ \E r \in Nat : own = {r}, NEW p \in Chart!Finish(kind, level, own, stop)
  PROVE  /\ p.kind = kind /\ p.level = Chart!Unit * level /\ p.stop = stop
         /\ p.entry = Chart!Unit * Chart!Last(bars).close
         /\ p.target - p.entry >= MinReward * (p.entry - p.stop)
         /\ p.entry < p.target
<1> DEFINE close == Chart!Last(bars).close
           entry == Chart!Unit * close
<1>1. PICK t \in Chart!Targets(own, close) :
        /\ stop < entry /\ Chart!Unit * t - entry >= MinReward * (entry - stop)
        /\ p = [kind |-> kind, level |-> Chart!Unit * level, entry |-> entry, stop |-> stop,
                target |-> Chart!Unit * t]
  BY DEF Chart!Finish
<1>2. close \in Nat
  <2>1. Len(bars) \in 1 .. Len(bars)
    BY DEF Chart!TypeOK
  <2> QED BY <2>1, BarTyped DEF Chart!Last
<1> HIDE DEF close
<1>3. t \in Nat /\ t > close
  BY <1>1, <1>2, TargetsTyped
<1>4. Chart!Unit \in Nat \ {0}
  BY ChartConstants DEF Chart!Unit
<1>5. entry < Chart!Unit * t
  BY <1>2, <1>3, <1>4, LargerUnits
<1> HIDE DEF entry
<1>6. /\ p.kind = kind /\ p.level = Chart!Unit * level /\ p.entry = entry /\ p.stop = stop
      /\ p.target = Chart!Unit * t
  BY <1>1
<1> QED BY <1>1, <1>5, <1>6 DEF entry, close

\* What all setups are read on.
LEMMA SetupFacts ==
  ASSUME Chart!TypeOK, Chart!HasStructure, Len(bars) > AtrPeriod
  PROVE  /\ Chart!Unit \in Nat \ {0} /\ Len(bars) \in 1 .. Len(bars)
         /\ Len(bars) - 1 \in 1 .. Len(bars)
         /\ bars[Len(bars)].low \in Nat /\ bars[Len(bars)].close \in Nat
         /\ bars[Len(bars) - 1].low \in Nat
         /\ Chart!Last(bars) = bars[Len(bars)]
<1>1. Len(bars) \in Nat /\ AtrPeriod \in Nat \ {0}
  BY ChartConstants DEF Chart!TypeOK
<1>2. Chart!Unit \in Nat \ {0}
  BY <1>1 DEF Chart!Unit
<1>3. Len(bars) \in 1 .. Len(bars) /\ Len(bars) - 1 \in 1 .. Len(bars)
  BY <1>1
<1> QED BY <1>2, <1>3, BarTyped DEF Chart!Last

\* What PlanIsSound says of a plan.
PlanHolds(p) ==
  /\ p.stop < p.level /\ p.level < p.entry /\ p.entry < p.target
  /\ p.target - p.entry >= MinReward * (p.entry - p.stop)
  /\ p.stop < Chart!Unit * Chart!Last(bars).low
  /\ p.kind = "pullback" => /\ p.stop < Chart!Unit * bars[Len(bars) - 1].low
                            /\ Chart!Last(daily).close >= Chart!Support

\* A pullback's plan holds,
LEMMA PullbackHolds ==
  ASSUME Chart!TypeOK, Chart!HasStructure, Len(bars) > AtrPeriod, Chart!TrueRanges > 0,
         NEW p \in Chart!Pullbacks
  PROVE  PlanHolds(p)
<1> DEFINE u == Chart!Unit
           low == bars[Len(bars)].low
           before == bars[Len(bars) - 1].low
           close == bars[Len(bars)].close
           least == Chart!Min({Chart!Support, Chart!Touched})
<1>1. /\ u \in Nat \ {0} /\ low \in Nat /\ before \in Nat /\ close \in Nat
      /\ Chart!Last(bars) = bars[Len(bars)]
  BY SetupFacts
<1>2. Chart!TrueRanges \in Int
  BY TrueRangesIsInt
<1>3. /\ Chart!Resistance \in Nat /\ Chart!Support \in Nat /\ Chart!Last(daily).close \in Nat
  BY LevelsTyped
<1>4. /\ Chart!Trend = "up" /\ close > Chart!Support
      /\ p \in Chart!Finish("pullback", Chart!Support, {Chart!Resistance}, Chart!PullbackStop)
  BY <1>1 DEF Chart!Pullbacks
<1>5. Chart!Last(daily).close >= Chart!Support
  <2>1. ~Chart!UpBroken /\ Chart!HigherLow
    BY <1>4 DEF Chart!Trend, Chart!Broken
  <2> QED BY <1>3, <2>1 DEF Chart!UpBroken
<1>6. Chart!Touched \in Int /\ Chart!Touched <= low /\ Chart!Touched <= before
  <2>1. Chart!Touched = Chart!Min({low, before}) /\ low \in Int /\ before \in Int
    BY <1>1 DEF Chart!Touched
  <2> HIDE DEF low, before
  <2>2. Chart!Min({low, before}) \in {low, before} /\ Chart!Min({low, before}) <= low
        /\ Chart!Min({low, before}) <= before
    BY <2>1, MinOfTwo
  <2> QED BY <2>1, <2>2
<1>7. least \in Int /\ least <= Chart!Support /\ least <= low /\ least <= before
  <2>1. Chart!Support \in Int /\ Chart!Touched \in Int
    BY <1>3, <1>6
  <2>2. least \in {Chart!Support, Chart!Touched} /\ least <= Chart!Support /\ least <= Chart!Touched
    BY <2>1, MinOfTwo
  <2> HIDE DEF least
  <2> QED BY <1>1, <1>3, <1>6, <2>1, <2>2
<1>8. Chart!PullbackStop = u * least - Chart!TrueRanges
  BY DEF Chart!PullbackStop
<1> HIDE DEF u, low, before, close, least
<1>9. u * least <= u * Chart!Support /\ u * least <= u * low /\ u * least <= u * before
      /\ u * Chart!Support < u * close
  BY <1>1, <1>3, <1>4, <1>7, NotLessUnits, LargerUnits
<1>10. /\ u * least \in Int /\ u * Chart!Support \in Int /\ u * low \in Int /\ u * before \in Int
  BY <1>1, <1>3, <1>7
<1>11. Chart!PullbackStop \in Int /\ Chart!PullbackStop < u * Chart!Support
       /\ Chart!PullbackStop < u * low /\ Chart!PullbackStop < u * before
  BY <1>2, <1>8, <1>9, <1>10
<1>12. Len(bars) > 0
  BY ChartConstants DEF Chart!TypeOK
<1>13. /\ p.kind = "pullback" /\ p.level = u * Chart!Support /\ p.stop = Chart!PullbackStop
       /\ p.entry = u * Chart!Last(bars).close
       /\ p.target - p.entry >= MinReward * (p.entry - p.stop)
       /\ p.entry < p.target
  BY <1>3, <1>4, <1>11, <1>12, Finished DEF u
<1> QED BY <1>1, <1>5, <1>9, <1>11, <1>13 DEF PlanHolds, u, low, before, close

\* a retest's does,
LEMMA RetestHolds ==
  ASSUME Chart!TypeOK, Chart!HasStructure, Len(bars) > AtrPeriod, Chart!TrueRanges > 0,
         NEW p \in Chart!Retests
  PROVE  PlanHolds(p)
<1> DEFINE u == Chart!Unit
           low == bars[Len(bars)].low
           close == bars[Len(bars)].close
           level == u * Chart!Resistance - 2 * Chart!TrueRanges
           wick  == u * low - Chart!TrueRanges
           first == Chart!Min(Chart!Breakouts)
<1>1. /\ u \in Nat \ {0} /\ low \in Nat /\ close \in Nat
      /\ Chart!Last(bars) = bars[Len(bars)] /\ Len(bars) \in Nat /\ Len(bars) > 0
  BY SetupFacts
<1>2. Chart!TrueRanges \in Int
  BY TrueRangesIsInt
<1>3. /\ Chart!Resistance \in Nat
  BY LevelsTyped
<1>4. /\ Chart!Breakouts # {}
      /\ \A i \in (first + 1) .. Len(bars) : bars[i].close > Chart!Resistance
      /\ p \in Chart!Finish("breakout_retest", Chart!Resistance, {}, Chart!Min({level, wick}))
  BY <1>1 DEF Chart!Retests
<1>5. Chart!Breakouts \subseteq Chart!Max({Lookback + 2, Len(bars) - Window}) .. (Len(bars) - 1)
  BY Zenon DEF Chart!Breakouts
<1>6. first \in Nat /\ first <= Len(bars) - 1
  <2>1. /\ Lookback + 2 \in Int /\ Len(bars) - Window \in Int /\ Lookback + 2 >= 0
    BY <1>1, ChartConstants
  <2>2. Chart!Max({Lookback + 2, Len(bars) - Window}) \in Nat
    <3>1. /\ Chart!Max({Lookback + 2, Len(bars) - Window}) \in Int
          /\ Chart!Max({Lookback + 2, Len(bars) - Window}) >= Lookback + 2
      BY <2>1, MaxOfTwo
    <3> QED BY <2>1, <3>1
  <2>3. Chart!Breakouts \in SUBSET Nat
    BY <1>1, <1>5, <2>2
  <2>4. first \in Chart!Breakouts
    BY <1>4, <2>3, MinIsIn
  <2> HIDE DEF first
  <2> QED BY <1>1, <1>5, <2>2, <2>4
<1> HIDE DEF first
<1>7. close > Chart!Resistance
  <2>1. Len(bars) \in (first + 1) .. Len(bars)
    BY <1>1, <1>6
  <2> QED BY <1>4, <2>1
<1> HIDE DEF u, low, close
<1>8. u * Chart!Resistance < u * close /\ u * Chart!Resistance \in Int /\ u * low \in Int
  BY <1>1, <1>3, <1>7, LargerUnits
<1>9. level \in Int /\ wick \in Int /\ level < u * Chart!Resistance /\ wick < u * low
  BY <1>2, <1>8
<1> HIDE DEF level, wick
<1> DEFINE stop == Chart!Min({level, wick})
<1>10. stop \in Int /\ stop <= level /\ stop <= wick
  <2>1. stop \in {level, wick} /\ stop <= level /\ stop <= wick
    BY <1>9, MinOfTwo
  <2> HIDE DEF stop
  <2> QED BY <1>9, <2>1
<1>11. /\ p.kind = "breakout_retest" /\ p.level = u * Chart!Resistance /\ p.stop = stop
       /\ p.entry = u * Chart!Last(bars).close
       /\ p.target - p.entry >= MinReward * (p.entry - p.stop)
       /\ p.entry < p.target
  <2> HIDE DEF stop
  <2>1. p \in Chart!Finish("breakout_retest", Chart!Resistance, {}, stop)
    BY <1>4 DEF stop
  <2> QED BY <1>1, <1>10, <2>1, Finished DEF u
<1> HIDE DEF stop
<1>12. stop < u * Chart!Resistance /\ stop < u * low
  BY <1>8, <1>9, <1>10
<1> QED BY <1>1, <1>8, <1>11, <1>12 DEF PlanHolds, u, low, close

\* and there is no other.
LEMMA PlansHold ==
  ASSUME Chart!TypeOK PROVE Chart!PlanIsSound
<1>1. ASSUME NEW p \in Chart!Setups PROVE PlanHolds(p)
  <2>1. /\ Chart!HasStructure /\ Len(bars) > AtrPeriod /\ Chart!TrueRanges > 0
        /\ p \in Chart!Pullbacks \cup Chart!Retests
    BY <1>1 DEF Chart!Setups
  <2> QED BY <2>1, PullbackHolds, RetestHolds
<1> QED BY <1>1 DEF PlanHolds, Chart!PlanIsSound
-----------------------------------------------------------------------------
(* The chart as it is played. *)

\* A market that is played and one whose chart is played: each part of what is read
\* behaves as its own module says, whichever moves.
THEOREM EachIsItsModule == ReadSpec => Spec /\ Chart!Spec
<1>1. ReadInit => Init /\ Chart!Init
  BY ChartAssumption DEF ReadInit, Init
<1>2. [ReadNext]_<<playing, market, chart>> => [Next]_market /\ [Chart!Next]_Chart!vars
  BY DEF ReadNext, chart, Chart!vars
<1> QED BY <1>1, <1>2, PTL DEF ReadSpec, Spec, Chart!Spec

\* detectSetups: whatever the bars, a plan it hands out has its stop under the level
\* and under the bars it was read on, its entry between the level and the target and
\* its reward worth the risk; and a pullback stands on a low no daily close has lost.
THEOREM PlansCanBeCarriedOut == ReadSpec => []PlanIsSound
<1>1. Chart!TypeOK /\ [Chart!Next]_Chart!vars => Chart!TypeOK'
  BY ChartStep DEF chart, Chart!vars
<1>2. Chart!TypeOK => PlanIsSound
  BY PlansHold DEF PlanIsSound
<1> QED BY <1>1, <1>2, ChartInit, EachIsItsModule, PTL DEF Chart!Spec

\* findPivots: whatever bar comes next, the swings confirmed so far are the ones of
\* the bars they were confirmed on, no more and no less.
THEOREM SwingsAreNotRedrawn == ReadSpec => SwingsStand
<1> DEFINE Days == [high : Nat, low : Nat, close : Nat]
<1>0. Width \in Nat
  BY ChartConstants
<1>1. ASSUME Chart!TypeOK, Chart!TypeOK', [Chart!Next]_Chart!vars
      PROVE  [Chart!Kept(daily, daily')]_chart
  <2> SUFFICES ASSUME Chart!Next PROVE Chart!Kept(daily, daily')
    BY <1>1 DEF Chart!vars, chart
  <2> DEFINE c == daily
             d == daily'
             n == Len(daily)
  <2>1. /\ n \in Nat /\ DOMAIN c = 1 .. n
        /\ Len(d) \in Nat /\ n <= Len(d)
        /\ \A i \in 1 .. n : d[i] = c[i]
    <3> HIDE DEF Days
    <3>1. daily \in Seq(Days) /\ daily' \in Seq(Days)
      BY <1>1 DEF Chart!TypeOK, Days
    <3>2. CASE daily' = Append(daily, Chart!DayOf(bars'))
      <4>1. Len(daily') = Len(daily) + 1 /\ \A i \in 1 .. Len(daily) : daily'[i] = daily[i]
        BY <3>1, <3>2
      <4> QED BY <3>1, <4>1
    <3>3. CASE daily' = daily
      BY <3>1, <3>3
    <3> QED BY <3>2, <3>3 DEF Chart!Next, Chart!BarCloses
  <2> HIDE DEF c, d, n
  <2>2. ASSUME NEW i \in (Width + 1) .. (n - Width), NEW j \in Chart!Around(i) \cup {i}
        PROVE  d[j] = c[j]
    BY <1>0, <2>1 DEF Chart!Around
  <2>3. Chart!SwingHighs(c) = Chart!SwingHighs(d) \cap 1 .. (n - Width)
    <3> DEFINE High(b, i) == \A j \in Chart!Around(i) :
                               IF j < i THEN b[j].high < b[i].high ELSE b[j].high <= b[i].high
    <3>1. \A i \in (Width + 1) .. (n - Width) : High(c, i) <=> High(d, i)
      BY <2>2
    <3>2. /\ Chart!SwingHighs(c) = {i \in (Width + 1) .. (n - Width) : High(c, i)}
          /\ Chart!SwingHighs(d) = {i \in (Width + 1) .. (Len(d) - Width) : High(d, i)}
      BY DEF Chart!SwingHighs, n, c
    <3> HIDE DEF High
    <3> QED BY <1>0, <2>1, <3>1, <3>2
  <2>4. Chart!SwingLows(c) = Chart!SwingLows(d) \cap 1 .. (n - Width)
    <3> DEFINE Low(b, i) == \A j \in Chart!Around(i) :
                              IF j < i THEN b[j].low > b[i].low ELSE b[j].low >= b[i].low
    <3>1. \A i \in (Width + 1) .. (n - Width) : Low(c, i) <=> Low(d, i)
      BY <2>2
    <3>2. /\ Chart!SwingLows(c) = {i \in (Width + 1) .. (n - Width) : Low(c, i)}
          /\ Chart!SwingLows(d) = {i \in (Width + 1) .. (Len(d) - Width) : Low(d, i)}
      BY DEF Chart!SwingLows, n, c
    <3> HIDE DEF Low
    <3> QED BY <1>0, <2>1, <3>1, <3>2
  <2> QED BY <2>1, <2>3, <2>4 DEF Chart!Kept, c, d, n
<1>2. Chart!TypeOK /\ [Chart!Next]_Chart!vars => Chart!TypeOK'
  BY ChartStep DEF chart, Chart!vars
<1>3. Chart!TypeOK /\ Chart!TypeOK' /\ [Chart!Next]_Chart!vars => [Chart!Kept(daily, daily')]_chart
  BY <1>1
<1> QED BY <1>2, <1>3, ChartInit, EachIsItsModule, PTL DEF Chart!Spec, SwingsStand
=============================================================================
