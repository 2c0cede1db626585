---------------------------- MODULE HealthEngine ----------------------------
(***************************************************************************)
(* The health engine: Health and Leverage Risk of one snapshot and the     *)
(* signals that fired on it.  Components are kept in whole points, rounded *)
(* down, and the scores are rounded as the code rounds them.               *)
(***************************************************************************)
EXTENDS SignalEngine

SpotConfirmationScore(s) ==
  LET agreement == IF s.price.change < 0 THEN -s.spot.skew ELSE s.spot.skew
  IN  \* the price move is compared with the threshold of the skew
      IF Size(s.price.change) < T.skew
      THEN Clamp(50 + (20 * s.spot.skew) \div T.skew, 0, 100)
      ELSE Clamp(50 + (40 * agreement) \div T.skew, 0, 100)

\* Mutant of FuturesPositioningScore: not clamped.
FuturesPositioningUnbounded(s) == 50 + (25 * s.spot.skew * s.futures.skew) \div (T.skew * T.skew)

FuturesPositioningScore(s) ==
  Clamp(50 + (25 * s.spot.skew * s.futures.skew) \div (T.skew * T.skew), 0, 100)

OpenInterestScore(s) ==
  LET span == IF T.oiStrong = T.oi THEN 1 ELSE T.oiStrong - T.oi
  IN  IF Size(s.interest.change) <= T.oi THEN 80
      ELSE Clamp(80 - (60 * (Size(s.interest.change) - T.oi)) \div span, 10, 80)

\* What neutral, elevated and extreme funding count for.
ByFunding(s, neutral, elevated, extreme) ==
  IF Extreme(s, 1) \/ Extreme(s, -1) THEN extreme
  ELSE IF Neutral(s) THEN neutral ELSE elevated

FundingScore(s) == ByFunding(s, 90, 55, 20)

LiquidationScore(s) ==
  LET spikeAt == T.spike * s.forced.usual
  IN  IF Spike(s) THEN Clamp(85 - (50 * (s.forced.longs + s.forced.shorts - spikeAt)) \div spikeAt, 10, 85) ELSE 85

VolumeScore(ratio) ==
  LET anomaly == VolumeAnomaly(ratio)
  IN  IF anomaly > 0 THEN <<80, 55, 30>>[anomaly]
      ELSE IF ratio < 5 THEN 50 ELSE 90

\* computePriceStructureScore.
StructureScore(s) == 100 - Clamp((8 * s.price.atr) \div 100, 0, 70)

NegativeTypes ==
  {"LEVERAGED_RALLY", "LONG_CROWDING", "SHORT_CROWDING", "LONG_LIQUIDATION", "SHORT_LIQUIDATION"}

DivergenceScore(types) ==
  IF types \cap NegativeTypes # {} THEN 25
  ELSE IF "SPOT_CONFIRMED_RALLY" \in types THEN 90 ELSE 65

\* computeHealthComponents and HEALTH_WEIGHTS.  Null without a spot leg.
HealthComponents(s, types) ==
  [spotConfirmation   |-> SpotConfirmationScore(s),
   futuresPositioning |-> FuturesPositioningScore(s),
   openInterest       |-> OpenInterestScore(s),
   funding            |-> FundingScore(s),
   liquidation        |-> LiquidationScore(s),
   volume             |-> VolumeScore(s.spot.volume),
   priceStructure     |-> StructureScore(s),
   divergence         |-> DivergenceScore(types)]

HealthScore(s) ==
  LET c == HealthComponents(s, TypesIn(Signals(s)))
  IN  Nearest(25 * c.spotConfirmation + 15 * c.futuresPositioning + 15 * c.openInterest
              + 10 * c.funding + 10 * c.liquidation + 10 * c.volume
              + 10 * c.priceStructure + 5 * c.divergence, 100)

HealthStatus(score) ==
  IF score >= 80 THEN "VERY_HEALTHY"
  ELSE IF score >= 65 THEN "HEALTHY"
  ELSE IF score >= 50 THEN "NEUTRAL"
  ELSE IF score >= 35 THEN "WEAK" ELSE "VERY_WEAK"
-----------------------------------------------------------------------------
(* Leverage risk never reads the health components. *)

FundingExtremityRisk(s) == ByFunding(s, 10, 55, 95)
OiVelocityRisk(s) == Clamp((100 * Size(s.interest.velocity)) \div T.oiStrong, 0, 100)
BasisExtremityRisk(s) == Clamp((50 * Size(s.spot.basis)) \div T.basis, 0, 100)

LiquidationAnomalyRisk(s) ==
  IF s.forced.usual = 0 THEN 0
  ELSE Clamp((40 * (s.forced.longs + s.forced.shorts)) \div (T.spike * s.forced.usual), 0, 100)

\* Mutant of VolumeExtremityRisk: the volume of the spot leg.
VolumeExtremityRiskOfSpot(s) == <<10, 30, 60, 90>>[VolumeAnomaly(s.spot.volume) + 1]

VolumeExtremityRisk(s) == <<10, 30, 60, 90>>[VolumeAnomaly(s.futures.volume) + 1]

CrowdingRisk(signals) ==
  LET crowding == {x \in signals : x.type \in {"LONG_CROWDING", "SHORT_CROWDING"}}
  IN  IF crowding = {} THEN 15
      ELSE IF \E x \in crowding : x.severity >= HIGH THEN 90 ELSE 60

RiskComponents(s, signals) ==
  [fundingExtremity   |-> FundingExtremityRisk(s),
   oiVelocity         |-> OiVelocityRisk(s),
   basisExtremity     |-> BasisExtremityRisk(s),
   liquidationAnomaly |-> LiquidationAnomalyRisk(s),
   volumeExtremity    |-> VolumeExtremityRisk(s),
   crowding           |-> CrowdingRisk(signals)]

RiskScore(s) ==
  LET c == RiskComponents(s, Signals(s))
  IN  Nearest(25 * c.fundingExtremity + 20 * c.oiVelocity + 15 * c.basisExtremity
              + 20 * c.liquidationAnomaly + 10 * c.volumeExtremity + 10 * c.crowding, 100)
=============================================================================
