----------------------------- MODULE MarketRead -----------------------------
(***************************************************************************)
(* What the engines say of one market from one closed candle to the next.  *)
(*                                                                         *)
(* A new candle brings a whole new snapshot; here it comes one reading at  *)
(* a time, so that a step shows what that reading alone does to the        *)
(* signals, to Health and to Leverage Risk.                                *)
(***************************************************************************)
EXTENDS HealthEngine

CONSTANTS \* the readings a candle may bring, each a field of the snapshot
  Prices, SpotLegs, FuturesLegs, Interests, Fundings, Liquidations, Qualities

\* computeMarketSnapshot and computeFuturesOnlySnapshot.
Snapshots ==
  [price    : [change : Int, baseline : Nat, atr : Nat],
   spot     : [listed : BOOLEAN, skew : Int, volume : Nat, basis : Int],
   futures  : [skew : Int, volume : Nat],
   interest : [change : Int, velocity : Int],
   funding  : Int,
   forced   : [longs : Nat, shorts : Nat, usual : Nat],
   quality  : 0 .. 100]

Readings ==
  [price : Prices, spot : SpotLegs, futures : FuturesLegs, interest : Interests,
   funding : Fundings, forced : Liquidations, quality : Qualities]

ASSUME ReadingsAssumption ==
  /\ Prices \subseteq [change : Int, baseline : Nat, atr : Nat]
  /\ SpotLegs \subseteq [listed : BOOLEAN, skew : Int, volume : Nat, basis : Int]
  /\ FuturesLegs \subseteq [skew : Int, volume : Nat]
  /\ Interests \subseteq [change : Int, velocity : Int]
  /\ Fundings \subseteq Int
  /\ Liquidations \subseteq [longs : Nat, shorts : Nat, usual : Nat]
  /\ Qualities \subseteq 0 .. 100

VARIABLE market \* the snapshot of the latest closed candle

Init == market \in Readings

PriceMoves        == \E p \in Prices : market' = [market EXCEPT !.price = p]
SpotMoves         == \E l \in SpotLegs : market' = [market EXCEPT !.spot = l]
FuturesMove       == \E f \in FuturesLegs : market' = [market EXCEPT !.futures = f]
OpenInterestMoves == \E o \in Interests : market' = [market EXCEPT !.interest = o]
FundingMoves      == \E r \in Fundings : market' = [market EXCEPT !.funding = r]
LiquidationsMove  == \E q \in Liquidations : market' = [market EXCEPT !.forced = q]
QualityMoves      == \E d \in Qualities : market' = [market EXCEPT !.quality = d]

Next ==
  \/ PriceMoves \/ SpotMoves \/ FuturesMove \/ OpenInterestMoves
  \/ FundingMoves \/ LiquidationsMove \/ QualityMoves

Spec == Init /\ [][Next]_market
-----------------------------------------------------------------------------
(* Properties. *)

\* A snapshot, signals and components in their ranges.
TypeOK ==
  /\ market \in Snapshots
  /\ \A x \in Signals(market) :
       x.type \in Types /\ x.severity \in INFO .. EXTREME /\ Confidence(x, market) \in 0 .. x.cap
  /\ LET c == HealthComponents(market, TypesIn(Signals(market)))
     IN  \A part \in DOMAIN c : c[part] \in 0 .. 100
  /\ LET c == RiskComponents(market, Signals(market))
     IN  \A part \in DOMAIN c : c[part] \in 0 .. 100

\* The rules run independently and never name a winner, yet no snapshot is read both
\* ways: what contradicts cannot fire together.  The divergence score, which asks
\* for the negative types first, rests on it.
Contradictions ==
  { {"LONG_LIQUIDATION", "SHORT_LIQUIDATION"}, {"LONG_CROWDING", "SHORT_CROWDING"},
    {"PRICE_SPIKE_UP", "PRICE_SPIKE_DOWN"}, {"SHORT_COVERING_POSSIBLE", "LONG_LIQUIDATION"},
    {"LEVERAGED_RALLY", "BULLISH_SPOT_DIVERGENCE"},
    {"SPOT_CONFIRMED_RALLY", "SHORT_COVERING_POSSIBLE"},
    {"SPOT_CONFIRMED_RALLY", "SELLING_ABSORPTION_POSSIBLE"} }
  \cup { {"SPOT_CONFIRMED_RALLY", t} : t \in NegativeTypes }

NoContradiction ==
  \A pair \in Contradictions : ~(pair \subseteq TypesIn(Signals(market)))

\* A signal's magnitude is measured by a quantity the rule has gated on, so a signal
\* that fires has passed its threshold and its magnitude is at least 20.
GatedByItsMagnitude ==
  \A x \in Signals(market) : x.threshold > 0 /\ Size(x.value) >= x.threshold

\* The rules written as mirrors of one another are: with price, funding and the
\* liquidated sides reversed, the same fires on the other side, as severe.
Reversed(s) ==
  [s EXCEPT !.price.change = -s.price.change, !.funding = -s.funding,
            !.forced.longs = s.forced.shorts, !.forced.shorts = s.forced.longs]

Opposite ==
  [LONG_LIQUIDATION |-> "SHORT_LIQUIDATION", SHORT_LIQUIDATION |-> "LONG_LIQUIDATION",
   LONG_CROWDING |-> "SHORT_CROWDING", SHORT_CROWDING |-> "LONG_CROWDING",
   PRICE_SPIKE_UP |-> "PRICE_SPIKE_DOWN", PRICE_SPIKE_DOWN |-> "PRICE_SPIKE_UP"]

Mirrored ==
  \A x \in Signals(market) : x.type \in DOMAIN Opposite =>
    \E y \in Signals(Reversed(market)) :
      /\ y.type = Opposite[x.type]
      /\ y.severity = x.severity /\ y.confirmed = x.confirmed

\* Leverage risk is about leverage: what only the spot leg says leaves it alone, and
\* funding that only grows on its side never lowers it, nor does it raise Health.
SpotOnly(s, t) ==
  t = [s EXCEPT !.spot = t.spot] /\ t.spot.basis = s.spot.basis

Stretched(s, t) ==
  /\ t = [s EXCEPT !.funding = t.funding]
  /\ s.funding * t.funding >= 0 /\ Size(t.funding) >= Size(s.funding)

LeverageDrivesRisk ==
  [][/\ SpotOnly(market, market') => RiskScore(market') = RiskScore(market)
     /\ Stretched(market, market') =>
          /\ RiskScore(market') >= RiskScore(market)
          /\ market.spot.listed => HealthScore(market') <= HealthScore(market)]_market
=============================================================================
