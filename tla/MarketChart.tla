----------------------------- MODULE MarketChart -----------------------------
(***************************************************************************)
(* What is read of a market: the engines on its candle, and its chart.     *)
(* They share no state.  A behaviour plays one of them, the other stays as *)
(* it started.                                                             *)
(***************************************************************************)
EXTENDS MarketRead

CONSTANTS Width, AtrPeriod, Lookback, Window, MinReward, PerDay, Charts

VARIABLES playing, bars, daily, above, worse

Chart == INSTANCE ChartSetups

\* A candle brings some reading, or there is nothing to play.
ASSUME ChartAssumption == Chart!ConstantsOK /\ Readings # {}

chart == <<bars, daily, above, worse>>

ReadInit ==
  /\ Chart!Init
  /\ \/ playing = "market" /\ Init
     \/ playing = "chart" /\ market = CHOOSE s \in Readings : TRUE

ReadNext ==
  \/ playing = "market" /\ Next /\ UNCHANGED <<playing, chart>>
  \/ playing = "chart" /\ Chart!Next /\ UNCHANGED <<playing, market>>

ReadSpec == ReadInit /\ [][ReadNext]_<<playing, market, chart>>
-----------------------------------------------------------------------------
\* findPivots: a confirmed swing is not redrawn by the bars that follow.
SwingsStand == [][Chart!Kept(daily, daily')]_chart

\* detectSetups: a plan can be carried out and judged.
PlanIsSound == Chart!TypeOK /\ Chart!PlanIsSound
=============================================================================
