-------------------------- MODULE MCCandlePipeline --------------------------
(* CandlePipeline on a small instance: a symbol listed on both markets. *)
EXTENDS CandlePipeline

BothMarkets == {"spot", "futures"}
=============================================================================
