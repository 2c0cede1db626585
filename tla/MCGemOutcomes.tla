----------------------------- MODULE MCGemOutcomes -----------------------------
(* GemOutcomes with two tokens of one chain, asked for in one request. *)
EXTENDS GemOutcomes

CONSTANT c1

OneChain    == [t \in Tokens |-> c1]
SameRequest == [t \in Tokens |-> 1]
=============================================================================
