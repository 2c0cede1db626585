------------------------------ MODULE MCGemScan ------------------------------
(***************************************************************************)
(* One token of a chain that RugCheck screens, whatever its reports say.   *)
(***************************************************************************)
EXTENDS GemScan

OneChain  == [t \in Tokens |-> "solana"]
RugChecks == [c \in Chains |-> "rugcheck"]

Pool(depth, volume, change, high) ==
  [liquidity |-> depth, volume |-> volume, age |-> 1, fdv |-> 1, change |-> change,
   security |-> FALSE, priced |-> TRUE, high |-> high]

\* A market of two pools that pass the gate, and one that fell.
SomeMarkets == {{Pool(1, 1, 1, FALSE), Pool(2, 1, 1, TRUE)}, {Pool(0, 0, 1, FALSE)}}
=============================================================================
