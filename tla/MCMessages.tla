------------------------------ MODULE MCMessages ------------------------------
(***************************************************************************)
(* A small instance of Messages: two runs of each part overlap.  The scan  *)
(* has a universe of two coins and two exchanges.  The alerts have a chat  *)
(* of the configuration and two that registered: one follows every symbol, *)
(* the other one key and severe signals only.                              *)
(***************************************************************************)
EXTENDS Messages, TLC

TwoKeys        == {"k1", "k2"}
TwoUsers       == {"u1", "u2"}
UserSeverities == "u1" :> 0 @@ "u2" :> 1
UserFollows    == "u1" :> {} @@ "u2" :> {"k1"}

TwoSymmetry == Permutations(Workers)
=============================================================================
