------------------------------- MODULE MCRecords -------------------------------
(***************************************************************************)
(* A small instance of Records: two of each part overlap.  The replays are *)
(* the boot of a worker and the command, beside the live collector.  The   *)
(* signals are one that fired live and one that a replay wrote, of two     *)
(* timeframes; the tracker and the drain of a replay price them.  The      *)
(* patches of the trade are one of each field and one that reopens it.     *)
(***************************************************************************)
EXTENDS Records, TLC

TwoReplays == {"boot", "command"}
TheCommand == {"command"}
OneSymbol  == {"s"}
NoSymbol   == {}

TwoPasses  == {"tracker", "drain"}
TheDrain   == {"drain"}
TwoSignals == {1, 2}
OneType    == <<"a", "a">>
TwoFrames  == <<"5m", "15m">>
TwoSources == <<"live", "backfill">>
OneHorizon == {2}

OneTrade  == {"t"}
TwoPrices == {1, 2}
Nothing   == [f \in {"side", "entry", "exit", "size", "stop"} |-> Absent]
SixPatches ==
  { [Nothing EXCEPT !.entry = 2], [Nothing EXCEPT !.side = "short"], [Nothing EXCEPT !.exit = 2],
    [Nothing EXCEPT !.exit = None], [Nothing EXCEPT !.stop = 1], [Nothing EXCEPT !.size = None] }

TwoSymmetry == Permutations(Runs)
=============================================================================
