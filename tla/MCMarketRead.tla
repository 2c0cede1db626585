---------------------------- MODULE MCMarketRead ----------------------------
(***************************************************************************)
(* The engines with the default thresholds and readings on both sides of   *)
(* each, and charts with short windows.                                    *)
(***************************************************************************)
EXTENDS MarketChart, Sequences

Defaults ==
  [price |-> 30, skew |-> 15, oi |-> 2, oiStrong |-> 5, elevated |-> 1, extreme |-> 3,
   volumeElevated |-> 15, volumeAbnormal |-> 20, volumeExtreme |-> 30,
   spike |-> 3, basis |-> 10, shock |-> 3, shockMove |-> 100]

\* No signal type has a record yet: DEFAULT_HISTORICAL_SCORE.
NoHistory == [t \in Types |-> 50]

Moves ==
  { [change |-> p, baseline |-> b, atr |-> 60] : p \in {-120, -30, 20, 30}, b \in {0, 20} }
  \cup {[change |-> 120, baseline |-> 20, atr |-> 600], [change |-> 0, baseline |-> 20, atr |-> 60]}

Spots ==
  { [listed |-> FALSE, skew |-> 0, volume |-> 0, basis |-> 0],
    [listed |-> TRUE, skew |-> -15, volume |-> 4, basis |-> 0],
    [listed |-> TRUE, skew |-> 1, volume |-> 10, basis |-> 0],
    [listed |-> TRUE, skew |-> 40, volume |-> 20, basis |-> 0],
    [listed |-> TRUE, skew |-> 15, volume |-> 30, basis |-> 15] }

Futures ==
  { [skew |-> -40, volume |-> 10], [skew |-> 1, volume |-> 30],
    [skew |-> 15, volume |-> 15], [skew |-> 15, volume |-> 20] }

InterestMoves == { [change |-> o, velocity |-> 4 * o] : o \in {-2, 0, 2, 5} }

Rates == {-3, -1, 0, 1, 3}

Forced ==
  { [longs |-> 0, shorts |-> 0, usual |-> 0], [longs |-> 3, shorts |-> 0, usual |-> 1],
    [longs |-> 2, shorts |-> 4, usual |-> 1], [longs |-> 2, shorts |-> 2, usual |-> 1] }

Scores == {40, 100}
-----------------------------------------------------------------------------
(* Seven days of which the last swings step up, down or sideways under an old *)
(* high, and three bars more that dip to the low, lose it, or break the high, *)
(* with and without volume, and come back to it.                              *)

Bar(o, h, l, c, v) == [open |-> o, high |-> h, low |-> l, close |-> c, volume |-> v]
Flat(l, h) == Bar(l + 1, h, l, h - 1, 1)

Drawn ==
  << {Flat(24, 30)}, {Flat(60, 80)}, {Flat(18, 30)}, {Flat(28, 36)}, {Flat(20, 34), Flat(16, 34)},
     {Flat(26, 40), Flat(26, 36)}, {Flat(24, 30), Flat(24, 40)} >>

Turns ==
  { Bar(23, 25, 19, 24, 1), Bar(19, 22, 17, 21, 1), Bar(21, 22, 18, 19, 1), Bar(28, 31, 27, 30, 1),
    Bar(38, 43, 37, 42, 4), Bar(38, 43, 37, 42, 1), Bar(41, 44, 40, 43, 1) }

\* The charts of 17 bars.
Charted == [i \in 1 .. 17 |-> IF i > 14 THEN Turns ELSE Drawn[(i + 1) \div 2]]
=============================================================================
