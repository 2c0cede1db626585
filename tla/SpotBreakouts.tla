---------------------------- MODULE SpotBreakouts ----------------------------
(***************************************************************************)
(* runSpotBreakoutCycle: hourly, one real run per UTC day.  Each open      *)
(* position is walked over the daily bars since its entry and its trail    *)
(* raised or the position closed; a coin without one may be entered on the *)
(* day BTC's regime was read.                                              *)
(*                                                                         *)
(* Prices are a few levels.  There is one coin beside BTC, and its bars may *)
(* be stale; BTC's are not.  Runs are those of overlapping workers.        *)
(***************************************************************************)
EXTENDS Naturals, FiniteSets

CONSTANTS
  Runs,      \* workers
  LastDay,   \* bound: days 1 .. LastDay
  Levels,    \* bound: prices are 1 .. Levels
  Lookback,  \* TRAIL_LOOKBACK
  MaxFaults, \* bound: runs that fail or overlap another one
  None       \* no position

\* What the constants are; the module that instantiates this one assumes it.
ConstantsOK ==
  /\ LastDay \in Nat \ {0} /\ Levels \in Nat \ {0} /\ Lookback \in Nat \ {0}
  /\ MaxFaults \in Nat

Days   == 1 .. LastDay
Prices == 1 .. Levels

VARIABLES
  day,    \* the clock: daily bars closed so far
  low,    \* external: the coin's low of each day
  close,  \* external: its close
  broke,  \* external: days whose close is a breakout (detectBreakout)
  up,     \* external: days BTC's regime is up
  rows,   \* spot_breakouts
  done,   \* job_health: the day of the last success, 0 for none
  pc,     \* per run
  now,    \* per run: the day it runs on
  mine,   \* per run: the open position it read, or None
  faults  \* faults so far

bars == <<day, low, close, broke, up>>
vars == <<bars, rows, done, pc, now, mine, faults>>

Positions ==
  [bar : Days, stop : Prices, trail : Prices, status : {"open", "stop", "trail"}, at : 0 .. LastDay]

TypeOK ==
  /\ day \in Days
  /\ low \in [Days -> Prices] /\ close \in [Days -> Prices]
  /\ broke \in SUBSET Days /\ up \in SUBSET Days
  /\ rows \in SUBSET Positions
  \* UNIQUE (symbol, bar_open_time), and one open position per coin
  /\ \A p, q \in rows : p.bar = q.bar \/ (p.status = "open" /\ q.status = "open") => p = q
  /\ done \in 0 .. LastDay
  /\ pc \in [Runs -> {"idle", "open", "coin", "finish"}]
  /\ now \in [Runs -> 0 .. LastDay]
  /\ mine \in [Runs -> Positions \cup {None}]
  /\ faults \in 0 .. MaxFaults

\* The bars of a day.
Bar(d, l, c, b, u) ==
  /\ l <= c
  /\ low' = [low EXCEPT ![d] = l]
  /\ close' = [close EXCEPT ![d] = c]
  /\ broke' = IF b THEN broke \cup {d} ELSE broke
  /\ up' = IF u THEN up \cup {d} ELSE up

\* The model starts on the day of a breakout.
Init ==
  /\ day = 1
  /\ low = [d \in Days |-> 1] /\ close = [d \in Days |-> Levels]
  /\ broke = {1} /\ up \in {{}, {1}}
  /\ rows = {} /\ done = 0
  /\ pc = [r \in Runs |-> "idle"]
  /\ now = [r \in Runs |-> 0]
  /\ mine = [r \in Runs |-> None]
  /\ faults = 0
-----------------------------------------------------------------------------
(* stepBreakout. *)

LowestOf(ds) == CHOOSE l \in {low[d] : d \in ds} : \A d \in ds : l <= low[d]
HighestOf(ls) == CHOOSE l \in ls : \A k \in ls : k <= l

\* The lowest low of the days a .. b, as far as there are bars.
LowestLow(a, b) == LowestOf({d \in Days : a <= d /\ d <= b})
Before(j) == LowestLow(IF j > Lookback THEN j - Lookback ELSE 1, j - 1)

\* The trailing line of day j, raised by the prior lows of each day since the entry.
Line(p, j) == HighestOf({p.stop} \cup {Before(k) : k \in p.bar + 1 .. j})

StopHit(p, j) == low[j] <= p.stop
Under(p, j)   == close[j] < Line(p, j)

\* The days that end position p, of those read.
Ends(p, last) == {j \in p.bar + 1 .. last : StopHit(p, j) \/ Under(p, j)}

\* Mutant of Walked: only the last bar is looked at.
WalkedLast(p, last) == Ends(p, last) \cap {last}

\* The days walked, from the entry on.
Walked(p, last) == Ends(p, last)

\* Where the position stands on the bars up to day `last`.
After(p, last) ==
  LET ends == Walked(p, last)
      j    == CHOOSE x \in ends : \A y \in ends : x <= y
  IN  IF ends = {} THEN [p EXCEPT !.trail = Line(p, last)]
      ELSE IF StopHit(p, j) THEN [p EXCEPT !.status = "stop", !.trail = Line(p, j - 1), !.at = j]
      ELSE [p EXCEPT !.status = "trail", !.trail = Line(p, j), !.at = j]
-----------------------------------------------------------------------------
(* The cycle. *)

Goto(r, place) == pc' = [pc EXCEPT ![r] = place]
Faulty == faults < MaxFaults /\ faults' = faults + 1

\* The first run after the daily close does the work.
Due(d) == done # d

\* BTC's bars and regime are read with the tick.
Tick(r) ==
  /\ pc[r] = "idle"
  /\ Due(day)
  /\ IF \E o \in Runs \ {r} : pc[o] # "idle" THEN Faulty ELSE UNCHANGED faults
  /\ now' = [now EXCEPT ![r] = day]
  /\ Goto(r, "open")
  /\ UNCHANGED <<bars, rows, done, mine>>

\* getOpenSpotBreakouts
ReadOpen(r) ==
  /\ pc[r] = "open"
  /\ LET open == {p \in rows : p.status = "open"}
     IN  mine' = [mine EXCEPT ![r] = IF open = {} THEN None ELSE CHOOSE p \in open : TRUE]
  /\ Goto(r, "coin")
  /\ UNCHANGED <<bars, rows, done, now, faults>>

\* Mutant of Higher: the trail is written as it is.
HigherOrNot(a, b) == b

\* GREATEST(trail, $2)
Higher(a, b) == IF a > b THEN a ELSE b

\* updateSpotBreakoutTrail and closeSpotBreakout: WHERE id = $1 AND status = 'open'.
Follow(r, last) ==
  LET now2 == After(mine[r], last)
      new(p) == IF p.bar = now2.bar /\ p.status = "open"
                  THEN [now2 EXCEPT !.trail = Higher(p.trail, now2.trail)] ELSE p
  IN  rows' = {new(p) : p \in rows}

\* Only the day BTC's regime was read on.
IsNews(last, d) == last \in broke /\ last = d

\* Mutant of Free: no unique index.
FreeAlways(b) == TRUE

\* ON CONFLICT DO NOTHING, on both unique indexes.
Free(b) == \A p \in rows : p.bar # b /\ p.status # "open"

\* detectBreakout on the bars read, and insertSpotBreakout.
Enter(last, d) ==
  LET stop == LowestLow(IF last >= Lookback THEN last + 1 - Lookback ELSE 1, last)
  IN  rows' = IF d \in up /\ IsNews(last, d) /\ stop < close[last] /\ Free(last)
                THEN rows \cup {[bar |-> last, stop |-> stop, trail |-> stop, status |-> "open", at |-> 0]}
                ELSE rows

\* The coin's bars, which may stop before the day of the run, and what follows.
Coin(r) ==
  /\ pc[r] = "coin"
  /\ \E last \in 1 .. now[r] :
       IF mine[r] # None THEN Follow(r, last) ELSE Enter(last, now[r])
  /\ Goto(r, "finish")
  /\ mine' = [mine EXCEPT ![r] = None]
  /\ UNCHANGED <<bars, done, now, faults>>

\* The read of the coin fails, or its query: logged, and the run succeeds.
CoinFails(r) ==
  /\ pc[r] = "coin"
  /\ Goto(r, "finish")
  /\ mine' = [mine EXCEPT ![r] = None]
  /\ UNCHANGED <<bars, rows, done, now, faults>>

\* upsertSpotBreakoutRun and recordJobSuccess, stamped with the time it is then.
Finish(r) ==
  /\ pc[r] = "finish"
  /\ done' = day
  /\ now' = [now EXCEPT ![r] = 0]
  /\ Goto(r, "idle")
  /\ UNCHANGED <<bars, rows, mine, faults>>

\* A read or a query fails and the run with it; or the process dies.
Fails(r) ==
  /\ pc[r] # "idle"
  /\ Faulty
  /\ now' = [now EXCEPT ![r] = 0]
  /\ mine' = [mine EXCEPT ![r] = None]
  /\ Goto(r, "idle")
  /\ UNCHANGED <<bars, rows, done>>

\* A daily bar closes.  That BTC's regime is up makes no difference but on the day
\* of a breakout.
DayCloses ==
  /\ day < LastDay
  /\ day' = day + 1
  /\ \E l, c \in Prices, b, u \in BOOLEAN : (u => b) /\ Bar(day + 1, l, c, b, u)
  /\ UNCHANGED <<rows, done, pc, now, mine, faults>>

Step(r) == Tick(r) \/ ReadOpen(r) \/ Coin(r) \/ CoinFails(r) \/ Finish(r)

Next ==
  \/ \E r \in Runs : Step(r) \/ Fails(r)
  \/ DayCloses

Spec == Init /\ [][Next]_vars
-----------------------------------------------------------------------------
(* Properties. *)

\* stepBreakout "a missed day or a restart cannot leave the trail behind": a
\* position is closed on the first day that ends it, for the reason of that day,
\* however many days no run looked at it and whichever stale bars some run read.
ClosedOnFirstDay ==
  \A p \in rows : p.status # "open" =>
    /\ Ends(p, p.at) = {p.at}
    /\ p.status = IF StopHit(p, p.at) THEN "stop" ELSE "trail"

\* A step of the rows that keeps or raises every trail, and leaves what is closed.
TrailRises ==
  \A p \in rows : \E q \in rows' :
    /\ q.bar = p.bar /\ q.stop = p.stop /\ q.trail >= p.trail
    /\ p.status # "open" => q = p

\* updateSpotBreakoutTrail "never lowers it, whatever the caller passes": no step
\* lowers the trail of a position, nor opens a closed one again.
TrailOnlyRises == [][TrailRises]_vars
=============================================================================
