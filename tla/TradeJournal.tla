----------------------------- MODULE TradeJournal -----------------------------
(***************************************************************************)
(* The trade journal: trades logged, patched, closed, reopened and deleted *)
(* from the web and from Telegram, by requests that overlap.  A patch reads*)
(* the row to check its stop, reads it again to merge, and writes every    *)
(* column back.                                                            *)
(*                                                                         *)
(* Texts and the symbol are left out, and so is what is read of the market *)
(* to show open trades.  Percent and R are kept as fractions.              *)
(***************************************************************************)
EXTENDS Integers

CONSTANTS
  Requests, \* PATCH requests in flight
  Trades,   \* ids of trade_journal, never used again
  Prices,   \* prices and sizes, above zero
  Patches,  \* the patches that are sent: some of AllPatches
  MaxTime,  \* bound: times 0 .. MaxTime
  None,     \* null
  Absent    \* a field that is not in the patch

Sides == {"spot", "long", "short"}
Times == 0 .. MaxTime

Nullable(S)   == S \cup {None}
AllPatches == [side  : Sides \cup {Absent},
               entry : Prices \cup {Absent},
               exit  : Nullable(Prices) \cup {Absent},
               size  : Nullable(Prices) \cup {Absent},
               stop  : Nullable(Prices) \cup {Absent}]

ConstantsOK ==
  /\ Prices \subseteq Nat \ {0}
  /\ Patches \subseteq AllPatches
  /\ MaxTime \in Nat
  /\ None \notin Prices \cup Times
-----------------------------------------------------------------------------
(* The arithmetic of a trade. *)

Direction(side) == IF side = "short" THEN -1 ELSE 1
Gain(side, entry, exit) == (exit - entry) * Direction(side)
Risk(entry, stop) == IF stop > entry THEN stop - entry ELSE entry - stop

\* computeTradePnl and computeTradeR: percent and R as a gain over what it is
\* measured by, dollars as a gain and a size; no result while the trade is open.
Result(side, entry, exit, size, stop) ==
  IF exit = None THEN None
  ELSE [gain |-> Gain(side, entry, exit), per |-> entry, size |-> size,
        risk |-> IF stop = None THEN None ELSE IF Risk(entry, stop) = 0 THEN None ELSE Risk(entry, stop)]

\* stopProblem: a stop is on the losing side of the entry.
StopFits(side, entry, stop) ==
  stop # None => IF side = "short" THEN stop > entry ELSE stop < entry

Results == [gain : Int, per : Prices, size : Nullable(Prices), risk : Nullable(Nat)]
Rows == [side : Sides, entry : Prices, exit : Nullable(Prices), size : Nullable(Prices),
         stop : Nullable(Prices), result : Nullable(Results),
         status : {"open", "closed"}, closedAt : Nullable(Times)]

VARIABLES
  now,
  used,    \* the ids given so far
  journal, \* trade_journal: the row of an id, or None
  pc,      \* per request
  trade,   \* per request: the id it is for
  patch,   \* per request: its body
  merged   \* per request: the row it will write

vars == <<now, used, journal, pc, trade, patch, merged>>

TypeOK ==
  /\ now \in Times
  /\ used \subseteq Trades
  /\ journal \in [Trades -> Nullable(Rows)]
  /\ pc \in [Requests -> {"idle", "check", "merge", "write"}]
  /\ trade \in [Requests -> Nullable(Trades)]
  /\ patch \in [Requests -> Patches \cup {None}]
  /\ merged \in [Requests -> Rows \cup {None}]
  /\ \A q \in Requests : pc[q] # "idle" => trade[q] \in Trades /\ patch[q] \in Patches
  /\ \A q \in Requests : pc[q] = "write" => merged[q] \in Rows

Init ==
  /\ now = 0
  /\ used = {}
  /\ journal = [t \in Trades |-> None]
  /\ pc = [q \in Requests |-> "idle"]
  /\ trade = [q \in Requests |-> None]
  /\ patch = [q \in Requests |-> None]
  /\ merged = [q \in Requests |-> None]
-----------------------------------------------------------------------------
Goto(q, place) == pc' = [pc EXCEPT ![q] = place]
Exists(t) == journal[t] # None

\* POST /api/journal and insertTrade.
Create(t, side, entry, size, stop) ==
  /\ t \notin used
  /\ used' = used \cup {t}
  /\ StopFits(side, entry, stop)
  /\ journal' = [journal EXCEPT ![t] =
       [side |-> side, entry |-> entry, exit |-> None, size |-> size, stop |-> stop,
        result |-> None, status |-> "open", closedAt |-> None]]
  /\ UNCHANGED <<now, pc, trade, patch, merged>>

\* DELETE /api/journal/:id and deleteTrade.
Delete(t) ==
  /\ Exists(t)
  /\ journal' = [journal EXCEPT ![t] = None]
  /\ UNCHANGED <<now, used, pc, trade, patch, merged>>

\* "The stop is checked against the trade as it will be after the patch".
ChecksStop(p) == p.stop # Absent \/ p.side # Absent \/ p.entry # Absent

\* PATCH /api/journal/:id arrives.
Arrive(q, t, p) ==
  /\ pc[q] = "idle"
  /\ trade' = [trade EXCEPT ![q] = t]
  /\ patch' = [patch EXCEPT ![q] = p]
  /\ Goto(q, IF ChecksStop(p) THEN "check" ELSE "merge")
  /\ UNCHANGED <<now, used, journal, merged>>

\* The value of a field after a patch.
Patched(new, old) == IF new = Absent THEN old ELSE new

\* The request is answered.
Answer(q) ==
  /\ Goto(q, "idle")
  /\ trade' = [trade EXCEPT ![q] = None]
  /\ patch' = [patch EXCEPT ![q] = None]
  /\ merged' = [merged EXCEPT ![q] = None]

\* It goes on, as before.
Proceed(q, place) == Goto(q, place) /\ UNCHANGED <<trade, patch, merged>>

FitsPatched(row, p) ==
  StopFits(Patched(p.side, row.side), Patched(p.entry, row.entry), Patched(p.stop, row.stop))

\* No such trade, a stop that does not fit, or on.
Check(q) ==
  /\ pc[q] = "check"
  /\ IF Exists(trade[q]) /\ FitsPatched(journal[trade[q]], patch[q])
       THEN Proceed(q, "merge") ELSE Answer(q)
  /\ UNCHANGED <<now, used, journal>>

\* The row after a patch; a closed trade that stays closed keeps its time.
Merged(row, p) ==
  LET side  == Patched(p.side, row.side)
      entry == Patched(p.entry, row.entry)
      exit  == Patched(p.exit, row.exit)
      size  == Patched(p.size, row.size)
      stop  == Patched(p.stop, row.stop)
  IN  [side |-> side, entry |-> entry, exit |-> exit, size |-> size, stop |-> stop,
       result |-> Result(side, entry, exit, size, stop),
       status |-> IF exit = None THEN "open" ELSE "closed",
       closedAt |-> IF exit = None THEN None ELSE IF row.status = "closed" THEN row.closedAt ELSE now]

\* updateTrade reads.
Merge(q) ==
  /\ pc[q] = "merge"
  /\ IF Exists(trade[q])
       THEN /\ merged' = [merged EXCEPT ![q] = Merged(journal[trade[q]], patch[q])]
            /\ Goto(q, "write")
            /\ UNCHANGED <<trade, patch>>
       ELSE Answer(q)
  /\ UNCHANGED <<now, used, journal>>

\* Mutant of Written: the columns of the patch, and what was computed.
WrittenPatched(old, new, p) ==
  [new EXCEPT !.side = Patched(p.side, old.side), !.entry = Patched(p.entry, old.entry),
              !.exit = Patched(p.exit, old.exit), !.size = Patched(p.size, old.size),
              !.stop = Patched(p.stop, old.stop)]

\* The row after the UPDATE, which sets every column.
Written(old, new, p) == new

\* updateTrade writes: no row, no update, and an error.
Write(q) ==
  /\ pc[q] = "write"
  /\ journal' = IF Exists(trade[q])
                  THEN [journal EXCEPT ![trade[q]] = Written(@, merged[q], patch[q])] ELSE journal
  /\ Answer(q)
  /\ UNCHANGED <<now, used>>

\* A query fails and the request with it, or the process dies.
Fails(q) ==
  /\ pc[q] # "idle"
  /\ Answer(q)
  /\ UNCHANGED <<now, used, journal>>

Tick ==
  /\ now < MaxTime
  /\ now' = now + 1
  /\ UNCHANGED <<used, journal, pc, trade, patch, merged>>

Step(q) == Check(q) \/ Merge(q) \/ Write(q) \/ Fails(q)

Next ==
  \/ \E t \in Trades, side \in Sides, entry \in Prices, size \in Nullable(Prices), stop \in Nullable(Prices) :
       Create(t, side, entry, size, stop)
  \/ \E t \in Trades : Delete(t)
  \/ \E q \in Requests, t \in Trades, p \in Patches : Arrive(q, t, p)
  \/ \E q \in Requests : Step(q)
  \/ Tick

Spec == Init /\ [][Next]_vars
-----------------------------------------------------------------------------
(* Properties. *)

OfItsRow(row) ==
  /\ row.result = Result(row.side, row.entry, row.exit, row.size, row.stop)
  /\ row.status = "closed" <=> row.exit # None
  /\ row.closedAt # None <=> row.status = "closed"

\* updateTrade, "P&L and status both depend on the merged result": whichever
\* patches overlap, however many updates are lost, the result, the status and
\* the closing time of a trade are those of the prices stored with them.
ResultOfItsRow == \A t \in Trades : Exists(t) => OfItsRow(journal[t])
=============================================================================
