------------------------------- MODULE CoinScan -------------------------------
(***************************************************************************)
(* runCoinScanCycle: the daily scan of the most traded coins, retried by   *)
(* hourly ticks, from Binance or from OKX, saved as one transaction, and   *)
(* the coin watch message that follows it.  Several runs may be under way: *)
(* a tick does not wait for the previous one, and a deploy overlaps two    *)
(* workers on one database.                                                *)
(*                                                                         *)
(* Day d is the day whose daily bar closed last.  saveCoinScan is cut into *)
(* its statements; a statement meets other transactions the way PostgreSQL *)
(* lets it at READ COMMITTED: it waits for a row another one has written   *)
(* or deleted, and the primary key (day, symbol) refuses a second row.     *)
(***************************************************************************)
EXTENDS Naturals, FiniteSets

CONSTANTS
  Runs,      \* concurrent runs of the cycle
  Btc,       \* the benchmark coin
  Alts,      \* the other coins a universe may hold
  LastDay,   \* bound: days 1 .. LastDay
  HasOkx,    \* the context has an OKX source
  MaxFaults, \* bound: answers, queries and processes that fail
  MaxOverlaps \* bound: runs begun while another one is going on

Days  == 1 .. LastDay
Coins == Alts \cup {Btc}

ConstantsOK ==
  /\ LastDay \in Nat \ {0} /\ MaxFaults \in Nat /\ MaxOverlaps \in Nat
  /\ HasOkx \in BOOLEAN
  /\ Btc \notin Alts

VARIABLES
  day,     \* the clock: lastClosedDay(now)
  rows,    \* coin_scan_rows, committed
  pc,      \* per run
  now,     \* per run: lastClosedDay of its `now`
  asked,   \* per run: what Binance and OKX answered
  got,     \* per run: the result to be stored
  seen,    \* per run: the rows its DELETE has to remove
  dropped, \* per run: rows its open transaction has deleted
  added,   \* per run: rows its open transaction has inserted
  job,     \* job_health of coin_scan: the last outcome recorded
  told,    \* Telegram: coin watch messages sent about each day (2: or more)
  faults,  \* faults so far
  overlaps \* overlaps so far

store == <<seen, dropped, added>>
vars  == <<day, rows, pc, now, asked, got, store, job, told, faults, overlaps>>

\* pickCoinUniverse always includes BTC, whose bars name the day.
Universes == {coins \in SUBSET Coins : Btc \in coins}
\* futuresUnreadable is ~leverage.
Scans   == [exchange : {"binance", "okx"}, coins : Universes, leverage : BOOLEAN]
Rows    == [day : Days, coin : Coins, scan : Scans]
Silence == [kind |-> "none"]
Answers == [kind : {"refused", "failed"}] \cup [kind : {"read"}, coins : Universes, leverage : BOOLEAN]

\* The transaction of run r is open.
Writing(r) == pc[r] \in {"insert", "commit"}

SameKey(a, b) == a.day = b.day /\ a.coin = b.coin

TypeOK ==
  /\ day \in Days
  /\ rows \in SUBSET Rows
  /\ \A a, b \in rows : SameKey(a, b) => a = b
  /\ pc \in [Runs -> {"idle", "binance", "okx", "save", "delete", "insert", "commit", "record", "watch", "send"}]
  /\ now \in [Runs -> Days]
  /\ asked \in [Runs -> [binance : Answers \cup {Silence}, okx : Answers \cup {Silence}]]
  /\ got \in [Runs -> Scans]
  /\ seen \in [Runs -> SUBSET Rows]
  /\ dropped \in [Runs -> SUBSET rows] /\ added \in [Runs -> SUBSET Rows]
  /\ \A r \in Runs : dropped[r] \cup added[r] # {} => Writing(r)
  /\ job \in {"none", "ok", "failed"}
  /\ told \in [Days -> 0 .. 2]
  /\ faults \in 0 .. MaxFaults /\ overlaps \in 0 .. MaxOverlaps

NoScan  == [exchange |-> "binance", coins |-> {Btc}, leverage |-> FALSE]
Unasked == [binance |-> Silence, okx |-> Silence]

Init ==
  /\ day = 1
  /\ rows = {}
  /\ pc = [r \in Runs |-> "idle"]
  /\ now = [r \in Runs |-> 1]
  /\ asked = [r \in Runs |-> Unasked]
  /\ got = [r \in Runs |-> NoScan]
  /\ seen = [r \in Runs |-> {}]
  /\ dropped = [r \in Runs |-> {}]
  /\ added = [r \in Runs |-> {}]
  /\ job = "none"
  /\ told = [d \in Days |-> 0]
  /\ faults = 0 /\ overlaps = 0
-----------------------------------------------------------------------------
(* The tick, and the scan of one or the other exchange. *)

Goto(r, place) == pc' = [pc EXCEPT ![r] = place]
Faulty == faults < MaxFaults /\ faults' = faults + 1

Stored(d) == \E row \in rows : row.day = d

\* Mutant of Due: a scan is due only while none was ever stored.
DueOnce(d) == rows = {}

\* getLatestCoinScanDay differs from the day that closed last.
Due(d) == ~(Stored(d) /\ \A row \in rows : row.day <= d)

Tick(r) ==
  /\ pc[r] = "idle"
  /\ Due(day)
  /\ overlaps' = overlaps + IF \A o \in Runs \ {r} : pc[o] = "idle" THEN 0 ELSE 1
  /\ overlaps' <= MaxOverlaps
  /\ now' = [now EXCEPT ![r] = day]
  /\ Goto(r, "binance")
  /\ UNCHANGED <<day, rows, asked, got, store, job, told, faults>>

\* The run is over, and its transaction with it.
Ends(r) ==
  /\ Goto(r, "idle")
  /\ now' = [now EXCEPT ![r] = 1]
  /\ asked' = [asked EXCEPT ![r] = Unasked]
  /\ got' = [got EXCEPT ![r] = NoScan]
  /\ seen' = [seen EXCEPT ![r] = {}]
  /\ dropped' = [dropped EXCEPT ![r] = {}]
  /\ added' = [added EXCEPT ![r] = {}]

\* The run ends with recordJobFailure.
GiveUp(r) == Ends(r) /\ job' = "failed"

\* The answer becomes the scan to store.
Keep(r, exchange, a) ==
  /\ a.kind = "read"
  /\ got' = [got EXCEPT ![r] = [exchange |-> exchange, coins |-> a.coins, leverage |-> a.leverage]]
  /\ Goto(r, "save")

\* scanCoins on one exchange answers.  Refused: its spot host refused the server,
\* at the start or on the way.  Read: coins with other or too few bars, or pegged,
\* are left out; no leverage when the futures host refused at some point.
AskBinance(r) ==
  /\ pc[r] = "binance"
  /\ \E a \in Answers :
       /\ asked' = [asked EXCEPT ![r].binance = a]
       /\ IF HasOkx /\ (a.kind = "refused" \/ (a.kind = "read" /\ ~a.leverage))
            THEN Goto(r, "okx") /\ UNCHANGED got
            ELSE Keep(r, "binance", a)
  /\ UNCHANGED <<day, rows, now, store, job, told, faults, overlaps>>

\* Mutant of Better: OKX is taken whenever it answers.
BetterIfAnswered(a) == a.kind = "read"

\* OKX's answer replaces Binance's spot-only day.
Better(a) == a.kind = "read" /\ a.leverage

AskOkx(r) ==
  /\ pc[r] = "okx"
  /\ \E a \in Answers :
       /\ asked' = [asked EXCEPT ![r].okx = a]
       /\ IF asked[r].binance.kind = "read" /\ ~Better(a)
            THEN Keep(r, "binance", asked[r].binance)
            ELSE Keep(r, "okx", a)
  /\ UNCHANGED <<day, rows, now, store, job, told, faults, overlaps>>

\* No exchange yields a scan: the run fails and the next tick tries again.
ScanFails(r) ==
  /\ pc[r] = "binance" \/ (pc[r] = "okx" /\ asked[r].binance.kind = "refused")
  /\ Faulty
  /\ GiveUp(r)
  /\ UNCHANGED <<day, rows, told, overlaps>>
-----------------------------------------------------------------------------
(* saveCoinScan. *)

\* BEGIN, and DELETE ... WHERE day looks for its rows.
LookForRows(r) ==
  /\ pc[r] = "save"
  /\ seen' = [seen EXCEPT ![r] = {row \in rows : row.day = now[r]}]
  /\ asked' = [asked EXCEPT ![r] = Unasked]
  /\ Goto(r, "delete")
  /\ UNCHANGED <<day, rows, now, got, dropped, added, job, told, faults, overlaps>>

\* Mutant of DeleteRows: the statements are not one transaction.
DeleteRowsAtOnce(r) ==
  /\ pc[r] = "delete"
  /\ rows' = rows \ seen[r]
  /\ seen' = [seen EXCEPT ![r] = {}]
  /\ Goto(r, "insert")
  /\ UNCHANGED <<day, now, asked, got, dropped, added, job, told, faults, overlaps>>

\* Mutant of DeleteRows: only the rows about to be rewritten go.
DeleteRowsRewritten(r) ==
  /\ pc[r] = "delete"
  /\ \A o \in Runs \ {r} : dropped[o] \cap seen[r] = {}
  /\ dropped' = [dropped EXCEPT ![r] = {row \in seen[r] \cap rows : row.coin \in got[r].coins}]
  /\ seen' = [seen EXCEPT ![r] = {}]
  /\ Goto(r, "insert")
  /\ UNCHANGED <<day, rows, now, asked, got, added, job, told, faults, overlaps>>

\* The DELETE ends once no other transaction holds a row it found; those another
\* one has removed meanwhile are skipped, those it has put there are not seen.
DeleteRows(r) ==
  /\ pc[r] = "delete"
  /\ \A o \in Runs \ {r} : dropped[o] \cap seen[r] = {}
  /\ dropped' = [dropped EXCEPT ![r] = seen[r] \cap rows]
  /\ seen' = [seen EXCEPT ![r] = {}]
  /\ Goto(r, "insert")
  /\ UNCHANGED <<day, rows, now, asked, got, added, job, told, faults, overlaps>>

\* Another open transaction has written or deleted a row of this key.
Held(r, row) == \E o \in Runs \ {r} : \E other \in dropped[o] \cup added[o] : SameKey(other, row)

\* A committed row of this key is in the way.
Taken(r, row) == \E other \in rows \ dropped[r] : SameKey(other, row)

Inserted(r, c) == [day |-> now[r], coin |-> c, scan |-> got[r]]
Missing(r) == {c \in got[r].coins : Inserted(r, c) \notin added[r]}

\* One row, in the order of the volume ranking.
Insert(r) ==
  /\ pc[r] = "insert"
  /\ \E c \in Missing(r) :
       /\ ~Held(r, Inserted(r, c))
       /\ ~Taken(r, Inserted(r, c))
       /\ added' = [added EXCEPT ![r] = @ \cup {Inserted(r, c)}]
       /\ Goto(r, IF Missing(r) = {c} THEN "commit" ELSE "insert")
  /\ UNCHANGED <<day, rows, now, asked, got, seen, dropped, job, told, faults, overlaps>>

\* The primary key refuses a row: ROLLBACK and throw.
Conflict(r) ==
  /\ pc[r] = "insert"
  /\ \E c \in Missing(r) : ~Held(r, Inserted(r, c)) /\ Taken(r, Inserted(r, c))
  /\ GiveUp(r)
  /\ UNCHANGED <<day, rows, told, faults, overlaps>>

\* Runs that wait for one another: the server ends one of them.
Deadlock(r) ==
  /\ pc[r] = "insert"
  /\ \E o \in Runs \ {r} :
       /\ pc[o] = "insert"
       /\ \E c \in Missing(r), other \in added[o] : SameKey(other, Inserted(r, c))
       /\ \E c \in Missing(o), other \in added[r] : SameKey(other, Inserted(o, c))
  /\ GiveUp(r)
  /\ UNCHANGED <<day, rows, told, faults, overlaps>>

Commit(r) ==
  /\ pc[r] = "commit"
  /\ rows' = (rows \ dropped[r]) \cup added[r]
  /\ dropped' = [dropped EXCEPT ![r] = {}]
  /\ added' = [added EXCEPT ![r] = {}]
  /\ Goto(r, "record")
  /\ UNCHANGED <<day, now, asked, got, seen, job, told, faults, overlaps>>

\* A statement fails: ROLLBACK and throw.  Thrown by recordJobSuccess, the scan
\* is stored and the job is not.
QueryFails(r) ==
  /\ pc[r] \in {"save", "delete", "insert", "commit", "record"}
  /\ Faulty
  /\ GiveUp(r)
  /\ UNCHANGED <<day, rows, told, overlaps>>
-----------------------------------------------------------------------------
(* After it. *)

Record(r) ==
  /\ pc[r] = "record"
  /\ job' = "ok"
  /\ Goto(r, "watch")
  /\ UNCHANGED <<day, rows, now, asked, got, store, told, faults, overlaps>>

ExchangesOf(d) == {row.scan.exchange : row \in {x \in rows : x.day = d}}

\* sendCoinWatch: only two stored days of one exchange are compared, and
\* something about a watched coin must have changed.
Watch(r) ==
  /\ pc[r] = "watch"
  /\ \E changes \in BOOLEAN :
       IF changes /\ ExchangesOf(now[r]) = ExchangesOf(now[r] - 1)
         THEN Goto(r, "send") /\ UNCHANGED <<now, asked, got, store>>
         ELSE Ends(r)
  /\ UNCHANGED <<day, rows, job, told, faults, overlaps>>

Send(r) ==
  /\ pc[r] = "send"
  /\ told' = [told EXCEPT ![now[r]] = IF @ = 2 THEN 2 ELSE @ + 1]
  /\ Ends(r)
  /\ UNCHANGED <<day, rows, job, faults, overlaps>>

\* The process dies, its transaction with it; or sendCoinWatch throws.
Dies(r) ==
  /\ pc[r] # "idle"
  /\ Faulty
  /\ Ends(r)
  /\ UNCHANGED <<day, rows, job, told, overlaps>>

\* A daily bar closes.
DayCloses ==
  /\ day < LastDay
  /\ day' = day + 1
  /\ UNCHANGED <<rows, pc, now, asked, got, store, job, told, faults, overlaps>>

Step(r) ==
  \/ Tick(r) \/ AskBinance(r) \/ AskOkx(r)
  \/ LookForRows(r) \/ DeleteRows(r) \/ Insert(r) \/ Conflict(r) \/ Deadlock(r) \/ Commit(r)
  \/ Record(r) \/ Watch(r) \/ Send(r)

Next ==
  \/ \E r \in Runs : Step(r) \/ ScanFails(r) \/ QueryFails(r) \/ Dies(r)
  \/ DayCloses

Spec == Init /\ [][Next]_vars

\* Ticks keep coming and a run goes on.  Of the answers of an exchange nothing is
\* assumed but MaxFaults: a run that gets no scan is a fault.
Fairness == \A r \in Runs : WF_vars(Step(r))
-----------------------------------------------------------------------------
(* Properties. *)

DayRows(d) == {row \in rows : row.day = d}
WholeScan(d, scan) == {[day |-> d, coin |-> c, scan |-> scan] : c \in scan.coins}

\* saveCoinScan "the stored day must be one scan, not the union of several with
\* different universes", whichever runs overlap or die.
StoredDayIsOneScan == \A row \in rows : DayRows(row.day) = WholeScan(row.day, row.scan)

\* No reader ever finds a stored day gone, not even while it is overwritten.
DayStands == \A d \in Days : Stored(d) => Stored(d)'
DayStaysStored == [][DayStands]_vars

\* scanWithFallback: OKX only instead of a Binance that refused, and a scan
\* without the leverage half only when no exchange asked had both.
BestOfOneExchange ==
  \A r \in Runs : pc[r] = "save" =>
    /\ got[r].exchange = "okx" =>
         asked[r].binance.kind = "refused" \/ ~asked[r].binance.leverage
    /\ \/ got[r].leverage
       \/ \A a \in {asked[r].binance, asked[r].okx} : a.kind = "read" => ~a.leverage
    /\ got[r].exchange = "okx" /\ ~got[r].leverage => asked[r].binance.kind = "refused"

\* "A failed day is retried on the next tick": the day that stays the last one
\* is stored in the end, whatever failed before and whichever runs overlapped.
RetriedUntilStored == day = LastDay ~> Stored(LastDay)

\* sendCoinWatch "Runs once per stored day".
WatchOncePerDay == \A d \in Days : told[d] <= 1
-----------------------------------------------------------------------------
(* The inductive invariant of StoredDayIsOneScan, DayStands and BestOfOneExchange. *)

\* What a DELETE looks for is a whole stored scan, or nothing;
SeenWhole ==
  \A r \in Runs : seen[r] # {} =>
    pc[r] = "delete" /\ \E scan \in Scans : seen[r] = WholeScan(now[r], scan)

\* so what it drops is all rows of the day, or none.
DropsAll == \A r \in Runs : dropped[r] # {} => dropped[r] = DayRows(now[r])

\* The rows added are of the run's scan, and all of them at the commit.
AddsOwn ==
  \A r \in Runs :
    /\ added[r] \subseteq WholeScan(now[r], got[r])
    /\ pc[r] = "commit" => added[r] = WholeScan(now[r], got[r])

\* Every universe holds the benchmark: who dropped or added its row of a day
\* dropped all that is stored of the day,
HasBenchmark(r) == \E row \in dropped[r] \cup added[r] : row.coin = Btc
BenchmarkLocks == \A r \in Runs : HasBenchmark(r) => dropped[r] = DayRows(now[r])

\* and there is one such transaction a day.
OneWriterOfADay ==
  \A r, o \in Runs : HasBenchmark(r) /\ HasBenchmark(o) /\ now[r] = now[o] => r = o

\* OKX is asked after Binance refused, or had no leverage.
AskedInTurn ==
  \A r \in Runs :
    /\ pc[r] \in {"idle", "binance"} => asked[r] = Unasked
    /\ pc[r] = "okx" =>
         /\ asked[r].okx = Silence
         /\ \/ asked[r].binance.kind = "refused"
            \/ asked[r].binance.kind = "read" /\ ~asked[r].binance.leverage

IInv ==
  /\ TypeOK /\ StoredDayIsOneScan /\ SeenWhole /\ DropsAll /\ AddsOwn
  /\ BenchmarkLocks /\ OneWriterOfADay /\ AskedInTurn /\ BestOfOneExchange
=============================================================================
