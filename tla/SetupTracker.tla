---------------------------- MODULE SetupTracker ----------------------------
(***************************************************************************)
(* runCoinSetupCycle and scanSetups: every hour the scanned coins, and the *)
(* coins that left the scan with a setup still open, are read on the       *)
(* exchange that answers; setups of that exchange are resolved on its 4H   *)
(* bars, and a new one may be recorded and alerted.                        *)
(*                                                                         *)
(* Time is counted in closed 4H bars.  A setup is identified by its coin   *)
(* and the bar that completed it (the model has one kind of setup).  What  *)
(* a bar touches is the same for all setups.  Runs are those of            *)
(* overlapping workers, each with the dailyCache of its own process.  OKX  *)
(* is configured.                                                          *)
(***************************************************************************)
EXTENDS Naturals, FiniteSets

CONSTANTS
  Runs,       \* workers
  Coins,      \* coins a scan may hold
  Watchlist,  \* of these, the watchlist of any scan that holds them
  LastBar,    \* bound: bars 1 .. LastBar
  Window,     \* SETUP_BARS_4H
  Expiry,     \* SETUP_EXPIRY_MS in bars
  MaxTouches, \* bound: bars that touch a level
  MaxSetups,  \* bound: no setup is looked for once this many are recorded
  MaxFaults,  \* bound: deaths, failures, turns of Binance and runs that overlap
  None        \* no coin, no exchange

Bars      == 1 .. LastBar
Exchanges == {"binance", "okx"}

\* setupScan.ts: "120 bars reach back 20 days, past the 14-day expiry".
ConstantsOK ==
  /\ Watchlist \subseteq Coins
  /\ LastBar \in Nat \ {0} /\ MaxTouches \in Nat /\ MaxSetups \in Nat /\ MaxFaults \in Nat
  /\ Window \in Nat /\ Expiry \in Nat /\ Window > Expiry

VARIABLES
  bar,      \* the clock: 4H bars closed so far
  touch,    \* external: per exchange and bar the level its wick touched first
  refusing, \* external: Binance refuses this server
  scanned,  \* coins of the latest stored scan, none once it is too old
  setups,   \* trade_setups
  alerted,  \* Telegram: setups alerted, each with the number of times (2: or more)
  pc,       \* per run
  targets,  \* per run: coins still to read
  fresh,    \* per run: the targets of the scan it read (detect)
  off,      \* per run: binanceOff
  cache,    \* per run: dailyCache, the exchange of each coin's daily bars
  oldDay,   \* per run: the day it started on is over
  upto,     \* per run: the last bar closed at its start, where every read of it stops
  coin,     \* per run: the coin being read
  open,     \* per run: open setups still to be judged
  faults    \* faults so far

market == <<bar, touch, refusing, scanned>>
tables == <<setups, alerted>>
plan   == <<targets, fresh, upto, off>>
days   == <<cache, oldDay>>
read   == <<coin, open>>
vars   == <<market, tables, pc, plan, days, read, faults>>

Key(s)   == [coin |-> s.coin, bar |-> s.bar]
Keys     == [coin : Coins, bar : Bars]
Statuses == {"open", "target", "stop", "expired"}
Setups   == [coin : Coins, bar : Bars, exchange : Exchanges, status : Statuses, at : 0 .. LastBar]

TypeOK ==
  /\ bar \in Bars
  /\ touch \in [Exchanges -> [Bars -> {"none", "stop", "target"}]]
  /\ refusing \in BOOLEAN
  /\ scanned \in SUBSET Coins
  /\ setups \in SUBSET Setups
  /\ \A s, z \in setups : Key(s) = Key(z) => s = z
  /\ alerted \in [Keys -> 0 .. 2]
  /\ pc \in [Runs -> {"idle", "coin", "bars", "judge", "insert", "alert"}]
  /\ targets \in [Runs -> SUBSET Coins] /\ fresh \in [Runs -> SUBSET Coins]
  /\ off \in [Runs -> BOOLEAN]
  /\ cache \in [Runs -> [Coins -> Exchanges \cup {None}]]
  /\ coin \in [Runs -> Coins \cup {None}]
  /\ oldDay \in [Runs -> BOOLEAN] /\ upto \in [Runs -> 0 .. LastBar]
  /\ open \in [Runs -> SUBSET Keys]
  /\ faults \in 0 .. MaxFaults

Init ==
  /\ bar = 1
  /\ touch = [e \in Exchanges |-> [t \in Bars |-> "none"]]
  /\ refusing \in BOOLEAN
  /\ scanned = Coins
  /\ setups = {}
  /\ alerted = [k \in Keys |-> 0]
  /\ pc = [r \in Runs |-> "idle"]
  /\ targets = [r \in Runs |-> {}] /\ fresh = [r \in Runs |-> {}]
  /\ off = [r \in Runs |-> FALSE]
  /\ cache = [r \in Runs |-> [c \in Coins |-> None]]
  /\ coin = [r \in Runs |-> None]
  /\ oldDay = [r \in Runs |-> FALSE] /\ upto = [r \in Runs |-> 0]
  /\ open = [r \in Runs |-> {}]
  /\ faults = 0
-----------------------------------------------------------------------------
(* Which coins, and from where. *)

Goto(r, place) == pc' = [pc EXCEPT ![r] = place]
Faulty == faults < MaxFaults /\ faults' = faults + 1
Open == {s \in setups : s.status = "open"}

\* Mutant of Targets: only the coins of the scan.
TargetsScanned == scanned

\* planCoinSetupScan
Targets == scanned \cup {s.coin : s \in Open}

Begin(r) ==
  /\ pc[r] = "idle"
  /\ Targets # {}
  /\ targets' = [targets EXCEPT ![r] = Targets]
  /\ fresh' = [fresh EXCEPT ![r] = scanned]
  /\ upto' = [upto EXCEPT ![r] = bar]
  /\ IF \E o \in Runs \ {r} : pc[o] # "idle" THEN Faulty ELSE UNCHANGED faults
  /\ Goto(r, "coin")
  /\ UNCHANGED <<market, tables, off, days, read>>

NoCache == [c \in Coins |-> None]

\* A run that is over, which leaves nothing but its cache.  The next one drops the
\* daily bars of another day: here as soon as run and day are over.
Ends(r) ==
  /\ Goto(r, "idle")
  /\ targets' = [targets EXCEPT ![r] = {}]
  /\ fresh' = [fresh EXCEPT ![r] = {}]
  /\ upto' = [upto EXCEPT ![r] = 0]
  /\ off' = [off EXCEPT ![r] = FALSE]
  /\ oldDay' = [oldDay EXCEPT ![r] = FALSE]
  /\ cache' = IF oldDay[r] THEN [cache EXCEPT ![r] = NoCache] ELSE cache

Forget(r) ==
  /\ coin' = [coin EXCEPT ![r] = None]
  /\ open' = [open EXCEPT ![r] = {}]

\* On to the next coin, or the end of the run; refused says of Binance that it
\* has refused this run.
NextCoin(r, refused) ==
  /\ Forget(r)
  /\ IF targets[r] = {coin[r]}
       THEN Ends(r)
       ELSE /\ Goto(r, "coin")
            /\ targets' = [targets EXCEPT ![r] = @ \ {coin[r]}]
            /\ off' = [off EXCEPT ![r] = refused]
            /\ UNCHANGED <<fresh, upto, days>>

Cached(r, c) == cache[r][c] # None /\ ~(cache[r][c] = "binance" /\ off[r])

\* The daily bars: cached today, unless from a Binance that has refused this run;
\* else Binance, or OKX when Binance refuses or just fails.
ReadDaily(r) ==
  /\ pc[r] = "coin"
  /\ \E c \in targets[r] :
       /\ coin' = [coin EXCEPT ![r] = c]
       /\ \/ /\ Cached(r, c)
             /\ UNCHANGED <<cache, off, faults>>
          \/ /\ ~Cached(r, c)
             /\ \E e \in Exchanges :
                  /\ cache' = [cache EXCEPT ![r][c] = e]
                  /\ CASE off[r] \/ refusing -> e = "okx" /\ UNCHANGED faults
                       [] e = "okx" -> Faulty
                       [] OTHER -> UNCHANGED faults
             /\ off' = [off EXCEPT ![r] = @ \/ refusing]
  /\ Goto(r, "bars")
  /\ UNCHANGED <<market, tables, targets, fresh, upto, oldDay, open>>

\* The exchange of the coin being read.
Source(r) == cache[r][coin[r]]

\* Binance refuses the 4H bars: the coin fails, the rest of the run asks OKX.
Fetch4hRefused(r) ==
  /\ pc[r] = "bars"
  /\ Source(r) = "binance" /\ refusing
  /\ NextCoin(r, TRUE)
  /\ UNCHANGED <<market, tables, faults>>

\* Another failure of a read or a query on the way, logged and left: the next
\* coin follows.
CoinFails(r) ==
  /\ pc[r] \notin {"idle", "coin"}
  /\ Faulty
  /\ NextCoin(r, off[r])
  /\ UNCHANGED <<market, tables>>
-----------------------------------------------------------------------------
(* scanSetups. *)

\* The bars of one read that come after bar b.
After(last, b) == {t \in Bars : t <= last /\ t > b /\ t + Window > last}

\* resolveSetupOutcome: the first bar that touched either level.
FirstTouch(e, ts) ==
  LET hits == {t \in ts : touch[e][t] # "none"}
  IN  IF hits = {} THEN "open" ELSE touch[e][CHOOSE t \in hits : \A u \in hits : t <= u]

\* Mutant of Outcome: of the touches the last decides.
OutcomeOfLast(e, last, b) ==
  LET hits == {t \in After(last, b) : touch[e][t] # "none"}
  IN  IF hits # {} THEN touch[e][CHOOSE t \in hits : \A u \in hits : u <= t]
      ELSE IF last > b + Expiry THEN "expired" ELSE "open"

Outcome(e, last, b) ==
  LET first == FirstTouch(e, After(last, b))
  IN  IF first = "open" /\ last > b + Expiry THEN "expired" ELSE first

\* Mutant of SameVenue: any bars will do.
SameVenueOrNot(s, e) == TRUE

\* A setup is judged on the bars of its own exchange.
SameVenue(s, e) == s.exchange = e

\* The 4H bars of the same exchange, those closed when the run started, and then
\* the open setups.
ReadOpen(r) ==
  /\ pc[r] = "bars"
  /\ ~(Source(r) = "binance" /\ refusing)
  /\ open' = [open EXCEPT ![r] = {Key(s) : s \in {z \in Open : z.coin = coin[r] /\ SameVenue(z, Source(r))}}]
  /\ Goto(r, "judge")
  /\ UNCHANGED <<market, tables, plan, days, coin, faults>>

\* Mutant of Closable: UPDATE without its condition on the status.
ClosableAnyway(s) == TRUE

\* UPDATE ... WHERE status = 'open'
Closable(s) == s.status = "open"

\* resolveTradeSetup of the next setup that has an outcome.
Resolve(r) ==
  /\ pc[r] = "judge"
  /\ \E k \in open[r] :
       LET outcome == Outcome(Source(r), upto[r], k.bar)
           now(s)  == IF Key(s) = k /\ Closable(s) /\ outcome # "open"
                        THEN [s EXCEPT !.status = outcome, !.at = upto[r]] ELSE s
       IN  /\ setups' = {now(s) : s \in setups}
           /\ open' = [open EXCEPT ![r] = @ \ {k}]
  /\ UNCHANGED <<market, alerted, pc, plan, days, coin, faults>>

\* detectSetups finds a setup on the last bar, or none, or is not asked.
Detect(r) ==
  /\ pc[r] = "judge"
  /\ open[r] = {}
  /\ \/ /\ coin[r] \in fresh[r]
        /\ Cardinality(setups) < MaxSetups
        /\ Goto(r, "insert")
        /\ UNCHANGED <<plan, days, read>>
     \/ NextCoin(r, off[r])
  /\ UNCHANGED <<market, tables, faults>>

Found(r) == [coin |-> coin[r], bar |-> upto[r]]

\* Mutant of IsNew: the row comes back whether or not it was inserted.
IsNewAlways(k) == TRUE

\* The unique index of trade_setups.
Clash(k) == \E s \in setups : Key(s) = k

\* INSERT ... ON CONFLICT DO NOTHING RETURNING gives a row.
IsNew(k) == ~Clash(k)

\* insertTradeSetup; a new setup of the watchlist is alerted.
Insert(r) ==
  /\ pc[r] = "insert"
  /\ setups' = IF Clash(Found(r)) THEN setups
               ELSE setups \cup {[coin |-> coin[r], bar |-> upto[r], exchange |-> Source(r), status |-> "open", at |-> 0]}
  /\ IF IsNew(Found(r)) /\ coin[r] \in Watchlist
       THEN Goto(r, "alert") /\ UNCHANGED <<plan, days, read>>
       ELSE NextCoin(r, off[r])
  /\ UNCHANGED <<market, alerted, faults>>

Alert(r) ==
  /\ pc[r] = "alert"
  /\ alerted' = [alerted EXCEPT ![Found(r)] = IF @ = 2 THEN 2 ELSE @ + 1]
  /\ NextCoin(r, off[r])
  /\ UNCHANGED <<market, setups, faults>>

\* The process dies; the cache dies with it.
Dies(r) ==
  /\ pc[r] # "idle"
  /\ Faulty
  /\ Goto(r, "idle")
  /\ targets' = [targets EXCEPT ![r] = {}] /\ fresh' = [fresh EXCEPT ![r] = {}]
  /\ upto' = [upto EXCEPT ![r] = 0] /\ off' = [off EXCEPT ![r] = FALSE]
  /\ cache' = [cache EXCEPT ![r] = NoCache] /\ oldDay' = [oldDay EXCEPT ![r] = FALSE]
  /\ Forget(r)
  /\ UNCHANGED <<market, tables>>
-----------------------------------------------------------------------------
(* The market around it. *)

Touches == {k \in Exchanges \X Bars : touch[k[1]][k[2]] # "none"}

\* A 4H bar closes on both exchanges, whose wicks differ.
BarCloses ==
  /\ bar < LastBar
  /\ bar' = bar + 1
  /\ \E b, o \in {"none", "stop", "target"} :
       touch' = [touch EXCEPT !["binance"][bar + 1] = b, !["okx"][bar + 1] = o]
  /\ Cardinality(Touches') <= MaxTouches
  /\ UNCHANGED <<refusing, scanned, tables, pc, plan, days, read, faults>>

\* Days go on, after the last bar of the model too.
DayEnds ==
  /\ oldDay' = [r \in Runs |-> pc[r] # "idle"]
  /\ cache' = [r \in Runs |-> IF pc[r] = "idle" THEN NoCache ELSE cache[r]]
  /\ days' # days
  /\ UNCHANGED <<market, tables, pc, plan, read, faults>>

\* A new scan is stored, or the last one has become too old.
ScanChanges ==
  /\ scanned' \in SUBSET Coins \ {scanned}
  /\ UNCHANGED <<bar, touch, refusing, tables, pc, plan, days, read, faults>>

\* Binance starts or stops refusing this server.
BinanceTurns ==
  /\ Faulty
  /\ refusing' = ~refusing
  /\ UNCHANGED <<bar, touch, scanned, tables, pc, plan, days, read>>

Step(r) ==
  \/ Begin(r) \/ ReadDaily(r) \/ ReadOpen(r) \/ Fetch4hRefused(r)
  \/ Resolve(r) \/ Detect(r) \/ Insert(r) \/ Alert(r)

Next ==
  \/ \E r \in Runs : Step(r) \/ CoinFails(r) \/ Dies(r)
  \/ BarCloses \/ DayEnds \/ ScanChanges \/ BinanceTurns

Spec == Init /\ [][Next]_vars

\* Hourly runs keep coming and go on; time passes.  Failures are bounded by
\* MaxFaults, so Binance refuses or answers for good in the end.
Fairness ==
  /\ \A r \in Runs : WF_vars(Step(r))
  /\ WF_vars(BarCloses) /\ WF_vars(DayEnds)
-----------------------------------------------------------------------------
(* Properties. *)

\* scanSetups "120 bars reach back 20 days, past the 14-day expiry, so the first
\* touch is still found then": the record of a setup is what its own exchange did
\* first in all the bars since, whichever runs, refusals and exchanges came
\* between, when it was closed within the reach of the bars.
FirstTouchDecides ==
  \A s \in setups : s.status # "open" /\ s.at - s.bar <= Window =>
    LET first == FirstTouch(s.exchange, {t \in Bars : s.bar < t /\ t <= s.at})
    IN  s.status = IF first = "open" THEN "expired" ELSE first

\* resolveTradeSetup: a setup is closed once; an overlapping run that still
\* holds it as open changes nothing.
ResolvedStands == \A s \in setups : s.status # "open" => s \in setups'
ResolvedStays == [][ResolvedStands]_vars

\* insertTradeSetup "Returns the row only when it is new, that is the alert
\* trigger": no setup is alerted twice, however many runs of the bar find it.
AlertedOnce == \A k \in Keys : alerted[k] <= 1

Overdue(e) == {s \in Open : s.exchange = e /\ bar > s.bar + Expiry}

\* The exchange that answers.
Serving == IF refusing THEN "okx" ELSE "binance"

\* planCoinSetupScan: "a coin dropping out of the top 30 cannot strand a setup as
\* open forever", as long as its exchange is the one that answers: Binance turns
\* finitely often, and the setups of the exchange of the end are all closed.
NotStranded == []<>(Overdue(Serving) = {})
=============================================================================
