--------------------------- MODULE CandlePipeline ---------------------------
(***************************************************************************)
(* The collector of one (symbol, timeframe): boot-time backfill, the two   *)
(* kline sockets, the pair buffer, the REST fallback for a missing side    *)
(* and the un-awaited processing of matched candles.                       *)
(*                                                                         *)
(* A candle is its position 1..MaxCandle on the timeframe's grid; 0 stands *)
(* for "no open time seen".  Candle closed + 1 is the one still forming.   *)
(* An action is one synchronous stretch of the single-threaded worker,     *)
(* from one await to the next.                                             *)
(*                                                                         *)
(* One worker is followed through its restarts.  Deploys overlap: another  *)
(* worker, the peer, may run beside it and shares nothing with it but the  *)
(* rows of market_candles, so it is kept as what it may do to those rows.  *)
(***************************************************************************)
EXTENDS Naturals, FiniteSets

CONSTANTS
  Markets,    \* {"spot", "futures"}, or {"futures"} for a futures-only symbol
  MaxCandle,  \* bound: the candles that may close
  Ticks,      \* bound: overlapping runs of resolveTimedOutPairs
  WS,         \* owner of the processing a socket callback starts
  MaxRestarts \* bound: restarts of the worker, and workers started beside it

ASSUME MarketsAssumption == Markets \in {{"spot", "futures"}, {"futures"}}
ASSUME MaxCandleAssumption == MaxCandle \in Nat
ASSUME TicksAssumption == WS \notin Ticks
ASSUME MaxRestartsAssumption == MaxRestarts \in Nat

VARIABLES
  closed,    \* candles the exchange has closed so far
  mode,      \* the process: down, backfilling, up
  fetched,   \* backfill: last candle of each market's kline answer
  wsSeen,    \* newest closed candle each kline stream has delivered
  pending,   \* CandlePairBuffer.pending: sides waiting, per open time
  guard,     \* CandleSequenceGuard.lastOpenTime of each market
  base,      \* ghost: the open time that initialised each guard
  jobs,      \* calls of processMatchedCandles past their guards
  todo,      \* timed-out entries a fallback run has still to fetch
  applied,   \* times each candle entered the rolling state since boot
  stored,    \* market_candles
  metrics,   \* candles with spot_metrics and futures_metrics rows
  snapshots, \* candles with a market_health_snapshots row
  reported,  \* ghost: candles counted missing by a stored quality score
  lost,      \* ghost: candles whose processing died, with their gaps
  restarts,  \* restarts so far, and workers started beside this one
  peer,      \* the candle forming when the peer booted, 0 when there is none
  contested  \* ghost: candles one worker may read forming and another store

feed      == <<closed, wsSeen>>
memory    == <<pending, guard, base, jobs, todo, applied>>
database  == <<stored, metrics, snapshots>>
ghosts    == <<reported, lost>>
overlap   == <<peer, contested>>
vars      == <<feed, mode, fetched, memory, database, ghosts, restarts, overlap>>

Candles == 1 .. MaxCandle
OpenTimes == 0 .. MaxCandle + 1   \* none seen, a candle, the last forming one
Owners  == Ticks \cup {WS}
Steps   == {"storeSpot", "storeFutures", "gather", "saveMetrics", "finish"}
Job     == [candle : Candles, missed : SUBSET Candles, owner : Owners, pc : Steps]
Entries == Candles \X Markets

TypeOK ==
  /\ closed \in 0 .. MaxCandle
  /\ mode \in {"down", "backfilling", "up"}
  /\ fetched \in [Markets -> OpenTimes]
  /\ wsSeen \in [Markets -> 0 .. MaxCandle]
  /\ pending \in [Candles -> (SUBSET Markets) \ {Markets}]  \* a full bucket is gone
  /\ guard \in [Markets -> OpenTimes]
  /\ base \in [Markets -> OpenTimes]
  /\ jobs \in SUBSET Job
  /\ todo \in [Ticks -> SUBSET Entries]
  /\ applied \in [Candles -> Nat]
  /\ stored \in [Markets -> [Candles -> {"none", "forming", "final"}]]
  /\ metrics \in SUBSET Candles
  /\ snapshots \in SUBSET Candles
  /\ reported \in SUBSET Candles
  /\ lost \in SUBSET Candles
  /\ restarts \in 0 .. MaxRestarts
  /\ peer \in OpenTimes
  /\ contested \in SUBSET Candles

Init ==
  /\ closed = 0
  /\ mode = "backfilling"
  /\ fetched = [m \in Markets |-> 0]
  /\ wsSeen = [m \in Markets |-> 0]
  /\ pending = [t \in Candles |-> {}]
  /\ guard = [m \in Markets |-> 0]
  /\ base = [m \in Markets |-> 0]
  /\ jobs = {}
  /\ todo = [k \in Ticks |-> {}]
  /\ applied = [t \in Candles |-> 0]
  /\ stored = [m \in Markets |-> [t \in Candles |-> "none"]]
  /\ metrics = {}
  /\ snapshots = {}
  /\ reported = {}
  /\ lost = {}
  /\ restarts = 0
  /\ peer = 0
  /\ contested = {}
-----------------------------------------------------------------------------
(* The exchange. *)

\* With a peer up, the candle that forms next is contested from the start.
CandleCloses ==
  /\ closed < MaxCandle
  /\ closed' = closed + 1
  /\ contested' = IF peer = 0 THEN contested ELSE contested \cup (Candles \cap {closed + 2})
  /\ UNCHANGED <<wsSeen, mode, fetched, memory, database, ghosts, restarts, peer>>
-----------------------------------------------------------------------------
(* Boot: backfillHistory for this (symbol, timeframe). *)

\* Mutant of BackfillFetch: the newest row taken for the one after the forming.
BackfillFetchOneAhead(m) ==
  /\ mode = "backfilling"
  /\ fetched[m] = 0
  /\ fetched' = [fetched EXCEPT ![m] = closed + 2]
  /\ UNCHANGED <<feed, mode, memory, database, ghosts, restarts, overlap>>

\* The last candle of a kline answer is the one still forming.  The two
\* requests run under one Promise.all; each is answered at its own moment.
BackfillFetch(m) ==
  /\ mode = "backfilling"
  /\ fetched[m] = 0
  /\ fetched' = [fetched EXCEPT ![m] = closed + 1]
  /\ UNCHANGED <<feed, mode, memory, database, ghosts, restarts, overlap>>

\* Mutant of Upserted: the last closed row is taken from the forming values.
UpsertedStale(row, last) ==
  [t \in Candles |-> CASE t + 1 < last            -> "final"
                       [] t + 1 \in {last, last + 1} -> "forming"
                       [] OTHER                   -> row[t]]

\* Every candle of an answer read while candle `last` was forming, upserted.
Upserted(row, last) ==
  [t \in Candles |-> CASE t < last -> "final"
                       [] t = last -> "forming"
                       [] OTHER    -> row[t]]

\* The sockets are subscribed only now: they deliver what closes from here on,
\* or a closing message that is still on its way.
GoLive ==
  /\ mode' = "up"
  /\ wsSeen' = [m \in Markets |-> closed]
  /\ UNCHANGED <<closed, fetched, pending, jobs, todo, applied, metrics, snapshots, ghosts, restarts, overlap>>

\* All rows upserted and each guard seeded with the newest row.
BackfillDone ==
  /\ mode = "backfilling"
  /\ \A m \in Markets : fetched[m] # 0
  /\ stored' = [m \in Markets |-> Upserted(stored[m], fetched[m])]
  /\ guard' = fetched
  /\ base' = fetched
  /\ GoLive

\* The catch of backfillHistory: a request, an upsert (the spot rows go first)
\* or the CVD read failed, the guards are left unseeded and the worker runs
\* on.  A failure after the seeding leaves what BackfillDone leaves.
BackfillFails ==
  /\ mode = "backfilling"
  /\ \E done \in {{}, {"spot"}, Markets} \cap SUBSET Markets :
       /\ done # {} => \A m \in Markets : fetched[m] # 0
       /\ stored' = [m \in Markets |-> IF m \in done THEN Upserted(stored[m], fetched[m])
                                                     ELSE stored[m]]
  /\ UNCHANGED <<guard, base>>
  /\ GoLive
-----------------------------------------------------------------------------
(* Arrival of a closed candle: CandlePairBuffer.add, then the synchronous   *)
(* head of processMatchedCandles / processFuturesOnlyCandle.                *)

\* Mutant of Accepts: only an older candle is refused.
AcceptsDuplicate(m, t) == guard[m] <= t

\* CandleSequenceGuard.accept: first candle seen, or one past the last.
Accepts(m, t) == guard[m] < t

\* The candles gapCandles counts, on either market's guard.
Missed(t) == UNION {IF guard[m] = 0 THEN {} ELSE (guard[m] + 1) .. (t - 1) : m \in Markets}

\* Mutant of Taken: futures is asked first.
TakenFuturesFirst(t) ==
  IF ~Accepts("futures", t) THEN {}
  ELSE IF "spot" \in Markets /\ ~Accepts("spot", t) THEN {"futures"} ELSE Markets

\* The markets whose guard takes candle t: spot is asked first, and its
\* refusal returns before futures is asked.
Taken(t) ==
  IF "spot" \in Markets /\ ~Accepts("spot", t) THEN {}
  ELSE IF Accepts("futures", t) THEN Markets ELSE Markets \ {"futures"}

\* Mutant of FirstStep: the spot upsert is forgotten.
FirstStepFutures == "storeFutures"

FirstStep == IF "spot" \in Markets THEN "storeSpot" ELSE "storeFutures"

Process(t, who) ==
  /\ guard' = [m \in Markets |-> IF m \in Taken(t) THEN t ELSE guard[m]]
  /\ base' = [m \in Markets |-> IF m \in Taken(t) /\ guard[m] = 0 THEN t ELSE base[m]]
  /\ jobs' = IF Taken(t) = Markets
             THEN jobs \cup {[candle |-> t, missed |-> Missed(t), owner |-> who, pc |-> FirstStep]}
             ELSE jobs

Add(t, m, who) ==
  LET entry == pending[t] \cup {m} IN
  IF entry = Markets
  THEN /\ pending' = [pending EXCEPT ![t] = {}]
       /\ Process(t, who)
  ELSE /\ pending' = [pending EXCEPT ![t] = entry]
       /\ UNCHANGED <<guard, base, jobs>>

\* A kline stream delivers the closing message of a candle: in order, some
\* lost while the socket reconnects, the newest one possibly redelivered.
Deliver(m, t) ==
  /\ mode = "up"
  /\ wsSeen[m] <= t
  /\ t <= closed
  /\ wsSeen' = [wsSeen EXCEPT ![m] = t]
  /\ Add(t, m, WS)
  /\ UNCHANGED <<closed, mode, fetched, todo, applied, database, ghosts, restarts, overlap>>
-----------------------------------------------------------------------------
(* The REST fallback: resolveTimedOutPairs, started every five seconds      *)
(* whether or not the previous run has ended.                               *)

Waiting == {t \in Candles : pending[t] # {}}

\* Mutant of MissingSide: the side that has arrived is fetched again.
MissingSideSwapped(t) == IF "spot" \in pending[t] THEN "spot" ELSE "futures"

MissingSide(t) == IF "spot" \in pending[t] THEN "futures" ELSE "spot"

\* processMatchedCandles is awaited inside the loop.
Blocked(k) == \E j \in jobs : j.owner = k

\* timedOutEntries: the entries that have waited past maxWaitMs.
TickStart(k) ==
  /\ mode = "up"
  /\ todo[k] = {} /\ ~Blocked(k)
  /\ \E late \in SUBSET Waiting \ {{}} :
       todo' = [todo EXCEPT ![k] = {<<t, MissingSide(t)>> : t \in late}]
  /\ UNCHANGED <<feed, mode, fetched, pending, guard, base, jobs, applied, database, ghosts, restarts, overlap>>

Take(k, e) ==
  /\ mode = "up"
  /\ ~Blocked(k)
  /\ e \in todo[k]
  /\ todo' = [todo EXCEPT ![k] = @ \ {e}]
  /\ UNCHANGED <<feed, mode, fetched, applied, database, ghosts, restarts, overlap>>

\* The missing candle is served: add, and process the pair it completes.
TickFound(k, e) == Take(k, e) /\ Add(e[1], e[2], k)

\* Not found either, or the IP is banned (418): the bucket is dropped.
TickDrops(k, e) ==
  /\ Take(k, e)
  /\ pending' = [pending EXCEPT ![e[1]] = {}]
  /\ UNCHANGED <<guard, base, jobs>>

\* Any other failure leaves the bucket for a later tick.
TickFails(k, e) ==
  /\ Take(k, e)
  /\ UNCHANGED <<pending, guard, base, jobs>>
-----------------------------------------------------------------------------
(* The awaits of processMatchedCandles.  Jobs interleave freely: a socket   *)
(* callback does not wait for them.                                         *)

Goto(j, step) == jobs' = (jobs \ {j}) \cup {[j EXCEPT !.pc = step]}

JobFrame == UNCHANGED <<feed, mode, fetched, pending, guard, base, todo, restarts, overlap>>

At(j, step) == mode = "up" /\ j.pc = step

StoreSpot(j) ==
  /\ At(j, "storeSpot")
  /\ stored' = [stored EXCEPT !["spot"][j.candle] = "final"]
  /\ Goto(j, "storeFutures")
  /\ UNCHANGED <<metrics, snapshots, applied, ghosts>>
  /\ JobFrame

StoreFutures(j) ==
  /\ At(j, "storeFutures")
  /\ stored' = [stored EXCEPT !["futures"][j.candle] = "final"]
  /\ Goto(j, "gather")
  /\ UNCHANGED <<metrics, snapshots, applied, ghosts>>
  /\ JobFrame

\* gatherFuturesInputs has answered: the snapshot is computed from the rolling
\* state and folded into it (updateStateAfterSnapshot) in one stretch.
Compute(j) ==
  /\ At(j, "gather")
  /\ applied' = [applied EXCEPT ![j.candle] = @ + 1]
  /\ Goto(j, "saveMetrics")
  /\ UNCHANGED <<database, ghosts>>
  /\ JobFrame

SaveMetrics(j) ==
  /\ At(j, "saveMetrics")
  /\ metrics' = metrics \cup {j.candle}
  /\ Goto(j, "finish")
  /\ UNCHANGED <<stored, snapshots, applied, ghosts>>
  /\ JobFrame

\* saveHealthSnapshot, with the data-quality score that counts the gap.
Finish(j) ==
  /\ At(j, "finish")
  /\ snapshots' = snapshots \cup {j.candle}
  /\ reported' = reported \cup j.missed
  /\ jobs' = jobs \ {j}
  /\ UNCHANGED <<stored, metrics, applied, lost>>
  /\ JobFrame

\* A query rejects at any await: the callback logs 'pipeline error', a
\* fallback run logs and moves to its next entry.  Nothing retries the candle.
JobFails(j) ==
  /\ mode = "up"
  /\ jobs' = jobs \ {j}
  /\ lost' = lost \cup {j.candle} \cup j.missed
  /\ UNCHANGED <<database, applied, reported>>
  /\ JobFrame
-----------------------------------------------------------------------------
(* The process dies and is restarted; the database and the exchange go on.  *)

Crash ==
  /\ mode # "down"
  /\ restarts < MaxRestarts
  /\ restarts' = restarts + 1
  /\ mode' = "down"
  /\ fetched' = [m \in Markets |-> 0]
  /\ wsSeen' = [m \in Markets |-> 0]
  /\ pending' = [t \in Candles |-> {}]
  /\ guard' = [m \in Markets |-> 0]
  /\ base' = [m \in Markets |-> 0]
  /\ jobs' = {}
  /\ todo' = [k \in Ticks |-> {}]
  /\ applied' = [t \in Candles |-> 0]
  /\ UNCHANGED <<closed, database, ghosts, overlap>>

\* Whatever worker is already up: a deploy does not wait for the old one.
Boot ==
  /\ mode = "down"
  /\ mode' = "backfilling"
  /\ UNCHANGED <<feed, fetched, memory, database, ghosts, restarts, overlap>>
-----------------------------------------------------------------------------
(* The peer: the worker this one replaces, or the one that replaces it.     *)

PeerFrame == UNCHANGED <<feed, mode, fetched, memory, metrics, snapshots, ghosts>>

\* The candles this worker has read forming and not written yet.
Unwritten == IF mode = "backfilling" THEN {fetched[m] : m \in Markets} ELSE {}

PeerStarts ==
  /\ peer = 0
  /\ restarts < MaxRestarts
  /\ restarts' = restarts + 1
  /\ peer' = closed + 1
  /\ contested' = contested \cup (Candles \cap ({closed + 1} \cup Unwritten))
  /\ UNCHANGED stored
  /\ PeerFrame

PeerStops ==
  /\ peer # 0
  /\ peer' = 0
  /\ UNCHANGED <<stored, contested, restarts>>
  /\ PeerFrame

\* It upserts one market's kline answer, read at any moment since its boot.
PeerBackfills(m) ==
  /\ peer # 0
  /\ \E last \in peer .. closed + 1 :
       stored' = [stored EXCEPT ![m] = Upserted(stored[m], last)]
  /\ UNCHANGED <<restarts, overlap>>
  /\ PeerFrame

\* It stores a closed candle it processes.
PeerStores(m, t) ==
  /\ peer # 0
  /\ t <= closed
  /\ stored' = [stored EXCEPT ![m][t] = "final"]
  /\ UNCHANGED <<restarts, overlap>>
  /\ PeerFrame
-----------------------------------------------------------------------------
TickStep(k) ==
  \/ TickStart(k)
  \/ \E e \in todo[k] : TickFound(k, e) \/ TickDrops(k, e) \/ TickFails(k, e)

JobStep(j) ==
  \/ StoreSpot(j)
  \/ StoreFutures(j)
  \/ Compute(j)
  \/ SaveMetrics(j)
  \/ Finish(j)
  \/ JobFails(j)

Next ==
  \/ \E m \in Markets : BackfillFetch(m)
  \/ BackfillDone
  \/ BackfillFails
  \/ \E m \in Markets, t \in Candles : Deliver(m, t)
  \/ \E k \in Ticks : TickStep(k)
  \/ \E j \in jobs : JobStep(j)
  \/ Crash
  \/ Boot
  \/ PeerStarts
  \/ PeerStops
  \/ \E m \in Markets : PeerBackfills(m)
  \/ \E m \in Markets, t \in Candles : PeerStores(m, t)
  \/ CandleCloses

Spec == Init /\ [][Next]_vars

\* setInterval keeps starting runs, and one of them finds every entry of the
\* moment past its wait.
FullTick(k) == TickStart(k) /\ {e[1] : e \in todo'[k]} = Waiting

\* Every request settles (fetch gives up by itself), every await ends.
Settles(k) ==
  \/ \E e \in todo[k] : TickFound(k, e) \/ TickDrops(k, e) \/ TickFails(k, e)
  \/ \E j \in jobs : j.owner = k /\ JobStep(j)

\* Asked again and again for one candle, the exchange is not always failing.
Served(k, t) == \E m \in Markets : TickFound(k, <<t, m>>) \/ TickDrops(k, <<t, m>>)

FairSpec ==
  /\ Spec
  /\ \A k \in Ticks : SF_vars(FullTick(k)) /\ WF_vars(Settles(k))
  /\ \A k \in Ticks, t \in Candles : SF_vars(Served(k, t))
-----------------------------------------------------------------------------
(* Properties. *)

InFlight == UNION {{j.candle} \cup j.missed : j \in jobs}

\* A candle enters the rolling state (CVD, volume and true-range windows, the
\* previous close) at most once per process, although the sockets redeliver,
\* the fallback refetches and its runs overlap.
AppliedOnce == \A t \in Candles : applied[t] <= 1

\* A health snapshot is only ever stored for a candle whose own rows hold the
\* closed values on every market, and they keep them across restarts and
\* repeated backfills.  The exception is a candle that was still forming while
\* two workers were up, or in a boot's unwritten answer when the second one
\* came: the other's upsert can set its rows back below the snapshot.
SnapshotOfFinalRows ==
  \A t \in snapshots :
    t \in metrics /\ \A m \in Markets : stored[m][t] = "final" \/ t \in contested

\* Once the futures guard has moved past candles, each of them was processed,
\* is being processed, is counted missing by a quality score that was stored
\* or will be, or died with its processing: the two guards, the pair buffer
\* and the fallback never step over a candle in silence.
NoSilentSkip ==
  \A t \in Candles :
    base["futures"] < t /\ t <= guard["futures"] =>
      t \in InFlight \cup snapshots \cup reported \cup lost

\* A stored closed candle is overwritten with the values it had while it was
\* forming only where two workers overlapped on it: one read it forming, the
\* other stored it closed, and upsertCandle takes the older answer all the
\* same.  No restart, repeated backfill or delivery of one worker does it.
OnlyOverlapReopens ==
  [][\A m \in Markets, t \in Candles :
       stored[m][t] = "final" /\ stored'[m][t] # "final" => t \in contested]_vars

\* A candle that waits for its other side does not wait for ever: it is paired
\* or its bucket is dropped, provided the exchange answers in the end.
PairsResolve == \A t \in Candles : pending[t] # {} ~> pending[t] = {}

\* normalizer.ts: the guard is "the single place that decides what counts as a
\* duplicate", of messages redelivered, of a pipeline that "only ever acts on
\* closed candles".  So the message that completes candle t and is refused
\* because every guard already stands at t must concern a candle that was
\* taken before: its rows cannot hold unfinished values.
DuplicatesWereStored ==
  [][\A n \in Markets, t \in Candles :
       /\ Deliver(n, t)
       /\ pending[t] \cup {n} = Markets
       /\ \A m \in Markets : guard[m] = t
       => \A m \in Markets : stored[m][t] # "forming"]_vars
-----------------------------------------------------------------------------
(* The inductive invariant behind those properties. *)

\* Outside "up" the process has nothing in memory but the backfill's answers,
\* and a process that is down not even those.
Fresh ==
  /\ mode = "down" => fetched = [m \in Markets |-> 0]
  /\ mode # "up" =>
       /\ jobs = {}
       /\ guard = [m \in Markets |-> 0]
       /\ base = [m \in Markets |-> 0]
       /\ applied = [t \in Candles |-> 0]
       /\ pending = [t \in Candles |-> {}]
       /\ todo = [k \in Ticks |-> {}]

\* Whatever travels through the worker has closed at the exchange.
OnlyClosedTravels ==
  /\ \A m \in Markets : fetched[m] <= closed + 1
  /\ \A t \in Candles : pending[t] # {} => t <= closed
  /\ \A k \in Ticks : \A e \in todo[k] : e[1] <= closed
  /\ \A j \in jobs : j.candle <= closed

\* A closed row has closed, and where it is the forming candle of an answer
\* still unused, two workers overlapped on it.
FinalRowsAreOld ==
  \A m \in Markets, t \in Candles :
    stored[m][t] = "final" =>
      /\ t <= closed
      /\ mode = "backfilling" /\ fetched[m] = t => t \in contested

\* While a peer is up, every candle either worker may have read forming and
\* not written yet is contested.
PeerContests ==
  peer # 0 =>
    /\ peer <= closed + 1
    /\ \A t \in Candles :
         \/ peer <= t /\ t <= closed + 1
         \/ mode = "backfilling" /\ \E m \in Markets : fetched[m] = t
         => t \in contested

\* What a job has written by the time it stands at its step; a row may have
\* been set back only where two workers overlapped on it.
RowsOfJobs ==
  \A j \in jobs :
    /\ j.pc # "storeSpot" =>
         \A m \in Markets \ {"futures"} : stored[m][j.candle] = "final" \/ j.candle \in contested
    /\ j.pc \notin {"storeSpot", "storeFutures"} =>
         stored["futures"][j.candle] = "final" \/ j.candle \in contested
    /\ j.pc = "finish" => j.candle \in metrics

\* One job per candle, none past the futures guard, and a job that has not
\* computed yet stands for a candle not applied yet.
JobsUnderGuard ==
  /\ \A i, j \in jobs : i.candle = j.candle => i = j
  /\ \A j \in jobs : j.candle <= guard["futures"]
  /\ \A t \in Candles : applied[t] # 0 => t <= guard["futures"]
  /\ \A j \in jobs : j.pc \in {"storeSpot", "storeFutures", "gather"} => applied[j.candle] = 0
=============================================================================
