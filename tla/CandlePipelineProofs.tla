------------------------ MODULE CandlePipelineProofs ------------------------
(***************************************************************************)
(* Safety of CandlePipeline for every number of candles, fallback runs,    *)
(* restarts and overlapping workers, and for both kinds of symbol.         *)
(***************************************************************************)
EXTENDS CandlePipeline, TLAPS

USE MarketsAssumption, MaxCandleAssumption, TicksAssumption, MaxRestartsAssumption

\* What an arriving candle can do: wait in the buffer or be refused by the
\* first guard, be taken by the spot guard alone, or be taken by every guard
\* and start a job.
Queued == UNCHANGED <<guard, base, jobs>>

HalfTaken(t) ==
  /\ "spot" \in Markets
  /\ guard["spot"] < t /\ t <= guard["futures"]
  /\ guard' = [guard EXCEPT !["spot"] = t]
  /\ base' \in [Markets -> OpenTimes]
  /\ base'["futures"] = base["futures"]
  /\ jobs' = jobs

Accepted(t) ==
  /\ guard["futures"] < t
  /\ guard' = [m \in Markets |-> t]
  /\ base' \in [Markets -> OpenTimes]
  /\ base'["futures"] = IF guard["futures"] = 0 THEN t ELSE base["futures"]
  /\ \E missed \in SUBSET Candles, who \in Owners :
       /\ guard["futures"] # 0 => (guard["futures"] + 1) .. (t - 1) \subseteq missed
       /\ jobs' = jobs \cup {[candle |-> t, missed |-> missed, owner |-> who, pc |-> FirstStep]}

\* The three outcomes are all there are.
LEMMA AddCases ==
  ASSUME TypeOK, NEW t \in Candles, NEW m \in Markets, NEW who \in Owners, Add(t, m, who)
  PROVE  /\ pending' \in [Candles -> (SUBSET Markets) \ {Markets}]
         /\ \A c \in Candles : c # t => pending'[c] = pending[c]
         /\ Queued \/ HalfTaken(t) \/ Accepted(t)
<1> USE DEF TypeOK, Candles, OpenTimes
<1>1. CASE pending[t] \cup {m} # Markets
  <2>1. /\ pending' = [pending EXCEPT ![t] = pending[t] \cup {m}]
        /\ UNCHANGED <<guard, base, jobs>>
    BY <1>1 DEF Add
  <2>2. pending[t] \cup {m} \in (SUBSET Markets) \ {Markets}
    BY <1>1
  <2>3. pending' \in [Candles -> (SUBSET Markets) \ {Markets}]
    BY <2>1, <2>2
  <2> QED BY <2>1, <2>3 DEF Queued
<1>2. CASE pending[t] \cup {m} = Markets
  <2>1. /\ pending' = [pending EXCEPT ![t] = {}]
        /\ Process(t, who)
    BY <1>2 DEF Add
  <2>2. base' \in [Markets -> OpenTimes]
    BY <2>1 DEF Process
  <2>3. CASE "spot" \in Markets /\ ~Accepts("spot", t)
    <3>1. Taken(t) = {}
      BY <2>3 DEF Taken
    <3>2. guard' = guard /\ base' = base /\ jobs' = jobs
      BY <2>1, <3>1 DEF Process
    <3> QED BY <2>1, <3>2 DEF Queued
  <2>4. CASE ~("spot" \in Markets /\ ~Accepts("spot", t)) /\ ~Accepts("futures", t)
    <3>1. Taken(t) = Markets \ {"futures"}
      BY <2>4 DEF Taken
    <3>2. CASE "spot" \in Markets
      <4>1. guard' = [guard EXCEPT !["spot"] = t]
        BY <2>1, <3>1, <3>2 DEF Process
      <4>2. base'["futures"] = base["futures"] /\ jobs' = jobs
        BY <2>1, <3>1, <3>2 DEF Process
      <4>3. guard["spot"] < t
        BY <2>4, <3>2 DEF Accepts
      <4>4. guard["futures"] \in 0 .. MaxCandle + 1 /\ ~(guard["futures"] < t)
        BY <2>4 DEF Accepts
      <4>5. t <= guard["futures"]
        BY <4>4
      <4> QED BY <2>1, <2>2, <3>2, <4>1, <4>2, <4>3, <4>5 DEF HalfTaken
    <3>3. CASE "spot" \notin Markets
      <4>1. guard' = guard /\ base' = base /\ jobs' = jobs
        BY <2>1, <3>1, <3>3 DEF Process
      <4> QED BY <2>1, <4>1 DEF Queued
    <3> QED BY <3>2, <3>3
  <2>5. CASE ~("spot" \in Markets /\ ~Accepts("spot", t)) /\ Accepts("futures", t)
    <3>1. Taken(t) = Markets
      BY <2>5 DEF Taken
    <3>2. guard' = [n \in Markets |-> t]
      BY <2>1, <3>1 DEF Process
    <3>3. base'["futures"] = IF guard["futures"] = 0 THEN t ELSE base["futures"]
      BY <2>1, <3>1 DEF Process
    <3>4. jobs' = jobs \cup {[candle |-> t, missed |-> Missed(t), owner |-> who, pc |-> FirstStep]}
      BY <2>1, <3>1 DEF Process
    <3>5. Missed(t) \in SUBSET Candles
      <4> SUFFICES ASSUME NEW c \in Missed(t) PROVE c \in Candles
        OBVIOUS
      <4>1. PICK n \in Markets : guard[n] # 0 /\ c \in (guard[n] + 1) .. (t - 1)
        BY DEF Missed
      <4>2. guard[n] \in 0 .. MaxCandle + 1
        OBVIOUS
      <4> QED BY <4>1, <4>2
    <3>6. guard["futures"] # 0 => (guard["futures"] + 1) .. (t - 1) \subseteq Missed(t)
      <4> "futures" \in Markets
        OBVIOUS
      <4> QED BY DEF Missed
    <3>7. guard["futures"] < t
      BY <2>5 DEF Accepts
    <3> QED BY <2>1, <2>2, <3>2, <3>3, <3>4, <3>5, <3>6, <3>7 DEF Accepted
  <2> QED BY <2>3, <2>4, <2>5
<1> QED BY <1>1, <1>2

\* What an arrival writes is typed.
LEMMA AddTypes ==
  ASSUME TypeOK, NEW t \in Candles, Queued \/ HalfTaken(t) \/ Accepted(t)
  PROVE  /\ guard' \in [Markets -> OpenTimes]
         /\ base' \in [Markets -> OpenTimes]
         /\ jobs' \in SUBSET Job
<1>1. CASE Queued
  BY <1>1 DEF Queued, TypeOK
<1>2. CASE HalfTaken(t)
  BY <1>2 DEF HalfTaken, TypeOK, OpenTimes, Candles
<1>3. CASE Accepted(t)
  <2>1. FirstStep \in Steps
    BY DEF FirstStep, Steps
  <2>2. PICK missed \in SUBSET Candles, who \in Owners :
          jobs' = jobs \cup {[candle |-> t, missed |-> missed, owner |-> who, pc |-> FirstStep]}
    BY <1>3 DEF Accepted
  <2>3. [candle |-> t, missed |-> missed, owner |-> who, pc |-> FirstStep] \in Job
    BY <2>1 DEF Job
  <2>4. jobs' \in SUBSET Job
    BY <2>2, <2>3 DEF TypeOK
  <2>5. t \in OpenTimes
    BY DEF OpenTimes, Candles
  <2> QED BY <1>3, <2>4, <2>5 DEF Accepted
<1> QED BY <1>1, <1>2, <1>3

\* Every variable the worker holds or writes keeps its type, whatever the
\* interleaving of sockets, fallback runs, processing, crashes and boots.
THEOREM TypeCorrect == Spec => []TypeOK
<1>1. Init => TypeOK
  BY DEF Init, TypeOK, OpenTimes, Candles
<1>2. TypeOK /\ [Next]_vars => TypeOK'
  <2> SUFFICES ASSUME TypeOK, [Next]_vars PROVE TypeOK'
    OBVIOUS
  <2> USE DEF TypeOK, Candles, OpenTimes
  <2>1. CASE CandleCloses
    BY <2>1 DEF CandleCloses, memory, database, ghosts
  <2>2. ASSUME NEW m \in Markets, BackfillFetch(m) PROVE TypeOK'
    <3>1. closed + 1 \in OpenTimes /\ fetched' = [fetched EXCEPT ![m] = closed + 1]
      BY <2>2 DEF BackfillFetch
    <3>2. fetched' \in [Markets -> OpenTimes]
      BY <3>1
    <3> QED BY <2>2, <3>2 DEF BackfillFetch, feed, memory, database, ghosts, overlap
  <2>3. CASE BackfillDone
    BY <2>3 DEF BackfillDone, GoLive, Upserted, ghosts, overlap
  <2>4. CASE BackfillFails
    BY <2>4 DEF BackfillFails, GoLive, Upserted, ghosts, overlap
  <2>5. ASSUME NEW m \in Markets, NEW t \in Candles, Deliver(m, t) PROVE TypeOK'
    <3>1. WS \in Owners /\ Add(t, m, WS)
      BY <2>5 DEF Deliver, Owners
    <3>2. /\ pending' \in [Candles -> (SUBSET Markets) \ {Markets}]
          /\ Queued \/ HalfTaken(t) \/ Accepted(t)
      BY <3>1, AddCases
    <3>3. guard' \in [Markets -> OpenTimes] /\ base' \in [Markets -> OpenTimes] /\ jobs' \in SUBSET Job
      BY <3>2, AddTypes
    <3>4. wsSeen' \in [Markets -> 0 .. MaxCandle]
      BY <2>5 DEF Deliver
    <3>5. UNCHANGED <<closed, mode, fetched, todo, applied, stored, metrics, snapshots, reported, lost, restarts, peer, contested>>
      BY <2>5 DEF Deliver, database, ghosts, overlap
    <3> QED BY <3>2, <3>3, <3>4, <3>5
  <2>6. ASSUME NEW k \in Ticks, TickStart(k) PROVE TypeOK'
    <3>1. PICK late \in SUBSET Waiting : todo' = [todo EXCEPT ![k] = {<<t, MissingSide(t)>> : t \in late}]
      BY <2>6 DEF TickStart
    <3>2. ASSUME NEW t \in Waiting PROVE t \in Candles /\ MissingSide(t) \in Markets
      <4>1. t \in Candles /\ pending[t] # {} /\ pending[t] # Markets /\ pending[t] \subseteq Markets
        BY DEF Waiting
      <4>2. Markets # {"futures"}
        <5> SUFFICES ASSUME Markets = {"futures"} PROVE FALSE
          OBVIOUS
        <5>1. "futures" \in pending[t]
          BY <4>1
        <5> QED BY <4>1, <5>1
      <4> QED BY <4>1, <4>2 DEF MissingSide
    <3>3. {<<t, MissingSide(t)>> : t \in late} \in SUBSET Entries
      BY <3>2 DEF Entries
    <3>4. todo' \in [Ticks -> SUBSET Entries]
      BY <3>1, <3>3
    <3> QED BY <2>6, <3>4 DEF TickStart, feed, database, ghosts, overlap
  <2>7. ASSUME NEW k \in Ticks, NEW e \in todo[k], TickFound(k, e) PROVE TypeOK'
    <3>1. e[1] \in Candles /\ e[2] \in Markets /\ k \in Owners /\ Add(e[1], e[2], k)
      BY <2>7 DEF TickFound, Owners, Entries
    <3>2. /\ pending' \in [Candles -> (SUBSET Markets) \ {Markets}]
          /\ Queued \/ HalfTaken(e[1]) \/ Accepted(e[1])
      BY <3>1, AddCases
    <3>3. guard' \in [Markets -> OpenTimes] /\ base' \in [Markets -> OpenTimes] /\ jobs' \in SUBSET Job
      BY <3>1, <3>2, AddTypes
    <3>4. todo' \in [Ticks -> SUBSET Entries]
      BY <2>7 DEF TickFound, Take
    <3> QED BY <2>7, <3>2, <3>3, <3>4 DEF TickFound, Take, feed, database, ghosts, overlap
  <2>8. ASSUME NEW k \in Ticks, NEW e \in todo[k], TickDrops(k, e) PROVE TypeOK'
    BY <2>8 DEF TickDrops, Take, Entries, feed, database, ghosts, overlap
  <2>9. ASSUME NEW k \in Ticks, NEW e \in todo[k], TickFails(k, e) PROVE TypeOK'
    BY <2>9 DEF TickFails, Take, Entries, feed, database, ghosts, overlap
  <2>10. ASSUME NEW j \in jobs, JobStep(j) PROVE TypeOK'
    <3>0. j \in Job
      OBVIOUS
    <3> USE DEF At, Goto, JobFrame, Job, Steps, Owners, feed, database, ghosts, overlap
    <3>1. CASE StoreSpot(j)     BY <3>1 DEF StoreSpot
    <3>2. CASE StoreFutures(j)  BY <3>2 DEF StoreFutures
    <3>3. CASE Compute(j)
      <4>1. applied' \in [Candles -> Nat]
        BY <3>0, <3>3 DEF Compute
      <4>2. jobs' \in SUBSET Job
        BY <3>0, <3>3 DEF Compute
      <4> QED BY <3>3, <4>1, <4>2 DEF Compute
    <3>4. CASE SaveMetrics(j)   BY <3>4 DEF SaveMetrics
    <3>5. CASE Finish(j)
      <4>1. reported' \in SUBSET Candles /\ snapshots' \in SUBSET Candles /\ jobs' \in SUBSET Job
        BY <3>0, <3>5 DEF Finish
      <4> QED BY <3>5, <4>1 DEF Finish
    <3>6. CASE JobFails(j)
      <4>1. lost' \in SUBSET Candles /\ jobs' \in SUBSET Job
        BY <3>0, <3>6 DEF JobFails
      <4> QED BY <3>6, <4>1 DEF JobFails
    <3> QED BY <2>10, <3>1, <3>2, <3>3, <3>4, <3>5, <3>6 DEF JobStep
  <2>11. CASE Crash
    BY <2>11 DEF Crash, database, ghosts, overlap
  <2>12. CASE Boot
    BY <2>12 DEF Boot, feed, memory, database, ghosts, overlap
  <2>13. CASE PeerStarts \/ PeerStops
    <3>1. peer' \in {0, closed + 1} /\ contested' \in SUBSET Candles
      BY <2>13 DEF PeerStarts, PeerStops
    <3>2. restarts' \in {restarts, restarts + 1} /\ (restarts' # restarts => restarts < MaxRestarts)
      BY <2>13 DEF PeerStarts, PeerStops
    <3>3. peer' \in OpenTimes
      BY <3>1
    <3>4. restarts' \in 0 .. MaxRestarts
      BY <3>2
    <3> QED BY <2>13, <3>1, <3>3, <3>4 DEF PeerStarts, PeerStops, PeerFrame, feed, memory, ghosts
  <2>14. ASSUME NEW m \in Markets, PeerBackfills(m) PROVE TypeOK'
    <3>1. PICK last \in peer .. closed + 1 : stored' = [stored EXCEPT ![m] = Upserted(stored[m], last)]
      BY <2>14 DEF PeerBackfills
    <3>2. Upserted(stored[m], last) \in [Candles -> {"none", "forming", "final"}]
      BY DEF Upserted
    <3>3. stored' \in [Markets -> [Candles -> {"none", "forming", "final"}]]
      BY <3>1, <3>2
    <3> QED BY <2>14, <3>3 DEF PeerBackfills, PeerFrame, feed, memory, ghosts, overlap
  <2>15. ASSUME NEW m \in Markets, NEW t \in Candles, PeerStores(m, t) PROVE TypeOK'
    BY <2>15 DEF PeerStores, PeerFrame, feed, memory, ghosts, overlap
  <2>16. CASE UNCHANGED vars
    BY <2>16 DEF vars, feed, memory, database, ghosts, overlap
  <2> QED
    BY <2>1, <2>2, <2>3, <2>4, <2>5, <2>6, <2>7, <2>8, <2>9, <2>10, <2>11, <2>12, <2>13,
       <2>14, <2>15, <2>16
    DEF Next, TickStep
<1> QED BY <1>1, <1>2, PTL DEF Spec
-----------------------------------------------------------------------------
\* A step of the peer, and what it leaves to the worker.
PeerStep ==
  \/ PeerStarts
  \/ PeerStops
  \/ \E m \in Markets : PeerBackfills(m)
  \/ \E m \in Markets, t \in Candles : PeerStores(m, t)

LEMMA PeerSteps ==
  ASSUME PeerStep
  PROVE  UNCHANGED <<closed, wsSeen, mode, fetched, memory, metrics, snapshots, reported, lost>>
BY DEF PeerStep, PeerStarts, PeerStops, PeerBackfills, PeerStores, PeerFrame, feed, ghosts

\* A process that is not up holds nothing: a crash forgets everything and the
\* backfill gives the guards their seeds only in the step that ends it.
LEMMA FreshInvariant == Spec => []Fresh
<1>1. Init => Fresh
  BY DEF Init, Fresh
<1>2. TypeOK /\ Fresh /\ [Next]_vars => Fresh'
  <2> SUFFICES ASSUME TypeOK, Fresh, [Next]_vars PROVE Fresh'
    OBVIOUS
  <2> USE DEF Fresh
  <2>1. CASE CandleCloses
    BY <2>1 DEF CandleCloses, memory
  <2>2. ASSUME NEW m \in Markets, BackfillFetch(m) PROVE Fresh'
    BY <2>2 DEF BackfillFetch, memory
  <2>3. CASE BackfillDone \/ BackfillFails
    BY <2>3 DEF BackfillDone, BackfillFails, GoLive
  <2>4. ASSUME NEW m \in Markets, NEW t \in Candles, Deliver(m, t) PROVE Fresh'
    BY <2>4 DEF Deliver
  <2>5. ASSUME NEW k \in Ticks, TickStep(k) PROVE Fresh'
    BY <2>5 DEF TickStep, TickStart, TickFound, TickDrops, TickFails, Take
  <2>6. ASSUME NEW j \in jobs, JobStep(j) PROVE Fresh'
    <3>1. mode = "up" /\ mode' = mode /\ fetched' = fetched
      BY <2>6 DEF JobStep, StoreSpot, StoreFutures, Compute, SaveMetrics, Finish, JobFails, At, JobFrame
    <3> QED BY <3>1
  <2>7. CASE Crash
    BY <2>7 DEF Crash
  <2>8. CASE Boot
    BY <2>8 DEF Boot, memory
  <2>9. CASE PeerStep
    BY <2>9, PeerSteps DEF memory
  <2>10. CASE UNCHANGED vars
    BY <2>10 DEF vars, memory
  <2> QED BY <2>1, <2>2, <2>3, <2>4, <2>5, <2>6, <2>7, <2>8, <2>9, <2>10 DEF Next, PeerStep
<1> QED BY <1>1, <1>2, TypeCorrect, PTL DEF Spec

\* Nothing the sockets, the buffer, the fallback or the processing hold is
\* still forming; only the backfill reads a forming candle.
LEMMA ClosedInvariant == Spec => []OnlyClosedTravels
<1>1. Init => OnlyClosedTravels
  BY DEF Init, OnlyClosedTravels
<1>2. TypeOK /\ Fresh /\ OnlyClosedTravels /\ [Next]_vars => OnlyClosedTravels'
  <2> SUFFICES ASSUME TypeOK, Fresh, OnlyClosedTravels, [Next]_vars PROVE OnlyClosedTravels'
    OBVIOUS
  <2> USE DEF OnlyClosedTravels
  <2>0. ASSUME NEW t \in Candles, t <= closed, NEW m \in Markets, NEW who \in Owners, Add(t, m, who)
        PROVE  /\ \A c \in Candles : pending'[c] # {} => c <= closed
               /\ \A j \in jobs' : j.candle <= closed
    <3>1. /\ \A c \in Candles : c # t => pending'[c] = pending[c]
          /\ Queued \/ HalfTaken(t) \/ Accepted(t)
      BY <2>0, AddCases
    <3>2. \A j \in jobs' : j \in jobs \/ j.candle = t
      BY <3>1 DEF Queued, HalfTaken, Accepted
    <3> QED BY <2>0, <3>1, <3>2
  <2>1. CASE CandleCloses
    <3>1. closed' = closed + 1 /\ closed \in Nat /\ UNCHANGED <<fetched, pending, todo, jobs>>
      BY <2>1 DEF CandleCloses, memory, TypeOK
    <3>2. \A m \in Markets : fetched[m] \in Nat
      BY DEF TypeOK, OpenTimes
    <3>3. \A k \in Ticks : \A e \in todo[k] : e[1] \in Nat
      BY DEF TypeOK, Entries, Candles
    <3>4. \A j \in jobs : j.candle \in Nat
      BY DEF TypeOK, Job, Candles
    <3> QED BY <3>1, <3>2, <3>3, <3>4 DEF Candles
  <2>2. ASSUME NEW m \in Markets, BackfillFetch(m) PROVE OnlyClosedTravels'
    BY <2>2 DEF BackfillFetch, memory, feed, TypeOK
  <2>3. CASE BackfillDone \/ BackfillFails
    BY <2>3 DEF BackfillDone, BackfillFails, GoLive
  <2>4. ASSUME NEW m \in Markets, NEW t \in Candles, Deliver(m, t) PROVE OnlyClosedTravels'
    <3>1. t <= closed /\ WS \in Owners /\ Add(t, m, WS) /\ UNCHANGED <<closed, fetched, todo>>
      BY <2>4 DEF Deliver, Owners
    <3> QED BY <2>0, <3>1
  <2>5. ASSUME NEW k \in Ticks, TickStart(k) PROVE OnlyClosedTravels'
    <3>1. PICK late \in SUBSET Waiting : todo' = [todo EXCEPT ![k] = {<<t, MissingSide(t)>> : t \in late}]
      BY <2>5 DEF TickStart
    <3>2. \A e \in todo'[k] : e[1] \in Waiting
      BY <3>1 DEF TypeOK
    <3>3. \A l \in Ticks \ {k} : todo'[l] = todo[l]
      BY <3>1 DEF TypeOK
    <3>4. \A l \in Ticks : \A e \in todo'[l] : e[1] <= closed
      BY <3>2, <3>3 DEF Waiting
    <3> QED BY <2>5, <3>4 DEF TickStart, feed
  <2>6. ASSUME NEW k \in Ticks, NEW e \in todo[k], Take(k, e)
        PROVE  /\ e \in Entries /\ e[1] <= closed
               /\ UNCHANGED <<closed, fetched>>
               /\ \A l \in Ticks : todo'[l] \subseteq todo[l]
    BY <2>6 DEF Take, TypeOK, feed
  <2>7. ASSUME NEW k \in Ticks, NEW e \in todo[k], TickFound(k, e) PROVE OnlyClosedTravels'
    <3>1. Take(k, e) /\ k \in Owners /\ Add(e[1], e[2], k)
      BY <2>7 DEF TickFound, Owners
    <3>2. e[1] \in Candles /\ e[2] \in Markets /\ e[1] <= closed
      BY <2>6, <3>1 DEF Entries
    <3> QED BY <2>0, <2>6, <3>1, <3>2
  <2>8. ASSUME NEW k \in Ticks, NEW e \in todo[k], TickDrops(k, e) \/ TickFails(k, e)
        PROVE  OnlyClosedTravels'
    <3>1. Take(k, e) /\ jobs' = jobs /\ (pending' = pending \/ pending' = [pending EXCEPT ![e[1]] = {}])
      BY <2>8 DEF TickDrops, TickFails
    <3>2. \A t \in Candles : pending'[t] # {} => t <= closed
      BY <3>1 DEF TypeOK
    <3> QED BY <2>6, <3>1, <3>2
  <2>9. ASSUME NEW j \in jobs, JobStep(j) PROVE OnlyClosedTravels'
    <3>1. UNCHANGED <<closed, fetched, pending, todo>>
      BY <2>9 DEF JobStep, StoreSpot, StoreFutures, Compute, SaveMetrics, Finish, JobFails, JobFrame, feed
    <3>2. jobs' \subseteq jobs \/ \E step \in Steps : Goto(j, step)
      BY <2>9 DEF JobStep, StoreSpot, StoreFutures, Compute, SaveMetrics, Finish, JobFails, Steps
    <3>3. \A i \in jobs' : \E h \in jobs : i.candle = h.candle
      BY <3>2 DEF Goto, TypeOK, Job
    <3> QED BY <3>1, <3>3
  <2>10. CASE Crash
    BY <2>10 DEF Crash, TypeOK
  <2>11. CASE Boot
    BY <2>11 DEF Boot, memory, feed
  <2>12. CASE PeerStep
    BY <2>12, PeerSteps DEF memory
  <2>13. CASE UNCHANGED vars
    BY <2>13 DEF vars, memory, feed
  <2> QED
    BY <2>1, <2>2, <2>3, <2>4, <2>5, <2>7, <2>8, <2>9, <2>10, <2>11, <2>12, <2>13
    DEF Next, TickStep, PeerStep
<1> QED BY <1>1, <1>2, TypeCorrect, FreshInvariant, PTL DEF Spec
-----------------------------------------------------------------------------
\* The steps of Next as the remaining invariants see them.
Elsewhere ==
  UNCHANGED <<mode, fetched, guard, base, jobs, applied, stored, metrics, snapshots, reported, lost>>

Arrival(t) ==
  /\ mode = "up"
  /\ t <= closed
  /\ UNCHANGED <<mode, fetched, closed, applied, stored, metrics, snapshots, reported, lost, peer, contested>>
  /\ Queued \/ HalfTaken(t) \/ Accepted(t)

\* What a step may be, and what it leaves alone.
LEMMA StepCases ==
  ASSUME TypeOK, OnlyClosedTravels, [Next]_vars
  PROVE  \/ Elsewhere /\ closed' \in {closed, closed + 1}
         \/ \E m \in Markets : BackfillFetch(m)
         \/ BackfillDone
         \/ BackfillFails
         \/ \E t \in Candles : Arrival(t)
         \/ \E j \in jobs : JobStep(j)
         \/ Crash
         \/ Boot
         \/ \E m \in Markets : PeerBackfills(m)
         \/ \E m \in Markets, t \in Candles : PeerStores(m, t)
<1>1. CASE CandleCloses
  BY <1>1 DEF CandleCloses, Elsewhere, memory, database, ghosts
<1>2. ASSUME NEW m \in Markets, NEW t \in Candles, Deliver(m, t) PROVE Arrival(t)
  <2>1. WS \in Owners /\ Add(t, m, WS)
    BY <1>2 DEF Deliver, Owners
  <2>2. Queued \/ HalfTaken(t) \/ Accepted(t)
    BY <2>1, AddCases
  <2> QED BY <1>2, <2>2 DEF Deliver, Arrival, database, ghosts, overlap
<1>3. ASSUME NEW k \in Ticks, TickStart(k) PROVE Elsewhere /\ closed' = closed
  BY <1>3 DEF TickStart, Elsewhere, feed, database, ghosts
<1>4. ASSUME NEW k \in Ticks, NEW e \in todo[k], TickFound(k, e) PROVE e[1] \in Candles /\ Arrival(e[1])
  <2>1. e[1] \in Candles /\ e[2] \in Markets /\ k \in Owners /\ e[1] <= closed
    BY DEF TypeOK, Entries, Owners, OnlyClosedTravels
  <2>2. Take(k, e) /\ Add(e[1], e[2], k)
    BY <1>4 DEF TickFound
  <2>3. Queued \/ HalfTaken(e[1]) \/ Accepted(e[1])
    BY <2>1, <2>2, AddCases
  <2> QED BY <2>1, <2>2, <2>3 DEF Take, Arrival, feed, database, ghosts, overlap
<1>5. ASSUME NEW k \in Ticks, NEW e \in todo[k], TickDrops(k, e) \/ TickFails(k, e)
      PROVE  Elsewhere /\ closed' = closed
  BY <1>5 DEF TickDrops, TickFails, Take, Elsewhere, feed, database, ghosts
<1>6. CASE PeerStarts \/ PeerStops
  BY <1>6 DEF PeerStarts, PeerStops, PeerFrame, Elsewhere, feed, memory, ghosts
<1>7. CASE UNCHANGED vars
  BY <1>7 DEF vars, Elsewhere, feed, memory, database, ghosts
<1> QED BY <1>1, <1>2, <1>3, <1>4, <1>5, <1>6, <1>7 DEF Next, TickStep

\* The peer may only come and go, and a candle once contested stays so.
LEMMA OverlapSteps ==
  ASSUME TypeOK, [Next]_vars
  PROVE  /\ contested \subseteq contested'
         /\ \/ CandleCloses
            \/ PeerStarts
            \/ PeerStops
            \/ UNCHANGED <<closed, peer, contested>>
<1> USE DEF feed, overlap
<1>1. CASE CandleCloses
  BY <1>1 DEF CandleCloses
<1>2. CASE (\E m \in Markets : BackfillFetch(m)) \/ BackfillDone \/ BackfillFails
  BY <1>2 DEF BackfillFetch, BackfillDone, BackfillFails, GoLive
<1>3. ASSUME NEW m \in Markets, NEW t \in Candles, Deliver(m, t) PROVE UNCHANGED <<closed, overlap>>
  BY <1>3 DEF Deliver
<1>4. ASSUME NEW k \in Ticks, TickStep(k) PROVE UNCHANGED <<closed, overlap>>
  BY <1>4 DEF TickStep, TickStart, TickFound, TickDrops, TickFails, Take
<1>5. ASSUME NEW j \in jobs, JobStep(j) PROVE UNCHANGED <<closed, overlap>>
  BY <1>5 DEF JobStep, StoreSpot, StoreFutures, Compute, SaveMetrics, Finish, JobFails, JobFrame
<1>6. CASE Crash \/ Boot
  BY <1>6 DEF Crash, Boot
<1>7. CASE PeerStep
  BY <1>7, PeerSteps DEF PeerStep, PeerStarts, PeerStops, PeerBackfills, PeerStores
<1>8. CASE UNCHANGED vars
  BY <1>8 DEF vars
<1> QED BY <1>1, <1>2, <1>3, <1>4, <1>5, <1>6, <1>7, <1>8 DEF Next, PeerStep

\* What this worker holds from its boot's answers: nothing new, but a fetch.
LEMMA AnswerSteps ==
  ASSUME TypeOK, Fresh, OnlyClosedTravels, [Next]_vars,
         mode' = "backfilling", NEW m \in Markets, fetched'[m] # 0
  PROVE  \/ mode = "backfilling" /\ fetched'[m] = fetched[m]
         \/ fetched'[m] = closed + 1 /\ closed' = closed
<1>1. CASE Elsewhere \/ \E t \in Candles : Arrival(t)
  BY <1>1 DEF Elsewhere, Arrival
<1>2. ASSUME NEW n \in Markets, BackfillFetch(n)
      PROVE  \/ mode = "backfilling" /\ fetched'[m] = fetched[m]
             \/ fetched'[m] = closed + 1 /\ closed' = closed
  BY <1>2 DEF BackfillFetch, feed, TypeOK
<1>3. CASE BackfillDone \/ BackfillFails \/ Crash \/ Boot
  BY <1>3 DEF BackfillDone, BackfillFails, GoLive, Crash, Boot, Fresh
<1>4. ASSUME NEW j \in jobs, JobStep(j) PROVE mode' = mode /\ fetched' = fetched
  BY <1>4 DEF JobStep, StoreSpot, StoreFutures, Compute, SaveMetrics, Finish, JobFails, JobFrame
<1>5. CASE PeerStep
  BY <1>5, PeerSteps
<1> QED BY StepCases, <1>1, <1>2, <1>3, <1>4, <1>5 DEF PeerStep

\* The candles the two workers may disagree about are recorded as contested.
LEMMA ContestInvariant == Spec => []PeerContests
<1>1. Init => PeerContests
  BY DEF Init, PeerContests
<1>2. TypeOK /\ Fresh /\ OnlyClosedTravels /\ PeerContests /\ [Next]_vars => PeerContests'
  <2> SUFFICES ASSUME TypeOK, Fresh, OnlyClosedTravels, PeerContests, [Next]_vars, peer' # 0
               PROVE  /\ peer' <= closed' + 1
                      /\ \A t \in Candles :
                           \/ peer' <= t /\ t <= closed' + 1
                           \/ mode' = "backfilling" /\ \E m \in Markets : fetched'[m] = t
                           => t \in contested'
    BY DEF PeerContests
  <2>0. /\ closed \in Nat /\ peer \in Nat /\ contested \subseteq contested'
        /\ \A t \in Candles : t \in Nat /\ t # 0
    BY OverlapSteps DEF TypeOK, OpenTimes, Candles
  <2>1. CASE PeerStarts
    <3>1. /\ peer' = closed + 1 /\ UNCHANGED <<closed, mode, fetched>>
          /\ contested' = contested \cup (Candles \cap ({closed + 1} \cup Unwritten))
      BY <2>1 DEF PeerStarts, PeerFrame, feed
    <3> QED BY <2>0, <3>1 DEF Unwritten
  <2>2. CASE PeerStops
    BY <2>2 DEF PeerStops
  <2>3. CASE CandleCloses
    <3>1. /\ peer' = peer /\ closed' = closed + 1 /\ UNCHANGED <<mode, fetched>>
          /\ contested' = contested \cup (Candles \cap {closed + 2})
      BY <2>3 DEF CandleCloses
    <3>2. \A t \in Candles : t <= closed + 2 => t <= closed + 1 \/ t = closed + 2
      BY <2>0
    <3> QED BY <2>0, <3>1, <3>2 DEF PeerContests
  <2>4. CASE UNCHANGED <<closed, peer, contested>>
    <3>1. ASSUME NEW t \in Candles, NEW m \in Markets, mode' = "backfilling", fetched'[m] = t
          PROVE  t \in contested
      <4>1. fetched'[m] # 0
        BY <2>0, <3>1
      <4>2. CASE mode = "backfilling" /\ fetched[m] = t
        BY <2>4, <4>2 DEF PeerContests
      <4>3. CASE t = closed + 1
        BY <2>0, <2>4, <4>3 DEF PeerContests
      <4> QED BY <3>1, <4>1, <4>2, <4>3, AnswerSteps
    <3> QED BY <2>4, <3>1 DEF PeerContests
  <2> QED BY <2>1, <2>2, <2>3, <2>4, OverlapSteps
<1> QED BY <1>1, <1>2, TypeCorrect, FreshInvariant, ClosedInvariant, PTL DEF Spec

\* Where a row may lose its final values, and that no final row lies under
\* the forming candle of an unused answer but where two workers overlapped.
Reopens(m, t) == stored[m][t] = "final" /\ stored'[m][t] # "final"

LEMMA StoredSteps ==
  ASSUME TypeOK, Fresh, OnlyClosedTravels, PeerContests, FinalRowsAreOld, [Next]_vars
  PROVE  /\ \A m \in Markets, t \in Candles : Reopens(m, t) => t \in contested
         /\ FinalRowsAreOld'
<1> USE DEF FinalRowsAreOld, Reopens
<1>0. /\ contested \subseteq contested' /\ closed \in Nat /\ closed' \in {closed, closed + 1}
      /\ \A t \in Candles : t \in Nat
  BY OverlapSteps DEF TypeOK, Candles, CandleCloses, PeerStarts, PeerStops, PeerFrame, feed
\* What is left of the invariant once the rows are known.
<1>a. ASSUME \A m \in Markets, t \in Candles :
               stored'[m][t] = "final" =>
                 \/ stored[m][t] = "final"
                 \/ t <= closed /\ (mode = "backfilling" /\ fetched[m] = t => t \in contested)
      PROVE  FinalRowsAreOld'
  <2> SUFFICES ASSUME NEW m \in Markets, NEW t \in Candles, stored'[m][t] = "final"
               PROVE  /\ t <= closed'
                      /\ mode' = "backfilling" /\ fetched'[m] = t => t \in contested'
    OBVIOUS
  <2>1. t <= closed /\ (mode = "backfilling" /\ fetched[m] = t => t \in contested)
    BY <1>a
  <2>2. ASSUME mode' = "backfilling", fetched'[m] = t PROVE t \in contested'
    <3>1. t # 0 /\ t # closed + 1
      BY <2>1, <1>0 DEF Candles
    <3> QED BY <1>0, <2>1, <2>2, <3>1, AnswerSteps
  <2> QED BY <1>0, <2>1, <2>2
<1>b. ASSUME stored' = stored PROVE FinalRowsAreOld' /\ \A m \in Markets, t \in Candles : ~Reopens(m, t)
  BY <1>a, <1>b
<1>1. CASE Elsewhere
  BY <1>1, <1>b DEF Elsewhere
<1>2. CASE \E m \in Markets : BackfillFetch(m)
  BY <1>2, <1>b DEF BackfillFetch, database
\* A market's rows after the upsert of an answer read while `last` was forming.
<1>c. ASSUME NEW m \in Markets, NEW last \in Nat, last <= closed + 1, NEW t \in Candles,
             stored'[m] = Upserted(stored[m], last)
      PROVE  /\ Reopens(m, t) => t = last
             /\ stored'[m][t] = "final" => stored[m][t] = "final" \/ (t < last /\ t <= closed)
  <2>1. stored'[m][t] = IF t < last THEN "final" ELSE IF t = last THEN "forming" ELSE stored[m][t]
    BY <1>c DEF Upserted
  <2> QED BY <1>0, <1>c, <2>1
<1>3. ASSUME NEW rows \in SUBSET Markets, mode = "backfilling",
             stored' = [m \in Markets |-> IF m \in rows THEN Upserted(stored[m], fetched[m]) ELSE stored[m]]
      PROVE  /\ \A m \in Markets, t \in Candles : Reopens(m, t) => t \in contested
             /\ FinalRowsAreOld'
  <2>1. \A m \in Markets : fetched[m] \in Nat /\ fetched[m] <= closed + 1
    BY DEF TypeOK, OpenTimes, OnlyClosedTravels
  <2>2. ASSUME NEW m \in Markets, NEW t \in Candles
        PROVE  /\ Reopens(m, t) => t = fetched[m]
               /\ stored'[m][t] = "final" => stored[m][t] = "final" \/ (t < fetched[m] /\ t <= closed)
    <3>1. CASE m \in rows
      BY <1>3, <1>c, <2>1, <3>1
    <3>2. CASE m \notin rows
      BY <1>3, <3>2
    <3> QED BY <3>1, <3>2
  <2>3. FinalRowsAreOld'
    BY <1>0, <1>a, <2>1, <2>2
  <2> QED BY <1>3, <2>2, <2>3
<1>4. CASE BackfillDone
  <2>1. /\ mode = "backfilling"
        /\ stored' = [m \in Markets |-> IF m \in Markets THEN Upserted(stored[m], fetched[m]) ELSE stored[m]]
    BY <1>4 DEF BackfillDone
  <2> QED BY <1>3, <2>1
<1>5. CASE BackfillFails
  <2>1. PICK done \in SUBSET Markets :
          stored' = [m \in Markets |-> IF m \in done THEN Upserted(stored[m], fetched[m]) ELSE stored[m]]
    BY <1>5 DEF BackfillFails
  <2> QED BY <1>3, <1>5, <2>1 DEF BackfillFails
<1>6. ASSUME NEW t \in Candles, Arrival(t) PROVE stored' = stored
  BY <1>6 DEF Arrival
\* The candle is stored with its closed values.
<1>d. ASSUME NEW m \in Markets, NEW t \in Candles, t <= closed,
             mode = "backfilling" /\ fetched[m] = t => t \in contested,
             stored' = [stored EXCEPT ![m][t] = "final"]
      PROVE  FinalRowsAreOld' /\ \A n \in Markets, c \in Candles : ~Reopens(n, c)
  <2>1. \A n \in Markets, c \in Candles :
          stored'[n][c] = IF n = m /\ c = t THEN "final" ELSE stored[n][c]
    BY <1>d DEF TypeOK
  <2> QED BY <1>a, <1>d, <2>1
<1>7. ASSUME NEW j \in jobs, JobStep(j)
      PROVE  FinalRowsAreOld' /\ \A n \in Markets, c \in Candles : ~Reopens(n, c)
  <2>1. mode = "up" /\ j.candle \in Candles /\ j.candle <= closed
    BY <1>7 DEF JobStep, StoreSpot, StoreFutures, Compute, SaveMetrics, Finish, JobFails, At,
                TypeOK, Job, OnlyClosedTravels
  <2>2. \/ stored' = stored
        \/ \E m \in {"spot", "futures"} : stored' = [stored EXCEPT ![m][j.candle] = "final"]
    BY <1>7 DEF JobStep, StoreSpot, StoreFutures, Compute, SaveMetrics, Finish, JobFails, database
  <2>3. stored' = [stored EXCEPT !["spot"][j.candle] = "final"] /\ "spot" \notin Markets => stored' = stored
    BY DEF TypeOK
  <2>4. "futures" \in Markets
    OBVIOUS
  <2> QED BY <1>b, <1>d, <2>1, <2>2, <2>3, <2>4
<1>8. CASE Crash \/ Boot
  BY <1>8, <1>b DEF Crash, Boot, database
<1>9. ASSUME NEW m \in Markets, PeerBackfills(m)
      PROVE  /\ \A n \in Markets, t \in Candles : Reopens(n, t) => t \in contested
             /\ FinalRowsAreOld'
  <2>1. PICK last \in peer .. closed + 1 : stored' = [stored EXCEPT ![m] = Upserted(stored[m], last)]
    BY <1>9 DEF PeerBackfills
  <2>2. /\ peer # 0 /\ peer \in Nat /\ last \in Nat /\ peer <= last /\ last <= closed + 1
        /\ \A n \in Markets \ {m} : stored'[n] = stored[n]
        /\ stored'[m] = Upserted(stored[m], last)
    BY <1>0, <1>9, <2>1 DEF PeerBackfills, TypeOK, OpenTimes
  <2>3. ASSUME NEW n \in Markets, NEW t \in Candles, Reopens(n, t) PROVE t \in contested
    <3>1. n = m /\ t = last
      BY <1>c, <2>2, <2>3
    <3> QED BY <2>2, <3>1 DEF PeerContests
  <2>4. ASSUME NEW n \in Markets, NEW t \in Candles, stored'[n][t] = "final", stored[n][t] # "final"
        PROVE  t <= closed /\ (mode = "backfilling" /\ fetched[n] = t => t \in contested)
    <3>1. n = m /\ t <= closed
      BY <1>c, <2>2, <2>4
    <3> QED BY <2>2, <3>1 DEF PeerContests
  <2> QED BY <1>a, <2>3, <2>4
<1>10. ASSUME NEW m \in Markets, NEW t \in Candles, PeerStores(m, t)
       PROVE  FinalRowsAreOld' /\ \A n \in Markets, c \in Candles : ~Reopens(n, c)
  <2>1. peer # 0 /\ t <= closed /\ stored' = [stored EXCEPT ![m][t] = "final"]
    BY <1>10 DEF PeerStores
  <2>2. mode = "backfilling" /\ fetched[m] = t => t \in contested
    BY <2>1 DEF PeerContests
  <2> QED BY <1>d, <2>1, <2>2
<1> QED BY StepCases, <1>b, <1>1, <1>2, <1>4, <1>5, <1>6, <1>7, <1>8, <1>9, <1>10
-----------------------------------------------------------------------------
LEMMA FinalRowsInvariant == Spec => []FinalRowsAreOld
<1>1. Init => FinalRowsAreOld
  BY DEF Init, FinalRowsAreOld
<1>2. TypeOK /\ Fresh /\ OnlyClosedTravels /\ PeerContests /\ FinalRowsAreOld /\ [Next]_vars => FinalRowsAreOld'
  BY StoredSteps
<1> QED BY <1>1, <1>2, TypeCorrect, FreshInvariant, ClosedInvariant, ContestInvariant, PTL DEF Spec

\* A stored closed candle goes back to its forming values only where another
\* worker was up while it formed, or came while this one's boot still held an
\* answer with that candle forming.  One worker never does it alone: its unused
\* answer is younger than every final row, and the rest writes final values.
THEOREM RowsReopenOnlyByOverlap == Spec => OnlyOverlapReopens
<1>1. TypeOK /\ Fresh /\ OnlyClosedTravels /\ PeerContests /\ FinalRowsAreOld /\ [Next]_vars =>
        [\A m \in Markets, t \in Candles :
           stored[m][t] = "final" /\ stored'[m][t] # "final" => t \in contested]_vars
  BY StoredSteps DEF Reopens
<1> QED BY <1>1, TypeCorrect, FreshInvariant, ClosedInvariant, ContestInvariant, FinalRowsInvariant, PTL
        DEF Spec, OnlyOverlapReopens

\* The written rows follow the job through its steps, and its snapshot comes
\* last: a snapshot always rests on closed rows of every market, but for what
\* an overlapping worker sets back.
RowsInv == RowsOfJobs /\ SnapshotOfFinalRows

\* A step keeps what the jobs have written.
LEMMA RowsStep ==
  ASSUME TypeOK, Fresh, OnlyClosedTravels, PeerContests, FinalRowsAreOld, RowsInv, [Next]_vars
  PROVE  RowsInv'
<1> USE DEF RowsInv, RowsOfJobs, SnapshotOfFinalRows
<1>0. /\ contested \subseteq contested'
      /\ \A m \in Markets, t \in Candles :
           stored[m][t] = "final" => stored'[m][t] = "final" \/ t \in contested'
  BY StoredSteps, OverlapSteps DEF Reopens
<1>a. "futures" \in Markets /\ (\A j \in jobs : j.candle \in Candles) /\ snapshots \subseteq Candles
  BY DEF TypeOK, Job
\* Steps that leave jobs and snapshots alone or start from scratch.
<1>b. ASSUME jobs' \subseteq jobs, UNCHANGED <<metrics, snapshots>> PROVE RowsInv'
  BY <1>0, <1>a, <1>b
<1>1. CASE Elsewhere /\ closed' \in {closed, closed + 1}
  BY <1>1, <1>b DEF Elsewhere
<1>2. ASSUME NEW m \in Markets, BackfillFetch(m) PROVE RowsInv'
  BY <1>2, <1>b DEF BackfillFetch, database, memory
<1>3. CASE BackfillDone \/ BackfillFails
  BY <1>3, <1>b DEF BackfillDone, BackfillFails, GoLive
<1>4. ASSUME NEW t \in Candles, Arrival(t) PROVE RowsInv'
  <2>1. CASE Queued \/ HalfTaken(t)
    BY <1>4, <2>1, <1>b DEF Arrival, Queued, HalfTaken
  <2>2. CASE Accepted(t)
    <3>1. PICK missed \in SUBSET Candles, who \in Owners :
            jobs' = jobs \cup {[candle |-> t, missed |-> missed, owner |-> who, pc |-> FirstStep]}
      BY <2>2 DEF Accepted
    <3>2. UNCHANGED <<metrics, snapshots, stored>>
      BY <1>4 DEF Arrival
    <3>3. FirstStep = "storeSpot" \/ (FirstStep = "storeFutures" /\ Markets \ {"futures"} = {})
      BY DEF FirstStep
    <3> QED BY <3>1, <3>2, <3>3, <1>0, <1>a
  <2> QED BY <1>4, <2>1, <2>2 DEF Arrival
<1>5. ASSUME NEW j \in jobs, JobStep(j) PROVE RowsInv'
  <2> USE <1>0, <1>a DEF Goto, At, JobFrame, database
  <2>0. j.candle \in Candles /\ j \in Job
    BY DEF TypeOK
  <2>1. CASE StoreSpot(j)
    <3>1. jobs' = (jobs \ {j}) \cup {[j EXCEPT !.pc = "storeFutures"]}
      BY <2>1 DEF StoreSpot
    <3>2. stored' = [stored EXCEPT !["spot"][j.candle] = "final"] /\ UNCHANGED <<metrics, snapshots>>
      BY <2>1 DEF StoreSpot
    <3>3. \A m \in Markets \ {"futures"} : stored'[m][j.candle] = "final"
      BY <2>0, <3>2 DEF TypeOK
    <3> QED BY <2>0, <3>1, <3>2, <3>3 DEF Job
  <2>2. CASE StoreFutures(j)
    <3>1. jobs' = (jobs \ {j}) \cup {[j EXCEPT !.pc = "gather"]}
      BY <2>2 DEF StoreFutures
    <3>2. stored' = [stored EXCEPT !["futures"][j.candle] = "final"] /\ UNCHANGED <<metrics, snapshots>>
      BY <2>2 DEF StoreFutures
    <3>3. stored'["futures"][j.candle] = "final"
      BY <2>0, <3>2 DEF TypeOK
    <3>4. j.pc # "storeSpot"
      BY <2>2 DEF StoreFutures
    <3> QED BY <2>0, <3>1, <3>2, <3>3, <3>4 DEF Job
  <2>3. CASE Compute(j)
    <3>1. jobs' = (jobs \ {j}) \cup {[j EXCEPT !.pc = "saveMetrics"]} /\ UNCHANGED <<metrics, snapshots>>
      BY <2>3 DEF Compute
    <3>2. j.pc = "gather"
      BY <2>3 DEF Compute
    <3> QED BY <2>0, <3>1, <3>2 DEF Job
  <2>4. CASE SaveMetrics(j)
    <3>1. jobs' = (jobs \ {j}) \cup {[j EXCEPT !.pc = "finish"]}
      BY <2>4 DEF SaveMetrics
    <3>2. j.pc = "saveMetrics" /\ metrics' = metrics \cup {j.candle} /\ UNCHANGED snapshots
      BY <2>4 DEF SaveMetrics
    <3> QED BY <2>0, <3>1, <3>2 DEF Job
  <2>5. CASE Finish(j)
    <3>1. jobs' = jobs \ {j} /\ snapshots' = snapshots \cup {j.candle} /\ UNCHANGED metrics /\ j.pc = "finish"
      BY <2>5 DEF Finish
    <3>2. \A m \in Markets : m = "futures" \/ m \in Markets \ {"futures"}
      OBVIOUS
    <3>3. \A m \in Markets : stored[m][j.candle] = "final" \/ j.candle \in contested
      BY <3>1, <3>2
    <3>4. j.candle \in metrics
      BY <3>1
    <3> QED BY <2>0, <3>1, <3>3, <3>4
  <2>6. CASE JobFails(j)
    BY <2>6, <1>b DEF JobFails
  <2> QED BY <1>5, <2>1, <2>2, <2>3, <2>4, <2>5, <2>6 DEF JobStep
<1>6. CASE Crash
  BY <1>6, <1>b DEF Crash, database
<1>7. CASE Boot
  BY <1>7, <1>b DEF Boot, memory, database
<1>8. CASE PeerStep
  BY <1>8, <1>b, PeerSteps DEF memory
<1> QED BY StepCases, <1>1, <1>2, <1>3, <1>4, <1>5, <1>6, <1>7, <1>8 DEF PeerStep

\* A health snapshot is only stored for a candle whose metrics rows exist and
\* whose candle rows hold closed values on every market; they stay closed for
\* ever, but where another worker overlapped on that candle.
THEOREM SnapshotsRestOnFinalRows == Spec => []SnapshotOfFinalRows
<1>1. Init => RowsInv
  BY DEF Init, RowsInv, RowsOfJobs, SnapshotOfFinalRows
<1>2. TypeOK /\ Fresh /\ OnlyClosedTravels /\ PeerContests /\ FinalRowsAreOld /\ RowsInv /\ [Next]_vars =>
        RowsInv'
  BY RowsStep
<1>3. RowsInv => SnapshotOfFinalRows
  BY DEF RowsInv
<1> QED BY <1>1, <1>2, <1>3, TypeCorrect, FreshInvariant, ClosedInvariant, ContestInvariant, FinalRowsInvariant, PTL
        DEF Spec
-----------------------------------------------------------------------------
\* A job keeps its candle and its gap from step to step.
LEMMA JobMoves ==
  ASSUME TypeOK, NEW j \in jobs, JobStep(j)
  PROVE  /\ UNCHANGED <<mode, guard, base>>
         /\ \/ /\ \E step \in Steps :
                    /\ Goto(j, step)
                    /\ step \in {"storeSpot", "storeFutures", "gather"} =>
                         j.pc \in {"storeSpot", "storeFutures", "gather"}
               /\ applied' = applied
               /\ UNCHANGED <<snapshots, reported, lost>>
            \/ Compute(j)
            \/ Finish(j)
            \/ JobFails(j)
<1> USE DEF JobFrame, At, Steps, database, ghosts
<1>1. CASE StoreSpot(j)
  BY <1>1 DEF StoreSpot
<1>2. CASE StoreFutures(j)
  BY <1>2 DEF StoreFutures
<1>3. CASE Compute(j)
  BY <1>3 DEF Compute
<1>4. CASE SaveMetrics(j)
  BY <1>4 DEF SaveMetrics
<1>5. CASE Finish(j)
  BY <1>5 DEF Finish
<1>6. CASE JobFails(j)
  BY <1>6 DEF JobFails
<1> QED BY <1>1, <1>2, <1>3, <1>4, <1>5, <1>6 DEF JobStep

OnceInv == JobsUnderGuard /\ AppliedOnce

\* A job for a candle no other job stands for keeps the candles distinct.
LEMMA UniqueInsert ==
  ASSUME NEW S, NEW x, \A a, b \in S : a.candle = b.candle => a = b, \A a \in S : a.candle # x.candle
  PROVE  \A a, b \in S \cup {x} : a.candle = b.candle => a = b
OBVIOUS

\* A step keeps the jobs under the guards.
LEMMA OnceStep ==
  ASSUME TypeOK, Fresh, OnlyClosedTravels, OnceInv, [Next]_vars
  PROVE  OnceInv'
<1> USE DEF OnceInv, JobsUnderGuard, AppliedOnce
<1>a. /\ "futures" \in Markets
      /\ guard["futures"] \in Nat
      /\ \A j \in jobs : j \in Job /\ j.candle \in Candles
      /\ \A t \in Candles : applied[t] \in Nat /\ t \in Nat
  BY DEF TypeOK, Job, OpenTimes, Candles
<1>1. CASE Elsewhere
  BY <1>1 DEF Elsewhere
<1>2. ASSUME NEW m \in Markets, BackfillFetch(m) PROVE OnceInv'
  BY <1>2 DEF BackfillFetch, memory
<1>3. CASE BackfillDone \/ BackfillFails
  <2>1. jobs = {} /\ \A t \in Candles : applied[t] = 0
    BY <1>3 DEF BackfillDone, BackfillFails, Fresh
  <2> QED BY <1>3, <2>1 DEF BackfillDone, BackfillFails, GoLive
<1>4. ASSUME NEW t \in Candles, Arrival(t) PROVE OnceInv'
  <2>0. applied' = applied
    BY <1>4 DEF Arrival
  <2>1. CASE Queued
    BY <2>0, <2>1 DEF Queued
  <2>2. CASE HalfTaken(t)
    <3>1. guard'["futures"] = guard["futures"] /\ jobs' = jobs
      BY <2>2 DEF HalfTaken, TypeOK
    <3> QED BY <2>0, <3>1
  <2>3. CASE Accepted(t)
    <3>1. PICK missed \in SUBSET Candles, who \in Owners :
            jobs' = jobs \cup {[candle |-> t, missed |-> missed, owner |-> who, pc |-> FirstStep]}
      BY <2>3 DEF Accepted
    <3>2. guard["futures"] < t /\ guard'["futures"] = t
      BY <2>3, <1>a DEF Accepted
    <3>3. \A j \in jobs : j.candle # t /\ j.candle <= t
      BY <3>2, <1>a DEF Candles
    <3>4. applied[t] = 0
      BY <3>2, <1>a
    <3>5. \A c \in Candles : applied[c] # 0 => c <= t
      BY <3>2, <1>a
    <3> DEFINE new == [candle |-> t, missed |-> missed, owner |-> who, pc |-> FirstStep]
    <3>6. /\ new.candle = t
          /\ \A j \in jobs' : j \in jobs \/ j = new
      BY <3>1
    <3> HIDE DEF new
    <3>7. \A i, j \in jobs \cup {new} : i.candle = j.candle => i = j
      BY <3>3, <3>6, UniqueInsert
    <3>10. jobs' \subseteq jobs \cup {new}
      BY <3>6
    <3>11. \A i, j \in jobs' : i.candle = j.candle => i = j
      BY <3>7, <3>10
    <3>8. \A j \in jobs' : j.candle <= guard'["futures"]
      BY <3>2, <3>3, <3>6, <1>a
    <3>9. \A j \in jobs' : j.pc \in {"storeSpot", "storeFutures", "gather"} => applied'[j.candle] = 0
      BY <2>0, <3>4, <3>6
    <3> QED BY <2>0, <3>2, <3>5, <3>11, <3>8, <3>9
  <2> QED BY <1>4, <2>1, <2>2, <2>3 DEF Arrival
<1>5. ASSUME NEW j \in jobs, JobStep(j) PROVE OnceInv'
  <2>0. guard' = guard /\ j \in Job
    BY <1>5, <1>a, JobMoves
  <2>1. ASSUME NEW step \in Steps, Goto(j, step), applied' = applied,
               step \in {"storeSpot", "storeFutures", "gather"} =>
                 j.pc \in {"storeSpot", "storeFutures", "gather"}
        PROVE  OnceInv'
    <3>1. jobs' = (jobs \ {j}) \cup {[j EXCEPT !.pc = step]}
      BY <2>1 DEF Goto
    <3>2. [j EXCEPT !.pc = step].candle = j.candle /\ [j EXCEPT !.pc = step].pc = step
      BY <2>0 DEF Job
    <3>3. \A i \in jobs' : i \in jobs \ {j} \/ i = [j EXCEPT !.pc = step]
      BY <3>1
    <3>4. \A i \in jobs \ {j} : i.candle # j.candle
      OBVIOUS
    <3>5. \A h, i \in jobs' : h.candle = i.candle => h = i
      BY <3>2, <3>3, <3>4
    <3>6. \A i \in jobs' : i.candle <= guard'["futures"]
      BY <2>0, <3>2, <3>3
    <3>7. \A i \in jobs' : i.pc \in {"storeSpot", "storeFutures", "gather"} => applied'[i.candle] = 0
      BY <2>1, <3>2, <3>3
    <3> QED BY <2>0, <2>1, <3>5, <3>6, <3>7
  <2>2. CASE Compute(j)
    <3>1. jobs' = (jobs \ {j}) \cup {[j EXCEPT !.pc = "saveMetrics"]} /\ j.pc = "gather"
      BY <2>2 DEF Compute, Goto, At
    <3>2. applied' = [applied EXCEPT ![j.candle] = @ + 1]
      BY <2>2 DEF Compute
    <3>3. [j EXCEPT !.pc = "saveMetrics"].candle = j.candle /\ [j EXCEPT !.pc = "saveMetrics"].pc = "saveMetrics"
      BY <2>0 DEF Job
    <3>4. applied'[j.candle] = 1 /\ \A t \in Candles \ {j.candle} : applied'[t] = applied[t]
      BY <3>1, <3>2, <1>a DEF TypeOK
    <3>5. \A i \in jobs \ {j} : i.candle # j.candle
      OBVIOUS
    <3>6. AppliedOnce'
      BY <3>4
    <3>7. \A t \in Candles : applied'[t] # 0 => t <= guard'["futures"]
      BY <2>0, <3>4
    <3>8. \A i \in jobs' : i.pc \in {"storeSpot", "storeFutures", "gather"} => applied'[i.candle] = 0
      BY <3>1, <3>3, <3>4, <3>5, <1>a
    <3>9. \A i \in jobs' : i \in jobs \ {j} \/ i = [j EXCEPT !.pc = "saveMetrics"]
      BY <3>1
    <3>10. \A h, i \in jobs' : h.candle = i.candle => h = i
      BY <3>3, <3>5, <3>9
    <3>11. \A i \in jobs' : i.candle <= guard'["futures"]
      BY <2>0, <3>3, <3>9
    <3> QED BY <3>6, <3>7, <3>8, <3>10, <3>11
  <2>3. CASE Finish(j) \/ JobFails(j)
    <3>1. jobs' = jobs \ {j} /\ applied' = applied
      BY <2>3 DEF Finish, JobFails
    <3> QED BY <2>0, <3>1
  <2> QED BY <1>5, <2>1, <2>2, <2>3, JobMoves
<1>6. CASE Crash
  BY <1>6 DEF Crash
<1>7. CASE Boot
  BY <1>7 DEF Boot, memory
<1>8. CASE PeerStep
  BY <1>8, PeerSteps DEF memory
<1> QED BY StepCases, <1>1, <1>2, <1>3, <1>4, <1>5, <1>6, <1>7, <1>8 DEF PeerStep

\* A candle enters the rolling state at most once per process, however often
\* it is delivered, refetched or fetched by overlapping fallback runs.
THEOREM CandlesAppliedOnce == Spec => []AppliedOnce
<1>1. Init => OnceInv
  BY DEF Init, OnceInv, JobsUnderGuard, AppliedOnce
<1>2. TypeOK /\ Fresh /\ OnlyClosedTravels /\ OnceInv /\ [Next]_vars => OnceInv'
  BY OnceStep
<1>3. OnceInv => AppliedOnce
  BY DEF OnceInv
<1> QED BY <1>1, <1>2, <1>3, TypeCorrect, FreshInvariant, ClosedInvariant, PTL DEF Spec

\* A step accounts for the candles the guards pass over.
LEMMA SkipStep ==
  ASSUME TypeOK, Fresh, OnlyClosedTravels, NoSilentSkip, [Next]_vars
  PROVE  NoSilentSkip'
<1> DEFINE Known == InFlight \cup snapshots \cup reported \cup lost
<1>a. /\ "futures" \in Markets
      /\ guard["futures"] \in Nat /\ base["futures"] \in Nat
      /\ \A j \in jobs : j \in Job
      /\ \A t \in Candles : t \in Nat
  BY DEF TypeOK, OpenTimes, Candles
\* It is enough that the interval does not grow and nothing known is forgotten.
<1>b. ASSUME UNCHANGED <<guard, base>>, Known \subseteq Known' PROVE NoSilentSkip'
  BY <1>b DEF NoSilentSkip
\* A process with unset guards has no interval at all.
<1>c. ASSUME \A t \in Candles : ~(base'["futures"] < t /\ t <= guard'["futures"]) PROVE NoSilentSkip'
  BY <1>c DEF NoSilentSkip
<1>1. CASE Elsewhere
  BY <1>1, <1>b DEF Elsewhere, InFlight
<1>2. ASSUME NEW m \in Markets, BackfillFetch(m) PROVE NoSilentSkip'
  BY <1>2, <1>b DEF BackfillFetch, memory, database, ghosts, InFlight
<1>3. CASE BackfillDone
  <2>1. guard' = fetched /\ base' = fetched
    BY <1>3 DEF BackfillDone
  <2>2. fetched["futures"] \in Nat
    BY <1>a DEF TypeOK, OpenTimes
  <2> QED BY <2>1, <2>2, <1>a, <1>c
<1>4. CASE BackfillFails
  BY <1>4, <1>b DEF BackfillFails, GoLive, ghosts, InFlight
<1>5. ASSUME NEW t \in Candles, Arrival(t) PROVE NoSilentSkip'
  <2>0. UNCHANGED <<snapshots, reported, lost>>
    BY <1>5 DEF Arrival
  <2>1. CASE Queued
    BY <2>0, <2>1, <1>b DEF Queued, InFlight
  <2>2. CASE HalfTaken(t)
    <3>1. guard'["futures"] = guard["futures"] /\ base'["futures"] = base["futures"] /\ jobs' = jobs
      BY <2>2 DEF HalfTaken, TypeOK
    <3>2. InFlight' = InFlight
      BY <3>1 DEF InFlight
    <3> QED BY <2>0, <3>1, <3>2 DEF NoSilentSkip
  <2>3. CASE Accepted(t)
    <3>1. PICK missed \in SUBSET Candles, who \in Owners :
            /\ guard["futures"] # 0 => (guard["futures"] + 1) .. (t - 1) \subseteq missed
            /\ jobs' = jobs \cup {[candle |-> t, missed |-> missed, owner |-> who, pc |-> FirstStep]}
      BY <2>3 DEF Accepted
    <3>2. InFlight \cup {t} \cup missed \subseteq InFlight'
      <4> DEFINE new == [candle |-> t, missed |-> missed, owner |-> who, pc |-> FirstStep]
      <4>1. new \in jobs' /\ new.candle = t /\ new.missed = missed /\ jobs \subseteq jobs'
        BY <3>1
      <4> HIDE DEF new
      <4> QED BY <4>1 DEF InFlight
    <3>3. /\ guard'["futures"] = t
          /\ base'["futures"] = IF guard["futures"] = 0 THEN t ELSE base["futures"]
      BY <2>3, <1>a DEF Accepted
    <3>4. CASE guard["futures"] = 0
      BY <3>3, <3>4, <1>a, <1>c
    <3>5. CASE guard["futures"] # 0
      <4> SUFFICES ASSUME NEW c \in Candles, base["futures"] < c, c <= t
                   PROVE  c \in InFlight' \cup snapshots \cup reported \cup lost
        BY <2>0, <3>3, <3>5 DEF NoSilentSkip
      <4>1. CASE c <= guard["futures"]
        BY <3>2, <4>1 DEF NoSilentSkip
      <4>2. CASE c = t
        BY <3>2, <4>2
      <4>3. CASE guard["futures"] < c /\ c < t
        <5>1. c \in (guard["futures"] + 1) .. (t - 1)
          BY <4>3, <1>a
        <5> QED BY <3>1, <3>2, <3>5, <5>1
      <4> QED BY <4>1, <4>2, <4>3, <1>a
    <3> QED BY <3>4, <3>5
  <2> QED BY <1>5, <2>1, <2>2, <2>3 DEF Arrival
<1>6. ASSUME NEW j \in jobs, JobStep(j) PROVE NoSilentSkip'
  <2>0. UNCHANGED <<guard, base>> /\ j \in Job
    BY <1>6, <1>a, JobMoves
  <2>1. ASSUME NEW step \in Steps, Goto(j, step) PROVE InFlight \subseteq InFlight'
    <3>1. [j EXCEPT !.pc = step].candle = j.candle /\ [j EXCEPT !.pc = step].missed = j.missed
      BY <2>0 DEF Job
    <3>2. [j EXCEPT !.pc = step] \in jobs' /\ \A i \in jobs \ {j} : i \in jobs'
      BY <2>1 DEF Goto
    <3> QED BY <3>1, <3>2 DEF InFlight
  <2>2. ASSUME NEW step \in Steps, Goto(j, step), UNCHANGED <<snapshots, reported, lost>>
        PROVE  NoSilentSkip'
    BY <2>0, <2>1, <2>2, <1>b
  <2>3. CASE Compute(j)
    <3>1. Goto(j, "saveMetrics") /\ UNCHANGED <<snapshots, reported, lost>> /\ "saveMetrics" \in Steps
      BY <2>3 DEF Compute, database, ghosts, Steps
    <3> QED BY <2>2, <3>1
  <2>4. ASSUME jobs' = jobs \ {j} PROVE InFlight \subseteq InFlight' \cup {j.candle} \cup j.missed
    <3> SUFFICES ASSUME NEW c \in InFlight, c \notin {j.candle} \cup j.missed PROVE c \in InFlight'
      OBVIOUS
    <3>1. PICK i \in jobs : c \in {i.candle} \cup i.missed
      BY DEF InFlight
    <3>2. i \in jobs'
      BY <2>4, <3>1
    <3> QED BY <3>1, <3>2 DEF InFlight
  <2>5. CASE Finish(j)
    <3>1. /\ jobs' = jobs \ {j} /\ snapshots' = snapshots \cup {j.candle}
          /\ reported' = reported \cup j.missed /\ lost' = lost
      BY <2>5 DEF Finish
    <3>2. InFlight \subseteq InFlight' \cup {j.candle} \cup j.missed
      BY <2>4, <3>1
    <3>3. Known \subseteq Known'
      BY <3>1, <3>2
    <3> QED BY <2>0, <3>3, <1>b
  <2>6. CASE JobFails(j)
    <3>1. /\ jobs' = jobs \ {j} /\ snapshots' = snapshots /\ reported' = reported
          /\ lost' = lost \cup {j.candle} \cup j.missed
      BY <2>6 DEF JobFails, database
    <3>2. InFlight \subseteq InFlight' \cup {j.candle} \cup j.missed
      BY <2>4, <3>1
    <3>3. Known \subseteq Known'
      BY <3>1, <3>2
    <3> QED BY <2>0, <3>3, <1>b
  <2> QED BY <1>6, <2>2, <2>3, <2>5, <2>6, JobMoves
<1>7. CASE Crash
  <2>1. guard'["futures"] = 0
    BY <1>7, <1>a DEF Crash
  <2>2. \A t \in Candles : ~(t <= 0)
    BY DEF Candles
  <2> QED BY <2>1, <2>2, <1>c
<1>8. CASE Boot
  BY <1>8, <1>b DEF Boot, memory, database, ghosts, InFlight
<1>9. CASE PeerStep
  BY <1>9, <1>b, PeerSteps DEF memory, InFlight
<1> QED BY StepCases, <1>1, <1>2, <1>3, <1>4, <1>5, <1>6, <1>7, <1>8, <1>9 DEF PeerStep

\* Between two accepted candles nothing disappears in silence: each candle in
\* between has its snapshot, is in the works, is counted missing by a stored
\* quality score, or died with a failed query.
THEOREM NothingSkippedSilently == Spec => []NoSilentSkip
<1>1. Init => NoSilentSkip
  BY DEF Init, NoSilentSkip, Candles
<1>2. TypeOK /\ Fresh /\ OnlyClosedTravels /\ NoSilentSkip /\ [Next]_vars => NoSilentSkip'
  BY SkipStep
<1> QED BY <1>1, <1>2, TypeCorrect, FreshInvariant, ClosedInvariant, PTL DEF Spec
=============================================================================
