---------------------------- MODULE SignalOutcomes ----------------------------
(***************************************************************************)
(* What became of the signals: runOutcomeTracker every five minutes, and   *)
(* the drain at the end of a historical replay, record for every signal    *)
(* and horizon the close of the futures 5m candle that covers signal time  *)
(* + horizon; /performance counts the firings that start an episode.       *)
(*                                                                         *)
(* Time is counted in candles; a price is the open time of its candle.     *)
(* One symbol, since candles and episodes are of a symbol.  Passes may     *)
(* overlap: the timer does not wait, and a drain is a pass of its own.     *)
(***************************************************************************)
EXTENDS Naturals, FiniteSets

CONSTANTS
  Runs,      \* passes that may overlap
  Drains,    \* those of them that are the drain of a replay
  Signals,   \* rows of market_signals, each written once: their ids
  TypeOf,    \* the signal type of each
  FrameOf,   \* its timeframe
  SourceOf,  \* "live" or "backfill"
  Horizons,  \* 15m .. 24h, in candles
  Look,      \* OUTCOME_LOOKAHEAD_MS, in candles
  Limit,     \* rows of a page
  MaxTime,   \* bound: times 0 .. MaxTime
  MaxFaults, \* bound: queries that fail, processes that die
  None

Times == 0 .. MaxTime

ConstantsOK ==
  /\ Signals \subseteq Nat
  /\ Horizons \subseteq Nat /\ Horizons # {}
  /\ Look \in Nat /\ MaxTime \in Nat /\ MaxFaults \in Nat
  /\ None \notin Times

VARIABLES
  now,
  at,      \* market_signals: when each fired
  row,     \* signal_outcomes: the signals that have a row
  price,   \* signal_outcomes: price_after_<horizon>, by the candle it was read from
  candles, \* market_candles: open times stored
  pc,      \* per pass
  begun,   \* per pass: the time it reads once, at its start
  horizon, \* per pass: the horizon it is on
  batch,   \* per pass: rows still to record, with the candle read for each
  faults

tables == <<at, row, price, candles>>
vars   == <<now, tables, pc, begun, horizon, batch, faults>>

TypeOK ==
  /\ now \in Times
  /\ at \in [Signals -> Times \cup {None}]
  /\ row \subseteq {s \in Signals : at[s] # None}
  /\ price \in [Signals -> [Horizons -> Times \cup {None}]]
  /\ candles \subseteq 0 .. now
  /\ pc \in [Runs -> {"idle", "read", "record"}]
  /\ begun \in [Runs -> Times]
  /\ horizon \in [Runs -> Horizons]
  /\ \A r \in Runs : batch[r] \subseteq row \X candles
  /\ faults \in 0 .. MaxFaults

Shortest == CHOOSE h \in Horizons : \A k \in Horizons : h <= k

Init ==
  /\ now = 0
  /\ at = [s \in Signals |-> None]
  /\ row = {}
  /\ price = [s \in Signals |-> [h \in Horizons |-> None]]
  /\ candles = {}
  /\ pc = [r \in Runs |-> "idle"]
  /\ begun = [r \in Runs |-> 0]
  /\ horizon = [r \in Runs |-> Shortest]
  /\ batch = [r \in Runs |-> {}]
  /\ faults = 0
-----------------------------------------------------------------------------
(* The tables fill. *)

Faulty == faults < MaxFaults /\ faults' = faults + 1

\* insertSignal: two statements and no transaction, so a signal may be left
\* without its outcome row.  A replay writes signals of the past.
Fire(s) ==
  /\ at[s] = None
  /\ \E t \in Times :
       /\ IF SourceOf[s] = "live" THEN t = now ELSE t <= now
       /\ at' = [at EXCEPT ![s] = t]
  /\ \/ row' = row \cup {s} /\ UNCHANGED faults
     \/ Faulty /\ UNCHANGED row
  /\ UNCHANGED <<now, price, candles, pc, begun, horizon, batch>>

\* A candle is stored as it closes, or by a backfill long after, or never.
Store(t) ==
  /\ t \notin candles /\ t <= now
  /\ candles' = candles \cup {t}
  /\ UNCHANGED <<now, at, row, price, pc, begun, horizon, batch, faults>>

Tick ==
  /\ now < MaxTime
  /\ now' = now + 1
  /\ UNCHANGED <<tables, pc, begun, horizon, batch, faults>>
-----------------------------------------------------------------------------
(* A pass. *)

Begin(r) ==
  /\ pc[r] = "idle"
  /\ pc' = [pc EXCEPT ![r] = "read"]
  /\ begun' = [begun EXCEPT ![r] = now]
  /\ horizon' = [horizon EXCEPT ![r] = Shortest]
  /\ UNCHANGED <<now, tables, batch, faults>>

\* Rows of signals that lie a horizon back and have no price yet.
Due(r) ==
  {s \in row : /\ price[s][horizon[r]] = None
               /\ at[s] + horizon[r] <= begun[r]
               /\ r \in Drains => SourceOf[s] = "backfill"}

\* The candles that may answer for a signal.
Answers(s, h) == {t \in candles : at[s] + h <= t /\ t <= at[s] + h + Look}

\* Mutant of Answer: the newest candle there is.
NewestAnswer(s, h) == CHOOSE t \in candles : \A u \in candles : t >= u

\* The first of them.
Answer(s, h) == CHOOSE t \in Answers(s, h) : \A u \in Answers(s, h) : t <= u

\* The pages of some rows, oldest first.
PagesOf(S) ==
  {P \in SUBSET S : /\ Cardinality(P) <= Limit
                    /\ P = S \/ Cardinality(P) = Limit
                    /\ \A p \in P, q \in S \ P : at[p] <= at[q]}

Priceable(S, h) == {s \in S : Answers(s, h) # {}}

\* Mutant of Pages: the oldest rows, less those that cannot be priced.
PagesThenPriceable(r) == {Priceable(P, horizon[r]) : P \in PagesOf(Due(r))}

\* getResolvableOutcomes: the candle is joined before the page is cut.
Pages(r) == PagesOf(Priceable(Due(r), horizon[r]))

\* The next horizon, or the end of the pass.
NextHorizon(r) ==
  LET later == {h \in Horizons : h > horizon[r]}
  IN  IF later = {} THEN pc' = [pc EXCEPT ![r] = "idle"] /\ UNCHANGED horizon
      ELSE /\ pc' = [pc EXCEPT ![r] = "read"]
           /\ horizon' = [horizon EXCEPT ![r] = CHOOSE h \in later : \A k \in later : h <= k]

Read(r) ==
  /\ pc[r] = "read"
  /\ \E P \in Pages(r) :
       /\ batch' = [batch EXCEPT ![r] = {<<s, Answer(s, horizon[r])>> : s \in P}]
       /\ IF P = {} THEN NextHorizon(r)
          ELSE pc' = [pc EXCEPT ![r] = "record"] /\ UNCHANGED horizon
  /\ UNCHANGED <<now, tables, begun, faults>>

\* recordOutcomePrice, which does not ask whether there is a price already.
\* A drain reads again until nothing comes; the tracker takes one page.
Record(r) ==
  /\ pc[r] = "record"
  /\ \E b \in batch[r] :
       /\ \A c \in batch[r] : at[b[1]] <= at[c[1]]
       /\ price' = [price EXCEPT ![b[1]][horizon[r]] = b[2]]
       /\ batch' = [batch EXCEPT ![r] = @ \ {b}]
       /\ IF batch[r] # {b} THEN UNCHANGED <<pc, horizon>>
          ELSE IF r \in Drains THEN pc' = [pc EXCEPT ![r] = "read"] /\ UNCHANGED horizon
          ELSE NextHorizon(r)
  /\ UNCHANGED <<now, at, row, candles, begun, faults>>

\* A query fails and with it the pass, or the process dies.
Fails(r) ==
  /\ pc[r] # "idle"
  /\ Faulty
  /\ pc' = [pc EXCEPT ![r] = "idle"]
  /\ batch' = [batch EXCEPT ![r] = {}]
  /\ UNCHANGED <<now, tables, begun, horizon>>

Step(r) == Begin(r) \/ Read(r) \/ Record(r)

Next ==
  \/ \E r \in Runs : Step(r) \/ Fails(r)
  \/ \E s \in Signals : Fire(s)
  \/ \E t \in Times : Store(t)
  \/ Tick

\* The timer starts a pass every five minutes, and a pass goes on.
Spec == Init /\ [][Next]_vars /\ \A r \in Runs \ Drains : WF_vars(Step(r))
-----------------------------------------------------------------------------
(* Samples: EPISODE_STARTS_SQL and getSignalPerformance. *)

Sources == {{"live"}, {"backfill"}, {"live", "backfill"}}

\* Mutant of Firings: of one timeframe.
FiringsOfFrame(s, from) ==
  {p \in Signals : at[p] # None /\ SourceOf[p] \in from /\ TypeOf[p] = TypeOf[s] /\ FrameOf[p] = FrameOf[s]}

\* The firings of the type of s, over all timeframes, with or without a row.
Firings(s, from) == {p \in Signals : at[p] # None /\ SourceOf[p] \in from /\ TypeOf[p] = TypeOf[s]}

\* lag(timestamp) over (timestamp, signal_id): silent for a horizon.
StartsEpisode(s, h, from) ==
  \A p \in Firings(s, from) :
    (at[p] < at[s] \/ (at[p] = at[s] /\ p < s)) => at[s] - at[p] >= h

\* The sets of samples that may be counted.
Samples(h, from) ==
  {s \in row : at[s] # None /\ SourceOf[s] \in from /\ price[s][h] # None /\ StartsEpisode(s, h, from)}
-----------------------------------------------------------------------------
(* Properties. *)

\* runOutcomeTracker, "not at whatever candle is newest when this happens to
\* run": whenever a pass runs, late, twice at once or after an outage, a price
\* is of the window it stands for.
PricedInWindow ==
  \A s \in Signals, h \in Horizons :
    price[s][h] # None => at[s] + h <= price[s][h] /\ price[s][h] <= at[s] + h + Look

\* EPISODE_STARTS_SQL, against "priced off nearly the same future candles": on
\* the horizons longer than the lookahead no two samples of a type are priced
\* off one candle.  (On the shorter ones they may be, in a gap of the candles.)
PricedApart ==
  \A h \in {k \in Horizons : k > Look}, from \in Sources :
    \A s, p \in Samples(h, from) :
      s # p /\ TypeOf[s] = TypeOf[p] => price[s][h] # price[p][h]

\* getResolvableOutcomes, against the "permanent head-of-line block": what can
\* be priced is priced in the end, whatever cannot be lies before it.
Waiting == {s \in row : \E h \in Horizons : at[s] + h <= now /\ price[s][h] = None /\ Answers(s, h) # {}}
NotStarved == []<>(Waiting = {})
=============================================================================
