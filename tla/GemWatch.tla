------------------------------ MODULE GemWatch ------------------------------
(***************************************************************************)
(* /watch and /unwatch of the API, and runGemWatchCycle of the worker: the *)
(* open positions are read once, priced chain by chain, their high raised, *)
(* and a position whose sell condition holds is closed and its chat told.  *)
(*                                                                         *)
(* Passes may overlap: the timer does not wait for the previous one.  Each *)
(* chain has one token here, and prices are a few levels.  The liquidity,  *)
(* risk and safety conditions are one flag of the token.                   *)
(***************************************************************************)
EXTENDS Naturals

CONSTANTS
  Runs,      \* passes that may overlap
  Watches,   \* positions a chat may open
  Chains,    \* their chains
  ChainOf,   \* the chain of each
  Flaky,     \* external: chains whose requests may fail at any time
  MaxPrice,  \* bound: prices are 1 .. MaxPrice, and 0 for a pool that is gone
  Loss,      \* stopLossPct, as a distance from the entry
  Gain,      \* takeProfitPct, as a distance from the entry
  Armed,     \* trailingArmPct, as a distance from the entry
  Trail,     \* trailingStopPct, as a distance from the high
  MaxMoves,  \* bound: moves of the market
  MaxFaults, \* bound: queries and processes that fail
  None       \* no position

Prices == 1 .. MaxPrice

\* What the constants are; the module that instantiates this one assumes it.
ConstantsOK ==
  /\ ChainOf \in [Watches -> Chains]
  /\ MaxPrice \in Nat /\ MaxMoves \in Nat /\ MaxFaults \in Nat

VARIABLES
  price,   \* external: of each chain's token
  flagged, \* external: tokens whose scan, liquidity or safety says sell
  moves,   \* moves so far
  status,  \* gem_watches.status, "none" before /watch
  entry,   \* gem_watches.entry_price
  peak,    \* gem_watches.peak_price
  told,    \* Telegram: alerts sent for a position (2: or more)
  pc,      \* per pass
  rows,    \* per pass: positions of the chains not yet read
  queue,   \* per pass: positions of the chain being read
  quote,   \* per pass: the price it was given
  was,     \* per pass: the peaks of the rows it read at its start
  one,     \* per pass: the position being judged
  high,    \* per pass: the peak it is judged on
  stood,   \* history, per pass: the peak that stood when it was raised
  faults   \* faults so far

market == <<price, flagged, moves>>
table  == <<status, entry, peak>>
pass   == <<rows, queue, quote, was, one, high, stood>>
vars   == <<market, table, told, pc, pass, faults>>

Highest(a, b) == IF a > b THEN a ELSE b

TypeOK ==
  /\ price \in [Chains -> 0 .. MaxPrice] /\ flagged \in SUBSET Chains /\ moves \in 0 .. MaxMoves
  /\ status \in [Watches -> {"none", "active", "triggered", "closed"}]
  /\ entry \in [Watches -> 0 .. MaxPrice] /\ peak \in [Watches -> 0 .. MaxPrice]
  /\ told \in [Watches -> 0 .. 2]
  /\ pc \in [Runs -> {"idle", "fetch", "raise", "judge", "close", "alert"}]
  /\ rows \in [Runs -> SUBSET Watches] /\ queue \in [Runs -> SUBSET Watches]
  /\ quote \in [Runs -> 0 .. MaxPrice] /\ was \in [Runs -> [Watches -> 0 .. MaxPrice]]
  /\ one \in [Runs -> Watches \cup {None}]
  /\ high \in [Runs -> 0 .. MaxPrice] /\ stood \in [Runs -> 0 .. MaxPrice]
  /\ faults \in 0 .. MaxFaults

Init ==
  /\ price \in [Chains -> Prices] /\ flagged = {} /\ moves = 0
  /\ status = [w \in Watches |-> "none"]
  /\ entry = [w \in Watches |-> 0] /\ peak = [w \in Watches |-> 0]
  /\ told = [w \in Watches |-> 0]
  /\ pc = [r \in Runs |-> "idle"]
  /\ rows = [r \in Runs |-> {}] /\ queue = [r \in Runs |-> {}]
  /\ quote = [r \in Runs |-> 0] /\ was = [r \in Runs |-> [w \in Watches |-> 0]]
  /\ one = [r \in Runs |-> None]
  /\ high = [r \in Runs |-> 0] /\ stood = [r \in Runs |-> 0]
  /\ faults = 0
-----------------------------------------------------------------------------
(* The API. *)

\* POST /api/watches: the price of the last scan is the entry.
Watch(w) ==
  /\ status[w] = "none" /\ price[ChainOf[w]] # 0
  /\ status' = [status EXCEPT ![w] = "active"]
  /\ entry' = [entry EXCEPT ![w] = price[ChainOf[w]]]
  /\ peak' = [peak EXCEPT ![w] = price[ChainOf[w]]]
  /\ UNCHANGED <<market, told, pc, pass, faults>>

\* closeGemWatchForChat
Unwatch(w) ==
  /\ status[w] = "active"
  /\ status' = [status EXCEPT ![w] = "closed"]
  /\ UNCHANGED <<market, entry, peak, told, pc, pass, faults>>
-----------------------------------------------------------------------------
(* The worker's pass. *)

Goto(r, place) == pc' = [pc EXCEPT ![r] = place]
Faulty == faults < MaxFaults /\ faults' = faults + 1

\* getAllActiveWatches
Begin(r) ==
  LET active == {w \in Watches : status[w] = "active"}
  IN  /\ pc[r] = "idle"
      /\ active # {}
      /\ rows' = [rows EXCEPT ![r] = active]
      /\ was' = [was EXCEPT ![r] = [w \in Watches |-> IF w \in active THEN peak[w] ELSE 0]]
      /\ Goto(r, "fetch")
      /\ UNCHANGED <<market, table, told, queue, quote, one, high, stood, faults>>

\* The pass is over, or goes on with the positions left in `more` and `next`.
GoOn(r, more, next) ==
  /\ rows' = [rows EXCEPT ![r] = more]
  /\ queue' = [queue EXCEPT ![r] = next]
  /\ one' = [one EXCEPT ![r] = None]
  /\ high' = [high EXCEPT ![r] = 0] /\ stood' = [stood EXCEPT ![r] = 0]
  /\ quote' = IF next = {} THEN [quote EXCEPT ![r] = 0] ELSE quote
  /\ IF more = {} /\ next = {}
       THEN Goto(r, "idle") /\ was' = [was EXCEPT ![r] = [w \in Watches |-> 0]]
       ELSE Goto(r, IF next = {} THEN "fetch" ELSE "raise") /\ UNCHANGED was

\* Mutant of Others: the pass ends with its first chain.
OthersForgotten(r, c) == {}

\* The positions of the other chains, untouched by what happens to chain c.
Others(r, c) == {w \in rows[r] : ChainOf[w] # c}

\* What a request answers: a request that fails is skipped, and then no pair of
\* the chain is in the answer, as if its pool were gone.
Answers(c) == {price[c]} \cup (IF c \in Flaky THEN {0} ELSE {})

\* fetchPairsForTokens of the next chain.
Fetch(r) ==
  /\ pc[r] = "fetch"
  /\ \E c \in {ChainOf[w] : w \in rows[r]} :
       /\ queue' = [queue EXCEPT ![r] = {w \in rows[r] : ChainOf[w] = c}]
       /\ \E p \in Answers(c) : quote' = [quote EXCEPT ![r] = p]
       /\ rows' = [rows EXCEPT ![r] = Others(r, c)]
  /\ Goto(r, "raise")
  /\ UNCHANGED <<market, table, told, was, one, high, stood, faults>>

\* No pair in the answer: "the clearest possible sell signal".
Gone(r) ==
  /\ pc[r] = "raise"
  /\ quote[r] = 0
  /\ \E w \in queue[r] : one' = [one EXCEPT ![r] = w]
  /\ Goto(r, "close")
  /\ UNCHANGED <<market, table, told, rows, queue, quote, was, high, stood, faults>>

\* Mutant of Raised: the price replaces the peak.
RaisedToPrice(w, p) == p

\* GREATEST(peak_price, $2)
Raised(w, p) == Highest(peak[w], p)

\* Mutant of PeakOf: the row read at the start of the pass, raised by the quote.
PeakOfRow(r, w) == Highest(was[r][w], quote[r])

\* The peak comes back from the write.
PeakOf(r, w) == peak'[w]

\* raiseGemWatchPeak
Raise(r) ==
  /\ pc[r] = "raise"
  /\ quote[r] # 0
  /\ \E w \in queue[r] :
       /\ one' = [one EXCEPT ![r] = w]
       /\ peak' = [peak EXCEPT ![w] = Raised(w, quote[r])]
       /\ high' = [high EXCEPT ![r] = PeakOf(r, w)]
       /\ stood' = [stood EXCEPT ![r] = peak[w]]
  /\ Goto(r, "judge")
  /\ UNCHANGED <<market, status, entry, told, rows, queue, quote, was, faults>>

\* evaluateWatch
Sells(w, p, top) ==
  \/ p + Loss <= entry[w]
  \/ p >= entry[w] + Gain
  \/ top >= entry[w] + Armed /\ p + Trail <= top
  \/ ChainOf[w] \in flagged

NextPosition(r) == GoOn(r, rows[r], queue[r] \ {one[r]})

\* getGemByAddress and the judgement.
Judge(r) ==
  /\ pc[r] = "judge"
  /\ IF Sells(one[r], quote[r], high[r])
       THEN Goto(r, "close") /\ UNCHANGED pass
       ELSE NextPosition(r)
  /\ UNCHANGED <<market, table, told, faults>>

\* closeGemWatch, whatever has become of the position since it was read.
Close(r) ==
  /\ pc[r] = "close"
  /\ status' = [status EXCEPT ![one[r]] = "triggered"]
  /\ Goto(r, "alert")
  /\ UNCHANGED <<market, entry, peak, told, pass, faults>>

Alert(r) ==
  /\ pc[r] = "alert"
  /\ told' = [told EXCEPT ![one[r]] = IF @ = 2 THEN 2 ELSE @ + 1]
  /\ NextPosition(r)
  /\ UNCHANGED <<market, table, faults>>

\* A query fails: logged, the rest of the chain waits for the next pass.
QueryFails(r) ==
  /\ pc[r] \in {"raise", "judge", "close"}
  /\ Faulty
  /\ GoOn(r, rows[r], {})
  /\ UNCHANGED <<market, table, told>>

Dies(r) ==
  /\ pc[r] # "idle"
  /\ Faulty
  /\ GoOn(r, {}, {})
  /\ UNCHANGED <<market, table, told>>
-----------------------------------------------------------------------------

\* Prices move, pools vanish, scans flag a token or clear it.
Moves ==
  /\ moves < MaxMoves
  /\ moves' = moves + 1
  /\ \E c \in Chains :
       \/ \E p \in 0 .. MaxPrice : price' = [price EXCEPT ![c] = p] /\ UNCHANGED flagged
       \/ flagged' = (flagged \cup {c}) \ (flagged \cap {c}) /\ UNCHANGED price
  /\ UNCHANGED <<table, told, pc, pass, faults>>

Step(r) ==
  \/ Begin(r) \/ Fetch(r) \/ Gone(r)
  \/ Raise(r) \/ Judge(r) \/ Close(r) \/ Alert(r)

Next ==
  \/ \E w \in Watches : Watch(w) \/ Unwatch(w)
  \/ \E r \in Runs : Step(r) \/ QueryFails(r) \/ Dies(r)
  \/ Moves

Spec == Init /\ [][Next]_vars

\* Passes keep coming and a pass goes on; nothing is assumed of what the feeds
\* answer, nor of the order of the chains.
Fairness == \A r \in Runs : WF_vars(Step(r))
-----------------------------------------------------------------------------
(* Properties. *)

\* A position is judged on a peak no lower than the one that stood: not on the row
\* read at the top of the pass, which another pass may have raised since.
JudgedOnStandingPeak ==
  \A r \in Runs : pc[r] = "judge" => high[r] >= stood[r] /\ high[r] >= quote[r]

\* What the market says of a position now.
SellNow(w) ==
  price[ChainOf[w]] = 0 \/ Sells(w, price[ChainOf[w]], Highest(peak[w], price[ChainOf[w]]))

Ignored(w) == status[w] = "active" /\ SellNow(w)

\* A position whose sell condition lasts is not left open for ever, whichever
\* chain its passes read first, whatever fails on another chain, and although a
\* query of its own chain or the pass itself may fail.
SellIsActedOn == \A w \in Watches : []<>~Ignored(w)
=============================================================================
