------------------------------ MODULE GemOutcomes ------------------------------
(***************************************************************************)
(* What became of the tokens the gem scan surfaced, and of the rejected    *)
(* ones kept as its control group: runGemOutcomeTracker prices each row a  *)
(* day and a week later, or writes it off.                                 *)
(*                                                                         *)
(* A token has a deep pool and a thin one.  The scan goes by the deepest   *)
(* that is open; the tracker goes by whichever its answer lists last.      *)
(* Scores, prices and eligibility are left out, and with them the rows     *)
(* without a price, which have no outcome.                                 *)
(***************************************************************************)
EXTENDS Naturals, FiniteSets

CONSTANTS
  Runs,      \* passes that may overlap
  Tokens, Chains,
  ChainOf,   \* the chain of each token
  BatchOf,   \* the request of 30 addresses each falls in
  Horizons,  \* 24h and 7d
  Grace,     \* GEM_POOL_GONE_GRACE_MS
  Limit,     \* rows of a page
  MaxRows,   \* bound: rows, of scans and controls together
  MaxTime,   \* bound: times 0 .. MaxTime
  MaxMoves,  \* bound: pools that close
  MaxFaults, \* bound: requests and queries that fail
  None

Times == 0 .. MaxTime
Kinds == {"scan", "control"}          \* gem_outcomes and gem_baseline_candidates
Pools == {"thin", "deep"}
Bases == {"observed", "pool_gone", "liquidity_collapsed"}

\* What the constants are; the module that instantiates this one assumes it.
ConstantsOK ==
  /\ Horizons \subseteq Nat /\ Horizons # {}
  /\ None \notin Pools
  /\ MaxTime \in Nat /\ MaxMoves \in Nat /\ MaxFaults \in Nat

Rows == [kind : Kinds, token : Tokens, at : Times, pool : Pools]

VARIABLES
  now,
  open,    \* external: the open pools of each token
  moves,   \* pools that closed so far
  rows,    \* the rows there are: unique by kind, token and time
  outcome, \* per row and horizon, None or what was recorded: the basis and,
           \* for the properties, whether the pool of the scan was open then
  pc,      \* per pass
  begun,   \* per pass: the time it reads once, at its start
  horizon, \* per pass: the horizon it is on
  left,    \* per pass: rows of the chains still to do
  batch,   \* per pass: rows of the chain it is on still to record, with their outcomes
  faults

pass == <<pc, begun, horizon, left, batch>>
vars == <<now, open, moves, rows, outcome, pass, faults>>

Outcomes == Bases \X BOOLEAN

TypeOK ==
  /\ now \in Times
  /\ open \in [Tokens -> SUBSET Pools] /\ moves \in 0 .. MaxMoves
  /\ rows \subseteq Rows
  /\ \A k, l \in rows : k.kind = l.kind /\ k.token = l.token /\ k.at = l.at => k = l
  /\ \A k \in rows : outcome[k] \in [Horizons -> Outcomes \cup {None}]
  /\ pc \in [Runs -> {"idle", "read", "fetch", "record"}]
  /\ begun \in [Runs -> Times] /\ horizon \in [Runs -> Horizons]
  /\ \A r \in Runs : left[r] \subseteq rows /\ batch[r] \subseteq rows \X Outcomes
  /\ faults \in 0 .. MaxFaults

First == CHOOSE h \in Horizons : \A k \in Horizons : h <= k

Init ==
  /\ now = 0
  /\ open = [t \in Tokens |-> Pools] /\ moves = 0
  /\ rows = {}
  /\ outcome = <<>>
  /\ pc = [r \in Runs |-> "idle"]
  /\ begun = [r \in Runs |-> 0] /\ horizon = [r \in Runs |-> First]
  /\ left = [r \in Runs |-> {}] /\ batch = [r \in Runs |-> {}]
  /\ faults = 0
-----------------------------------------------------------------------------
(* Rows come, pools close, time passes. *)

Deepest(t) == IF "deep" \in open[t] THEN "deep" ELSE "thin"

\* runScan goes by the deepest pool; the row, with its outcome row, is not
\* written again for the same moment.
Surface(kind, t) ==
  /\ Cardinality(rows) < MaxRows
  /\ open[t] # {}
  /\ \A k \in rows : ~(k.kind = kind /\ k.token = t /\ k.at = now)
  /\ LET k == [kind |-> kind, token |-> t, at |-> now, pool |-> Deepest(t)]
     IN  /\ rows' = rows \cup {k}
         /\ outcome' = [x \in rows \cup {k} |-> IF x = k THEN [h \in Horizons |-> None] ELSE outcome[x]]
  /\ UNCHANGED <<now, open, moves, pass, faults>>

\* A pool is drained or removed.
Closes(t, p) ==
  /\ moves < MaxMoves /\ moves' = moves + 1
  /\ p \in open[t]
  /\ open' = [open EXCEPT ![t] = @ \ {p}]
  /\ UNCHANGED <<now, rows, outcome, pass, faults>>

Tick ==
  /\ now < MaxTime /\ now' = now + 1
  /\ UNCHANGED <<open, moves, rows, outcome, pass, faults>>
-----------------------------------------------------------------------------
(* A pass. *)

Goto(r, place) == pc' = [pc EXCEPT ![r] = place]
Faulty == faults < MaxFaults /\ faults' = faults + 1

Begin(r) ==
  /\ pc[r] = "idle"
  /\ Goto(r, "read")
  /\ begun' = [begun EXCEPT ![r] = now]
  /\ horizon' = [horizon EXCEPT ![r] = First]
  /\ UNCHANGED <<now, open, moves, rows, outcome, left, batch, faults>>

Due(r, kind) ==
  {k \in rows : k.kind = kind /\ outcome[k][horizon[r]] = None /\ k.at + horizon[r] <= begun[r]}

\* The pages of some rows, oldest first.
PagesOf(S) ==
  {P \in SUBSET S : /\ Cardinality(P) <= Limit
                    /\ P = S \/ Cardinality(P) = Limit
                    /\ \A p \in P, q \in S \ P : p.at <= q.at}

\* The next horizon, or the end of the pass.  (The pruning that ends it keeps
\* every row with an outcome row.)
NextHorizon(r) ==
  LET later == {h \in Horizons : h > horizon[r]}
  IN  IF later = {} THEN Goto(r, "idle") /\ UNCHANGED horizon
      ELSE /\ Goto(r, "read")
           /\ horizon' = [horizon EXCEPT ![r] = CHOOSE h \in later : \A k \in later : h <= k]

\* getGemsPendingOutcome and getBaselinePendingOutcome.
Read(r) ==
  /\ pc[r] = "read"
  /\ \E scans \in PagesOf(Due(r, "scan")), controls \in PagesOf(Due(r, "control")) :
       /\ left' = [left EXCEPT ![r] = scans \cup controls]
       /\ IF scans \cup controls = {} THEN NextHorizon(r) ELSE Goto(r, "fetch") /\ UNCHANGED horizon
  /\ UNCHANGED <<now, open, moves, rows, outcome, begun, batch, faults>>

\* Mutant of FeedAnswered: it always has.
FeedAnsweredAlways(answered) == TRUE

\* "An empty answer for the whole chain is a feed problem".
FeedAnswered(answered) == answered # {}

\* Mutant of Gone: a vanished pool stays pending.
GoneNever(r, k, answered) == FALSE

\* No pair a day past the horizon, on a chain whose feed answered.
Gone(r, k, answered) ==
  FeedAnswered(answered) /\ begun[r] >= k.at + horizon[r] + Grace

\* resolveGemOutcome, for a row whose token has the quote of pool p, or None.
Resolved(r, k, p, answered) ==
  IF p = None THEN IF Gone(r, k, answered) THEN "pool_gone" ELSE None
  ELSE IF k.pool = "deep" /\ p = "thin" THEN "liquidity_collapsed" ELSE "observed"

\* Done with the chain it was on.
NextChain(r, rest) == IF rest = {} THEN NextHorizon(r) ELSE Goto(r, "fetch") /\ UNCHANGED horizon

\* fetchPairsForTokens, which skips a request that fails; the last pool listed
\* of a token is the one that counts.  Then the rows of the chain are resolved.
Fetch(r) ==
  /\ pc[r] = "fetch"
  /\ \E c \in {ChainOf[k.token] : k \in left[r]} :
       LET mine   == {k \in left[r] : ChainOf[k.token] = c}
           asked  == {k.token : k \in mine}
           rest   == left[r] \ mine
       IN  \E failed \in SUBSET {BatchOf[t] : t \in asked} :
             LET answered == {t \in asked : BatchOf[t] \notin failed /\ open[t] # {}}
             IN  \E quote \in [asked -> Pools \cup {None}] :
                   LET resolved == {k \in mine : Resolved(r, k, quote[k.token], answered) # None}
                   IN  /\ \A t \in asked : IF t \in answered THEN quote[t] \in open[t] ELSE quote[t] = None
                       /\ IF failed = {} THEN UNCHANGED faults ELSE Faulty
                       /\ left' = [left EXCEPT ![r] = rest]
                       /\ batch' = [batch EXCEPT ![r] =
                            {<<k, <<Resolved(r, k, quote[k.token], answered), k.pool \in open[k.token]>>>> :
                               k \in resolved}]
                       /\ IF resolved = {} THEN NextChain(r, rest)
                          ELSE Goto(r, "record") /\ UNCHANGED horizon
  /\ UNCHANGED <<now, open, moves, rows, outcome, begun>>

\* recordGemOutcome and recordGemBaselineOutcome, scans before controls.
Record(r) ==
  /\ pc[r] = "record"
  /\ \E b \in batch[r] :
       /\ b[1].kind = "control" => \A d \in batch[r] : d[1].kind = "control"
       /\ outcome' = [outcome EXCEPT ![b[1]][horizon[r]] = b[2]]
       /\ batch' = [batch EXCEPT ![r] = @ \ {b}]
       /\ IF batch[r] = {b} THEN NextChain(r, left[r]) ELSE UNCHANGED <<pc, horizon>>
  /\ UNCHANGED <<now, open, moves, rows, begun, left, faults>>

\* A query fails: of a chain, and the pass goes on with the next; of the pages,
\* or the process dies, and the pass is over.
ChainFails(r) ==
  /\ pc[r] = "record"
  /\ Faulty
  /\ batch' = [batch EXCEPT ![r] = {}]
  /\ NextChain(r, left[r])
  /\ UNCHANGED <<now, open, moves, rows, outcome, begun, left>>

PassFails(r) ==
  /\ pc[r] # "idle"
  /\ Faulty
  /\ Goto(r, "idle")
  /\ left' = [left EXCEPT ![r] = {}] /\ batch' = [batch EXCEPT ![r] = {}]
  /\ UNCHANGED <<now, open, moves, rows, outcome, begun, horizon>>

Step(r) == Begin(r) \/ Read(r) \/ Fetch(r) \/ Record(r)

Next ==
  \/ \E r \in Runs : Step(r) \/ ChainFails(r) \/ PassFails(r)
  \/ \E kind \in Kinds, t \in Tokens : Surface(kind, t)
  \/ \E t \in Tokens, p \in Pools : Closes(t, p)
  \/ Tick

\* The timer starts a pass every hour, and a pass goes on.
Spec == Init /\ [][Next]_vars /\ \A r \in Runs : WF_vars(Step(r))
-----------------------------------------------------------------------------
(* Properties. *)

Recorded(k, h) == outcome[k][h] # None

\* resolveGemOutcome: while the addresses of a chain fit one request, a row
\* counts as gone only when the pool it was surfaced with is gone, however long
\* the feed was down and whichever passes overlap.
OneRequest(c) == \A t, u \in Tokens : ChainOf[t] = c /\ ChainOf[u] = c => BatchOf[t] = BatchOf[u]
GoneIsGone ==
  \A k \in rows, h \in Horizons :
    OneRequest(ChainOf[k.token]) /\ Recorded(k, h) /\ outcome[k][h][1] = "pool_gone" => ~outcome[k][h][2]

\* runGemOutcomeTracker, against "pending forever": while a page holds every
\* row, one past its horizon is recorded in the end if its token has a pool; and,
\* as long as nothing failed, pool or no pool, if a row of its chain that fell
\* due when its grace was over is.
DueNow(k)    == ~Recorded(k, First) /\ k.at + First <= now
Outlasted(k) ==
  \E l \in rows : ChainOf[l.token] = ChainOf[k.token] /\ l.at >= k.at + Grace /\ Recorded(l, First)
Pending      == {k \in rows : DueNow(k) /\ (open[k.token] # {} \/ (faults = 0 /\ Outlasted(k)))}
NotPendingForever == []<>(Pending = {})

\* "Both are written off at -100% instead": a token that is written off is one
\* "nobody can sell", its pool drained or gone.
WrittenOffIsLost ==
  \A k \in rows, h \in Horizons :
    Recorded(k, h) /\ outcome[k][h][1] # "observed" => ~outcome[k][h][2]
=============================================================================
