-------------------------------- MODULE GemScan --------------------------------
(***************************************************************************)
(* runGemScanCycle: chain by chain, candidates are discovered, their pools *)
(* fetched, gated and screened for safety; what is left is stored, given   *)
(* an outcome row, and alerted.  Then the control group, a look at every   *)
(* token ever stored, and the health of the chain.                         *)
(*                                                                         *)
(* Figures are counted from the thresholds, 1 within and 0 below, and      *)
(* None when not reported; of the score only whether it is worth an alert  *)
(* is kept.  Tokens are younger than historyMaxAgeDays.  A run that is     *)
(* over leaves nothing but rows; of the rows of a scan the model keeps     *)
(* those of the runs in progress.                                          *)
(***************************************************************************)
EXTENDS Naturals, FiniteSets

CONSTANTS
  Runs,       \* cycles that may overlap
  Tokens, Chains,
  ChainOf,    \* the chain of each token
  ScreenOf,   \* per chain: "rugcheck", "goplus", or None when neither covers it
  Markets,    \* sets of pools a token may have
  Configured, \* telegramAlertChatIds
  Users,      \* chats with a bot_settings row
  Sample,     \* BASELINE_SAMPLE_PER_SCAN
  History,    \* historyMaxTokens
  MaxMoves,   \* bound: changes of the market, and of the wishes of chats
  MaxFaults,  \* bound: requests and queries that fail, runs that die
  None        \* no screen, chat or answer; a figure not reported

Figures == {None, 0, 1}
Pools   == [liquidity : {None, 0, 1, 2, 3}, volume : Figures, age : Figures, fdv : {None, 1, 2},
            change : {None, 1, 2}, security : BOOLEAN, priced : BOOLEAN, high : BOOLEAN]

ConstantsOK ==
  /\ ChainOf \in [Tokens -> Chains] /\ ScreenOf \in [Chains -> {"rugcheck", "goplus", None}]
  /\ \A m \in Markets : m \subseteq Pools
  /\ None \notin {"rugcheck", "goplus", "safe", "caution", "danger", "unknown"}
  /\ Sample \in Nat /\ History \in Nat /\ MaxMoves \in Nat /\ MaxFaults \in Nat

VARIABLES
  market,   \* external: the pools of each token
  opted,    \* users with alerts on
  cooling,  \* gem_alert_events: tokens alerted within the cooldown
  seen,     \* gem_tokens: per token those last seen no later, itself among them; none
            \* for one that is not stored
  scanned,  \* gem_scans: tokens with a row
  looked,   \* gem_price_observations: per token, what the last one says of it
  empty,    \* gem_chain_health: consecutive_empty_scans (2: or more)
  pc,       \* per run
  left,     \* per run: chains still to scan, the one it is on among them
  chain,    \* per run: the chain it is on
  found,    \* per run: candidates of the chain
  answer,   \* per run: their pools, each with its token
  screened, \* per run: tokens that passed the gate and are still to be screened
  listed,   \* per run: eligible gems of the chain
  controls, \* per run: the sample of rejects
  missing,  \* per run: tokens to look at that the scan did not price
  todo,     \* per run: gems still to store, the one it is on among them
  gem,      \* per run: the gem it is on
  stored,   \* per run: gem_scans rows of this scan of this chain
  tracked,  \* per run: gem_outcomes rows of those
  chats,    \* per run: chats still to be sent the gem
  moves, faults

world  == <<market, opted, moves>>
tables == <<cooling, seen, scanned, looked, empty>>
scan   == <<left, chain, found, answer, screened, listed, controls, missing>>
saving == <<todo, gem, stored, tracked, chats>>
vars   == <<world, tables, pc, scan, saving, faults>>

Verdicts == {"safe", "caution", "danger", "unknown"}

\* A listed gem: with its verdict and, for the properties, whether the screen
\* named a fault and whether it read any of the checks that matter most.
Gems == [token : Tokens, pool : Pools, verdict : Verdicts \cup {None}, fault : BOOLEAN, read : BOOLEAN]

Places == {"idle", "discover", "fetch", "screen", "token", "scan", "outcome", "cooldown", "chats",
           "send", "event", "control", "observe", "price", "health"}

Stored == {t \in Tokens : seen[t] # {}}

\* Of two stored tokens one was seen before the other.
InARow ==
  /\ \A t \in Stored : t \in seen[t] /\ seen[t] \subseteq Stored
  /\ \A t, u \in Stored : t # u => (t \in seen[u] <=> u \notin seen[t])

TypeOK ==
  /\ market \in [Tokens -> Markets] /\ opted \subseteq Users
  /\ cooling \subseteq Tokens
  /\ seen \in [Tokens -> SUBSET Tokens] /\ InARow /\ scanned \subseteq Stored
  /\ looked \in [Tokens -> {None, TRUE, FALSE}]
  /\ empty \in [Chains -> 0 .. 2]
  /\ pc \in [Runs -> Places]
  /\ left \in [Runs -> SUBSET Chains] /\ chain \in [Runs -> Chains \cup {None}]
  /\ found \in [Runs -> SUBSET Tokens] /\ missing \in [Runs -> SUBSET Tokens]
  /\ \A r \in Runs : answer[r] \subseteq Tokens \X Pools /\ listed[r] \subseteq Gems
  /\ screened \in [Runs -> SUBSET Tokens] /\ controls \in [Runs -> SUBSET Tokens]
  /\ \A r \in Runs : todo[r] \subseteq listed[r] /\ gem[r] \in listed[r] \cup {None}
  /\ stored \in [Runs -> SUBSET Tokens] /\ tracked \in [Runs -> SUBSET Tokens]
  /\ chats \in [Runs -> SUBSET (Configured \cup Users \cup {None})]
  /\ moves \in 0 .. MaxMoves /\ faults \in 0 .. MaxFaults

Empty == [r \in Runs |-> {}]
Nobody == [r \in Runs |-> None]

Init ==
  /\ market \in [Tokens -> Markets] /\ opted = Users
  /\ cooling = {} /\ seen = [t \in Tokens |-> {}] /\ scanned = {}
  /\ looked = [t \in Tokens |-> None] /\ empty = [c \in Chains |-> 0]
  /\ pc = [r \in Runs |-> "idle"]
  /\ left = Empty /\ chain = Nobody /\ found = Empty /\ answer = Empty
  /\ screened = Empty /\ listed = Empty /\ controls = Empty /\ missing = Empty
  /\ todo = Empty /\ gem = Nobody /\ stored = Empty /\ tracked = Empty /\ chats = Empty
  /\ moves = 0 /\ faults = 0
-----------------------------------------------------------------------------
(* The gate. *)

\* checkEligibility: each failure with the condition it is pushed on.
Failures(p) ==
  LET checks ==
        { <<"missing_liquidity_data", p.liquidity = None>>,
          <<"liquidity_too_low", p.liquidity # None /\ p.liquidity < 1>>,
          <<"liquidity_too_high", p.liquidity # None /\ p.liquidity > 2>>,
          <<"missing_volume_data", p.volume = None>>,
          <<"volume_too_low", p.volume = 0>>,
          <<"missing_age_data", p.age = None>>,
          <<"too_young", p.age = 0>>,
          <<"fdv_too_high", p.fdv # None /\ p.fdv > 1>>,
          <<"extreme_pump", p.change # None /\ p.change > 1>>,
          <<"tokenized_security", p.security>> }
  IN  {c[1] : c \in {d \in checks : d[2]}}

\* COMPARABLE_FAILURES
Comparable == {"liquidity_too_high", "fdv_too_high", "too_young", "extreme_pump"}

\* isComparableReject
IsControl(p) == p.priced /\ Failures(p) # {} /\ Failures(p) \subseteq Comparable

Depth(p) == IF p.liquidity = None THEN 0 ELSE p.liquidity

\* Mutant of Deepest: whichever pool comes last.
DeepestOrNot(S) == S

\* The pools that may be kept of those of one token, for some order of the answer.
Deepest(S) == {p \in S : \A q \in S : Depth(q) <= Depth(p)}

PoolsIn(ans, t) == {x[2] : x \in {y \in ans : y[1] = t}}
-----------------------------------------------------------------------------
(* The screens. *)

\* interpretRugCheckReport: an authority is revoked when its field is null or absent.
Revoked(report, field) == IF report.token THEN report[field] # "active" ELSE None

\* Reports of RugCheck: whether it has a token object, what that says of the two
\* authorities, the locked share of the liquidity, and anything else it flags.
RugReports ==
  [token : BOOLEAN, mint : {"active", "revoked", "absent"}, freeze : {"active", "revoked", "absent"},
   locked : {TRUE, FALSE, None}, flagged : BOOLEAN]

\* The two verdictFrom, from the checks that are critical, those of which one must
\* have been read, and whether anything is flagged.
Verdict(critical, wanted, flagged) ==
  CASE FALSE \in critical -> "danger"
    [] FALSE \notin critical /\ wanted \subseteq {None} -> "unknown"
    [] OTHER -> IF flagged \/ FALSE \in wanted THEN "caution" ELSE "safe"

Reads(report) ==
  \/ report.token /\ (report.mint # "absent" \/ report.freeze # "absent")
  \/ report.locked # None

RugCheck(report) ==
  LET checks == {Revoked(report, "mint"), Revoked(report, "freeze"), report.locked}
  IN  [verdict |-> Verdict(checks, checks, report.flagged), read |-> Reads(report),
       fault |-> report.flagged \/ FALSE \in checks]

\* Reports of GoPlus: TRUE for a check that is passed.  "trap" stands for
\* cannot_sell_all, owner_change_balance, selfdestruct and a punitive sell tax.
GoReports ==
  [honeypot : {TRUE, FALSE, None}, trap : {TRUE, FALSE, None}, locked : {TRUE, FALSE, None},
   open : {TRUE, FALSE, None}, flagged : BOOLEAN]

\* interpretGoPlusReport
GoPlus(report) ==
  LET critical == {report.honeypot, report.trap, report.locked}
      wanted   == {report.honeypot, report.locked, report.open}
  IN  [verdict |-> Verdict(critical, wanted, report.flagged), read |-> wanted # {None},
       fault |-> report.flagged \/ FALSE \in critical \cup wanted]

\* A screen that could not run, and one there is none of.
Failed    == [verdict |-> "unknown", read |-> FALSE, fault |-> FALSE]
NotScreened == [verdict |-> None, read |-> FALSE, fault |-> FALSE]

\* What may come of a screen on a chain.
Screens(c) ==
  CASE ScreenOf[c] = "rugcheck" -> {RugCheck(report) : report \in RugReports} \cup {Failed}
    [] ScreenOf[c] = "goplus" -> {GoPlus(report) : report \in GoReports} \cup {Failed}
    [] OTHER -> {NotScreened}

\* Mutant of Disqualifies: unverified counts as dangerous, dangerous does not.
DisqualifiesUnknown(verdict) == verdict = "unknown"

\* evaluateGem: a confirmed-dangerous verdict disqualifies outright.
Disqualifies(verdict) == verdict = "danger"
-----------------------------------------------------------------------------
(* runScan. *)

Goto(r, place) == pc' = [pc EXCEPT ![r] = place]
Faulty == faults < MaxFaults /\ faults' = faults + 1

Begin(r) ==
  /\ pc[r] = "idle"
  /\ left' = [left EXCEPT ![r] = Chains]
  /\ Goto(r, "discover")
  /\ UNCHANGED <<world, tables, chain, found, answer, screened, listed, controls, missing, saving, faults>>

OnChain(c) == {t \in Tokens : ChainOf[t] = c}

\* Each feed gives a sample of the chain, none when it fails.
Discover(r) ==
  /\ pc[r] = "discover"
  /\ \E c \in left[r] :
       /\ chain' = [chain EXCEPT ![r] = c]
       /\ \E some \in SUBSET OnChain(c) :
            /\ found' = [found EXCEPT ![r] = some]
            /\ Goto(r, IF some = {} THEN "control" ELSE "fetch")
  /\ UNCHANGED <<world, tables, left, answer, screened, listed, controls, missing, saving, faults>>

\* fetchPairsForTokens: a request that fails is skipped.
Answers(tokens)      == UNION {{t} \X market[t] : t \in tokens}
Responses(tokens)    == {Answers(tokens), {}}
Failing(ans, tokens) == ans # Answers(tokens)

\* sampleRejects: all of them, or as many as a scan keeps.
Samples(rejects) ==
  LET size == IF Cardinality(rejects) < Sample THEN Cardinality(rejects) ELSE Sample
  IN  {S \in SUBSET rejects : Cardinality(S) = size}

Unscreened(t, p) == [token |-> t, pool |-> p, verdict |-> None, read |-> FALSE, fault |-> FALSE]

\* The pools come, the deepest of each token is kept, and the gate sorts the tokens:
\* those that pass are to be screened, and of the comparable rejects some are kept.
Fetch(r) ==
  /\ pc[r] = "fetch"
  /\ \E ans \in Responses(found[r]) :
       /\ IF Failing(ans, found[r]) THEN Faulty ELSE UNCHANGED faults
       /\ answer' = [answer EXCEPT ![r] = ans]
       /\ \E best \in [{x[1] : x \in ans} -> {x[2] : x \in ans}] :
            /\ \A t \in DOMAIN best : best[t] \in Deepest(PoolsIn(ans, t))
            /\ LET passed  == {t \in DOMAIN best : Failures(best[t]) = {}}
                   rejects == {t \in DOMAIN best : IsControl(best[t])}
               IN  /\ screened' = [screened EXCEPT ![r] = passed]
                   /\ listed' = [listed EXCEPT ![r] = {Unscreened(t, best[t]) : t \in passed}]
                   /\ \E kept \in Samples(rejects) : controls' = [controls EXCEPT ![r] = kept]
                   /\ Goto(r, IF passed = {} THEN "control" ELSE "screen")
  /\ UNCHANGED <<world, tables, left, chain, found, missing, saving>>

\* One token after the other is screened; scoring ends with the last.
Screen(r) ==
  /\ pc[r] = "screen"
  /\ \E g \in listed[r], s \in Screens(chain[r]) :
       /\ g.token \in screened[r]
       /\ LET now  == [g EXCEPT !.verdict = s.verdict, !.read = s.read, !.fault = s.fault]
              rest == (listed[r] \ {g}) \cup IF Disqualifies(s.verdict) THEN {} ELSE {now}
          IN  /\ listed' = [listed EXCEPT ![r] = rest]
              /\ screened' = [screened EXCEPT ![r] = @ \ {g.token}]
              /\ IF screened[r] # {g.token} THEN UNCHANGED <<pc, todo>>
                 ELSE /\ todo' = [todo EXCEPT ![r] = rest]
                      /\ Goto(r, IF rest = {} THEN "control" ELSE "token")
  /\ UNCHANGED <<world, tables, left, chain, found, answer, controls, missing>>
  /\ UNCHANGED <<gem, stored, tracked, chats, faults>>
-----------------------------------------------------------------------------
(* persistAndMaybeAlert, gem by gem. *)

NextGem(r) ==
  /\ todo' = [todo EXCEPT ![r] = @ \ {gem[r]}]
  /\ gem' = [gem EXCEPT ![r] = None]
  /\ chats' = [chats EXCEPT ![r] = {}]
  /\ Goto(r, IF todo[r] = {gem[r]} THEN "control" ELSE "token")

\* upsertGemToken
SaveToken(r) ==
  /\ pc[r] = "token"
  /\ \E g \in todo[r] :
       /\ gem' = [gem EXCEPT ![r] = g]
       /\ seen' = [t \in Tokens |-> IF t = g.token THEN Stored \cup {t} ELSE seen[t] \ {g.token}]
  /\ Goto(r, "scan")
  /\ UNCHANGED <<world, cooling, scanned, looked, empty, scan, todo, stored, tracked, chats, faults>>

\* insertGemScan
SaveScan(r) ==
  /\ pc[r] = "scan"
  /\ stored' = [stored EXCEPT ![r] = @ \cup {gem[r].token}]
  /\ scanned' = scanned \cup {gem[r].token}
  /\ Goto(r, "outcome")
  /\ UNCHANGED <<world, cooling, seen, looked, empty, scan, todo, gem, tracked, chats, faults>>

\* Mutant of HasOutcome: those below the bar of an alert, as once, have none.
HasOutcomeLow(g) == g.pool.priced /\ ~g.pool.high

\* Every eligible scan with a price gets an outcome row.
HasOutcome(g) == g.pool.priced

\* ensureGemOutcome, and the bar of an alert.
SaveOutcome(r) ==
  /\ pc[r] = "outcome"
  /\ tracked' = IF HasOutcome(gem[r]) THEN [tracked EXCEPT ![r] = @ \cup {gem[r].token}] ELSE tracked
  /\ IF gem[r].pool.high THEN Goto(r, "cooldown") /\ UNCHANGED <<todo, gem, chats>> ELSE NextGem(r)
  /\ UNCHANGED <<world, tables, scan, stored, faults>>

\* getLastGemAlert
CheckCooldown(r) ==
  /\ pc[r] = "cooldown"
  /\ IF gem[r].token \in cooling THEN NextGem(r) ELSE Goto(r, "chats") /\ UNCHANGED <<todo, gem, chats>>
  /\ UNCHANGED <<world, tables, scan, stored, tracked, faults>>

\* getAllAlertSubscribers; with nobody to tell, one event without a chat.
Recipients(r) ==
  /\ pc[r] = "chats"
  /\ LET all == Configured \cup opted
     IN  /\ chats' = [chats EXCEPT ![r] = IF all = {} THEN {None} ELSE all]
         /\ Goto(r, IF all = {} THEN "event" ELSE "send")
  /\ UNCHANGED <<world, tables, scan, todo, gem, stored, tracked, faults>>

\* send never throws; its event follows.
Send(r) ==
  /\ pc[r] = "send"
  /\ Goto(r, "event")
  /\ UNCHANGED <<world, tables, scan, saving, faults>>

\* insertGemAlertEvent of one chat.
SaveEvent(r) ==
  /\ pc[r] = "event"
  /\ cooling' = cooling \cup {gem[r].token}
  /\ \E c \in chats[r] :
       IF chats[r] = {c} THEN NextGem(r)
       ELSE chats' = [chats EXCEPT ![r] = @ \ {c}] /\ Goto(r, "send") /\ UNCHANGED <<todo, gem>>
  /\ UNCHANGED <<world, seen, scanned, looked, empty, scan, stored, tracked, faults>>
-----------------------------------------------------------------------------
(* The rest of a chain. *)

\* insertGemBaselineCandidates; what becomes of the rows is in GemOutcomes.
SaveControls(r) ==
  /\ pc[r] = "control"
  /\ Goto(r, "observe")
  /\ UNCHANGED <<world, tables, scan, saving, faults>>

\* getTrackedGemTokens: the last seen first, as many as it is limited to.
Watched(c) ==
  LET rows == {t \in scanned : ChainOf[t] = c}
  IN  {t \in rows : Cardinality({u \in rows : t \in seen[u]}) <= History}

\* Mutant of Missing: a token is looked at while it is found.
MissingFound(r) == Watched(chain[r]) \cap found[r]

\* Of the tokens to look at, those this scan has not priced already.
Missing(r) == Watched(chain[r]) \ {g.token : g \in listed[r]}

ReadTracked(r) ==
  /\ pc[r] = "observe"
  /\ missing' = [missing EXCEPT ![r] = Missing(r)]
  /\ Goto(r, "price")
  /\ UNCHANGED <<world, tables, left, chain, found, answer, screened, listed, controls, saving, faults>>

\* observationsFromPairs: the deepest pool of those with a price, and whether it
\* is eligible; without one no observation.
Look(t, S) ==
  LET priced == Deepest({p \in S : p.priced})
  IN  IF priced = {} THEN {looked[t]} ELSE {Failures(p) = {} : p \in priced}

\* The pools of the missing, and one insert for them and the listed; a request that
\* fails is skipped.  (The fetch and the insert are two awaits: no other row is
\* written in between, and a later look follows.)
Observe(r) ==
  /\ pc[r] = "price"
  /\ \E ans \in Responses(missing[r]) :
       /\ IF Failing(ans, missing[r]) THEN Faulty ELSE UNCHANGED faults
       /\ \E now \in [Tokens -> {TRUE, FALSE, None}] :
            /\ \A t \in Tokens : now[t] \in
                 Look(t, PoolsIn(ans, t) \cup {g.pool : g \in {h \in listed[r] : h.token = t}})
            /\ looked' = now
  /\ Goto(r, "health")
  /\ UNCHANGED <<world, cooling, seen, scanned, empty, scan, saving>>

\* All a chain leaves in a run.
Ends(r) ==
  /\ chain' = [chain EXCEPT ![r] = None] /\ found' = [found EXCEPT ![r] = {}]
  /\ answer' = [answer EXCEPT ![r] = {}] /\ screened' = [screened EXCEPT ![r] = {}]
  /\ listed' = [listed EXCEPT ![r] = {}] /\ controls' = [controls EXCEPT ![r] = {}]
  /\ missing' = [missing EXCEPT ![r] = {}] /\ todo' = [todo EXCEPT ![r] = {}] /\ gem' = [gem EXCEPT ![r] = None]
  /\ stored' = [stored EXCEPT ![r] = {}] /\ tracked' = [tracked EXCEPT ![r] = {}]
  /\ chats' = [chats EXCEPT ![r] = {}]

NextChain(r) ==
  /\ Ends(r)
  /\ left' = [left EXCEPT ![r] = @ \ {chain[r]}]
  /\ Goto(r, IF left[r] = {chain[r]} THEN "idle" ELSE "discover")

\* recordGemChainScan: a scan without a candidate makes the streak longer.
SaveHealth(r) ==
  /\ pc[r] = "health"
  /\ empty' = [empty EXCEPT ![chain[r]] = CASE found[r] # {} -> 0 [] @ = 2 -> 2 [] OTHER -> @ + 1]
  /\ NextChain(r)
  /\ UNCHANGED <<world, cooling, seen, scanned, looked, faults>>

\* A query fails: logged, and the next chain follows.
ChainFails(r) ==
  /\ pc[r] \in {"token", "scan", "outcome", "cooldown", "chats", "event", "control", "health"}
  /\ Faulty
  /\ NextChain(r)
  /\ UNCHANGED <<world, tables>>

\* Reading or writing the observations fails: swallowed.
ObserveFails(r) ==
  /\ pc[r] \in {"observe", "price"}
  /\ Faulty
  /\ Goto(r, "health")
  /\ UNCHANGED <<world, tables, scan, saving>>

Dies(r) ==
  /\ pc[r] # "idle"
  /\ Faulty
  /\ Ends(r) /\ left' = [left EXCEPT ![r] = {}]
  /\ Goto(r, "idle")
  /\ UNCHANGED <<world, tables>>
-----------------------------------------------------------------------------
(* The world. *)

Move == moves < MaxMoves /\ moves' = moves + 1

Trades(t) ==
  /\ Move
  /\ \E m \in Markets \ {market[t]} : market' = [market EXCEPT ![t] = m]
  /\ UNCHANGED <<opted, tables, pc, scan, saving, faults>>

Opts(c) ==
  /\ Move
  /\ opted' = IF c \in opted THEN opted \ {c} ELSE opted \cup {c}
  /\ UNCHANGED <<market, tables, pc, scan, saving, faults>>

Cools(t) ==
  /\ t \in cooling
  /\ cooling' = cooling \ {t}
  /\ UNCHANGED <<world, seen, scanned, looked, empty, pc, scan, saving, faults>>

Step(r) ==
  \/ Begin(r) \/ Discover(r) \/ Fetch(r) \/ Screen(r)
  \/ SaveToken(r) \/ SaveScan(r) \/ SaveOutcome(r) \/ CheckCooldown(r) \/ Recipients(r)
  \/ Send(r) \/ SaveEvent(r)
  \/ SaveControls(r) \/ ReadTracked(r) \/ Observe(r) \/ SaveHealth(r)

Next ==
  \/ \E r \in Runs : Step(r) \/ ChainFails(r) \/ ObserveFails(r) \/ Dies(r)
  \/ \E t \in Tokens : Trades(t) \/ Cools(t)
  \/ \E c \in Users : Opts(c)

Spec == Init /\ [][Next]_vars
-----------------------------------------------------------------------------
(* Properties. *)

Best(r, g) == /\ Failures(g.pool) = {}
              /\ \A x \in answer[r] : x[1] = g.token => Depth(x[2]) <= Depth(g.pool)

\* What the screen says: no danger is listed, safe is without a fault, and without
\* a verdict is only what no screen covers.
Judged(r, g) == /\ g.verdict # "danger"
                /\ g.verdict = "safe" => ~g.fault
                /\ g.verdict = None <=> ScreenOf[chain[r]] = None

Alerting == {"cooldown", "chats", "send", "event"}

\* runScan, persistAndMaybeAlert: a gem that is listed was vetted, on the pool a
\* buyer would trade, and no gem is alerted, or passed over, before its scan and
\* the outcome it will be judged by are stored; no reject is listed.
ListedIsVetted ==
  \A r \in Runs :
    /\ \A g \in listed[r] : Best(r, g) /\ (g.token \notin screened[r] => Judged(r, g))
    /\ \A g \in listed[r] :
         pc[r] # "screen" /\ (g \in todo[r] => g = gem[r] /\ pc[r] \in Alerting)
           => g.token \in stored[r] /\ (g.pool.priced => g.token \in tracked[r])
    /\ {g.token : g \in listed[r]} \cap controls[r] = {}

\* interpretRugCheckReport: a gem is listed as safe only when some of the checks
\* that matter most could be read.
ClearedIsRead ==
  \A r \in Runs : \A g \in listed[r] : g.verdict = "safe" => g.read

\* Tokens to look at whose last observation is not what their market shows.
Unseen ==
  {t \in Tokens : /\ t \in Watched(ChainOf[t])
                  /\ looked[t] \notin Look(t, market[t])}
=============================================================================
