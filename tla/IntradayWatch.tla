---------------------------- MODULE IntradayWatch ----------------------------
(***************************************************************************)
(* runCoinWatchIntraday: every hour the held, starred and stopped coins    *)
(* are read; what was found is claimed for the UTC day, finding by         *)
(* finding, and only what this run claimed is sent.                        *)
(*                                                                         *)
(* A run reads all its coins at once here.  Runs may overlap: the timer    *)
(* does not wait, and a deploy has two workers for a while.  The four      *)
(* reasons to leave a coin are one, and whether it is true now is given.   *)
(***************************************************************************)
EXTENDS Naturals

CONSTANTS
  Runs,      \* runs that may overlap
  Coins,     \* coins held or starred
  Trades,    \* open trades with a stop
  CoinOf,    \* the coin of each
  Owner,     \* the chat that logged each, or Web
  Web,       \* the web journal, no chat
  Alerted,   \* chatIds: configured alert chats and subscribers
  LastDay,   \* bound: days 1 .. LastDay
  MaxMoves,  \* bound: moves of the market
  MaxFaults  \* bound: sends that fail, runs that die

Days  == 1 .. LastDay
Chats == Alerted \cup ({Owner[t] : t \in Trades} \ {Web})
Kinds == {"stop_near", "stop_hit"}

ConstantsOK == LastDay \in Nat \ {0} /\ MaxMoves \in Nat /\ MaxFaults \in Nat

\* IntradayFinding and StopFinding.
Exits    == [on : Coins, kind : {"long_unwind"}]
Stops    == [on : Trades, kind : Kinds]
Findings == Exits \cup Stops

VARIABLES
  day,     \* the UTC day
  level,   \* external: where the price is to the stop of each trade
  turned,  \* external: coins with a reason to leave them
  moves,   \* moves so far
  claimed, \* coin_watch_intraday_sent
  told,    \* Telegram: per day and finding, how often each chat was told (2: or more)
  pc,      \* per run
  now,     \* per run: the day it runs on
  found,   \* per run: findings still to claim
  fresh,   \* per run: findings it has claimed
  left,    \* per run: messages still to send
  seen,    \* history: findings of a day
  faults   \* faults so far

market == <<day, level, turned, moves>>
run    == <<now, found, fresh, left>>
vars   == <<market, claimed, told, pc, run, seen, faults>>

Messages == {"exit", "stop"} \X Chats

TypeOK ==
  /\ day \in Days
  /\ level \in [Trades -> Kinds \cup {"far"}] /\ turned \in SUBSET Coins /\ moves \in 0 .. MaxMoves
  /\ \A k \in claimed : k[1] \in Days
  /\ told \in [Days \X Findings -> [Chats -> 0 .. 2]]
  /\ pc \in [Runs -> {"idle", "claim", "send"}]
  /\ now \in [Runs -> 0 .. LastDay]
  /\ found \in [Runs -> SUBSET Findings] /\ fresh \in [Runs -> SUBSET Findings]
  /\ left \in [Runs -> SUBSET Messages]
  /\ seen \in SUBSET (Days \X Findings)
  /\ faults \in 0 .. MaxFaults

Init ==
  /\ day = 1
  /\ level = [t \in Trades |-> "far"] /\ turned = {} /\ moves = 0
  /\ claimed = {}
  /\ told = [k \in Days \X Findings |-> [c \in Chats |-> 0]]
  /\ pc = [r \in Runs |-> "idle"]
  /\ now = [r \in Runs |-> 0]
  /\ found = [r \in Runs |-> {}] /\ fresh = [r \in Runs |-> {}] /\ left = [r \in Runs |-> {}]
  /\ seen = {}
  /\ faults = 0
-----------------------------------------------------------------------------
Goto(r, place) == pc' = [pc EXCEPT ![r] = place]
Faulty == faults < MaxFaults /\ faults' = faults + 1

\* intradayFindings and stopFindings on what is read now.
FoundNow == [on : turned, kind : {"long_unwind"}] \cup {f \in Stops : level[f.on] = f.kind}

Begin(r) ==
  /\ pc[r] = "idle"
  /\ FoundNow # {}
  /\ now' = [now EXCEPT ![r] = day]
  /\ found' = [found EXCEPT ![r] = FoundNow]
  /\ seen' = seen \cup ({day} \X FoundNow)
  /\ Goto(r, "claim")
  /\ UNCHANGED <<market, claimed, told, fresh, left, faults>>

\* Mutant of Key: a stop is claimed per coin.
KeyOfCoin(f) == IF f \in Exits THEN <<f.on, f.kind>> ELSE <<CoinOf[f.on], f.kind>>

\* The row of a finding: symbol and kind, the kind of a stop with its trade's id.
Key(f) == IF f \in Exits THEN <<f.on, f.kind>> ELSE <<CoinOf[f.on], f.kind, f.on>>

\* Mutant of IsNew: the rows are not looked at.
IsNewAlways(d, f) == TRUE

\* claimCoinWatchIntraday: the row was inserted.
IsNew(d, f) == <<d, Key(f)>> \notin claimed

\* The exits of all chats first, in one message; the web journal has no chat.
Recipients(f) == IF f \in Stops /\ Owner[f.on] # Web THEN {Owner[f.on]} ELSE Alerted
What(f)       == IF f \in Exits THEN "exit" ELSE "stop"
MessagesFor(fs) == UNION {{What(f)} \X Recipients(f) : f \in fs}

Idle(r) ==
  /\ Goto(r, "idle")
  /\ now' = [now EXCEPT ![r] = 0]
  /\ found' = [found EXCEPT ![r] = {}]
  /\ fresh' = [fresh EXCEPT ![r] = {}]
  /\ left' = [left EXCEPT ![r] = {}]

\* Exits are claimed, and sent, before stops.
ExitsFirst(some, all) == \A x \in all : some \in Stops => x \notin Exits

Claim(r) ==
  /\ pc[r] = "claim"
  /\ \E f \in found[r] :
       LET mine == fresh[r] \cup IF IsNew(now[r], f) THEN {f} ELSE {}
       IN  /\ ExitsFirst(f, found[r])
           /\ claimed' = claimed \cup {<<now[r], Key(f)>>}
           /\ IF found[r] # {f}
                THEN /\ found' = [found EXCEPT ![r] = @ \ {f}]
                     /\ fresh' = [fresh EXCEPT ![r] = mine]
                     /\ UNCHANGED <<pc, now, left>>
              ELSE IF MessagesFor(mine) = {} THEN Idle(r)
              ELSE /\ found' = [found EXCEPT ![r] = {}]
                   /\ fresh' = [fresh EXCEPT ![r] = mine]
                   /\ left' = [left EXCEPT ![r] = MessagesFor(mine)]
                   /\ Goto(r, "send")
                   /\ UNCHANGED now
  /\ UNCHANGED <<market, told, seen, faults>>

\* The message m of run r reaches its chat.
Delivered(r, m) ==
  [k \in Days \X Findings |->
     IF k[1] = now[r] /\ k[2] \in fresh[r] /\ What(k[2]) = m[1] /\ m[2] \in Recipients(k[2])
       THEN [told[k] EXCEPT ![m[2]] = IF @ = 2 THEN 2 ELSE @ + 1] ELSE told[k]]

\* notifier.send, which gives ok: false and never throws.
Send(r) ==
  /\ pc[r] = "send"
  /\ \E m \in left[r] :
       /\ m[1] = "stop" => \A x \in left[r] : x[1] = "stop"
       /\ \/ told' = Delivered(r, m) /\ UNCHANGED faults
          \/ Faulty /\ UNCHANGED told
       /\ IF left[r] = {m} THEN Idle(r)
          ELSE left' = [left EXCEPT ![r] = @ \ {m}] /\ UNCHANGED <<pc, now, found, fresh>>
  /\ UNCHANGED <<market, claimed, seen>>

\* A query fails and the run with it, or the process dies.
Dies(r) ==
  /\ pc[r] # "idle"
  /\ Faulty
  /\ Idle(r)
  /\ UNCHANGED <<market, claimed, told, seen>>

\* Prices move, reasons come and go; or a day ends.
Moves ==
  /\ moves < MaxMoves
  /\ moves' = moves + 1
  /\ \/ \E t \in Trades, l \in Kinds \cup {"far"} : level' = [level EXCEPT ![t] = l] /\ UNCHANGED <<day, turned>>
     \/ \E c \in Coins : turned' = (turned \cup {c}) \ (turned \cap {c}) /\ UNCHANGED <<day, level>>
     \/ day < LastDay /\ day' = day + 1 /\ UNCHANGED <<level, turned>>
  /\ UNCHANGED <<claimed, told, pc, run, seen, faults>>

Step(r) == Begin(r) \/ Claim(r) \/ Send(r)

Next ==
  \/ \E r \in Runs : Step(r) \/ Dies(r)
  \/ Moves

Spec == Init /\ [][Next]_vars
-----------------------------------------------------------------------------
(* Properties. *)

\* "a send without a claim would repeat every hour": no chat is told the same
\* thing twice in a day, whichever runs overlap, fail or die.
OncePerDay == \A k \in Days \X Findings, c \in Chats : told[k][c] <= 1

\* "two chats holding the same coin each get their own reminder", and a hit is
\* told after a near miss: unless a send failed or a run died, everything a
\* finished run found has reached everyone it is for, whichever run sent it.
FoundIsTold ==
  faults = 0 /\ (\A r \in Runs : pc[r] = "idle") =>
    \A k \in seen : \A c \in Recipients(k[2]) : told[k][c] = 1
=============================================================================
