----------------------------- MODULE DailyDigest -----------------------------
(***************************************************************************)
(* runTrendCycle and maybeSendDigest, cut at their awaits: the hourly read *)
(* of the daily structure and the morning digest, run by several workers   *)
(* (a deploy overlaps the old one and the new one; one worker's interval   *)
(* does not wait for the previous run either) on one database.             *)
(*                                                                         *)
(* Day d begins with the daily close numbered d; the digest of day d is    *)
(* about that close.  A cycle keeps the time it started at as its `now`.   *)
(***************************************************************************)
EXTENDS Naturals, FiniteSets

CONSTANTS
  Workers,    \* concurrent runs of the cycle
  Chats,      \* chats that may be subscribed
  Symbols,    \* tracked symbols
  LastDay,    \* bound: days 1 .. LastDay
  DayLength,  \* hours of a day
  Window,     \* DIGEST_WINDOW_MS in hours
  ScanWait,   \* COIN_SCAN_WAIT_MS in hours
  CoinScan    \* config.coinScan.enabled

Days == 1 .. LastDay

\* The wait for the scan, two hours, ends inside the window, twelve.
ASSUME TimesAssumption ==
  /\ LastDay \in Nat \ {0} /\ DayLength \in Nat \ {0}
  /\ Window \in Nat /\ ScanWait \in Nat /\ ScanWait <= Window
ASSUME CoinScanAssumption == CoinScan \in BOOLEAN
ASSUME SymbolsAssumption == Symbols # {}
ASSUME ChatsAssumption == Chats # {}
ASSUME WorkersAssumption == Workers # {}

VARIABLES
  day, hour,  \* the clock
  label,      \* external: the structure of each symbol at each close
  trend,      \* trend_states: per symbol the close read last (0: no row) and its label
  scanned,    \* coin_scan: closes stored by runCoinScanCycle
  claimed,    \* daily_digests: the days with a row
  body,       \* daily_digests.body is stored
  personal,   \* daily_digest_chats
  recipients, \* daily_digests.recipients, for the days it was recorded
  pc,         \* per worker
  at,         \* per worker: `now`, the time its cycle started
  todo,       \* per worker: symbols still to read
  prev,       \* per worker: the row the upsert in progress has selected
  results,    \* per worker: symbols read
  flagged,    \* per worker: results whose labelChanged is true
  audience,   \* per worker: chatIds still to send to
  own,        \* per worker: the personal sections could be read
  current,    \* per worker: the chat sent to last
  sent,       \* Telegram: messages of each day delivered to each chat
  changed,    \* history: changes of label some cycle saw at each close
  broken,     \* history: days whose claimed run failed or died
  calm        \* history: today every worker ran every hour, and nothing failed

clock   == <<day, hour>>
tables  == <<trend, scanned, claimed, body, personal, recipients>>
reading == <<at, todo, prev, results, flagged>>
sending == <<audience, own, current>>
history == <<changed, broken, calm>>
vars    == <<clock, label, tables, pc, reading, sending, sent, history>>

NoRow  == [close |-> 0, label |-> "sideways"]
Labels == {"up", "sideways"}
Rows   == [close : 0 .. LastDay, label : Labels]

\* Stages after the claim: the worker alone writes to its chats.
Holding == {"claimed", "sending", "keeping"}

TypeOK ==
  /\ day \in Days /\ hour \in 0 .. DayLength - 1
  /\ label \in [Days -> [Symbols -> Labels]]
  /\ trend \in [Symbols -> Rows]
  /\ scanned \in SUBSET Days
  /\ claimed \in SUBSET Days
  /\ body \in SUBSET claimed
  /\ personal \in SUBSET (claimed \X Chats)
  /\ recipients \in SUBSET claimed
  /\ pc \in [Workers -> {"idle", "ran", "read", "upsert", "gate", "claim"} \cup Holding]
  /\ at \in [Workers -> [day : Days, hour : 0 .. DayLength - 1]]
  /\ todo \in [Workers -> SUBSET Symbols]
  /\ prev \in [Workers -> Rows]
  /\ results \in [Workers -> SUBSET Symbols]
  /\ flagged \in [Workers -> SUBSET Symbols]
  /\ audience \in [Workers -> SUBSET Chats]
  /\ own \in [Workers -> BOOLEAN]
  /\ current \in [Workers -> Chats]
  /\ sent \in [Days -> [Chats -> Nat]]
  /\ changed \in [Days -> SUBSET Symbols]
  /\ broken \in SUBSET Days
  /\ calm \in BOOLEAN

Init ==
  /\ day = 1 /\ hour = 0
  /\ label \in [Days -> [Symbols -> Labels]]
  /\ trend = [s \in Symbols |-> NoRow]
  /\ scanned = {}
  /\ claimed = {}
  /\ body = {}
  /\ personal = {}
  /\ recipients = {}
  /\ pc = [w \in Workers |-> "idle"]
  /\ at = [w \in Workers |-> [day |-> 1, hour |-> 0]]
  /\ todo = [w \in Workers |-> {}]
  /\ prev = [w \in Workers |-> NoRow]
  /\ results = [w \in Workers |-> {}]
  /\ flagged = [w \in Workers |-> {}]
  /\ audience = [w \in Workers |-> {}]
  /\ own = [w \in Workers |-> FALSE]
  /\ current = [w \in Workers |-> CHOOSE c \in Chats : TRUE]
  /\ sent = [d \in Days |-> [c \in Chats |-> 0]]
  /\ changed = [d \in Days |-> {}]
  /\ broken = {}
  /\ calm = TRUE
-----------------------------------------------------------------------------
(* Reading the structure. *)

Goto(w, place) == pc' = [pc EXCEPT ![w] = place]

\* runTrendCycle is called, once an hour.
Begin(w) ==
  /\ pc[w] = "idle"
  /\ at' = [at EXCEPT ![w] = [day |-> day, hour |-> hour]]
  /\ todo' = [todo EXCEPT ![w] = Symbols]
  /\ results' = [results EXCEPT ![w] = {}]
  /\ flagged' = [flagged EXCEPT ![w] = {}]
  /\ Goto(w, "read")
  /\ UNCHANGED <<clock, label, tables, prev, sending, sent, history>>

\* The loop goes through the symbols in one fixed order.
Reading(w) == CHOOSE s \in todo[w] : TRUE

NextSymbol(w) ==
  /\ todo[w] # {}
  /\ todo' = [todo EXCEPT ![w] = @ \ {Reading(w)}]
  /\ Goto(w, IF todo[w] = {Reading(w)} THEN "gate" ELSE "read")

\* The bars are fetched and upsertTrendState selects the stored row.
Select(w) ==
  /\ pc[w] = "read"
  /\ todo[w] # {}
  /\ prev' = [prev EXCEPT ![w] = trend[Reading(w)]]
  /\ Goto(w, "upsert")
  /\ UNCHANGED <<clock, label, tables, at, todo, results, flagged, sending, sent, history>>

\* Neither exchange answers, or there is too little history.
ReadFails(w) ==
  /\ pc[w] = "read"
  /\ NextSymbol(w)
  /\ calm' = FALSE
  /\ UNCHANGED <<clock, label, tables, at, prev, results, flagged, sending, sent, changed, broken>>

\* labelChanged: the label differs on a close the selected row has not seen.
LabelChanged(w, close, new) ==
  prev[w].close # 0 /\ prev[w].close < close /\ prev[w].label # new

\* The row is overwritten with the close this cycle reads: the last one before
\* its `now`.
Upsert(w) ==
  LET s   == Reading(w)
      new == label[at[w].day][s]
      is  == LabelChanged(w, at[w].day, new)
  IN  /\ pc[w] = "upsert"
      /\ trend' = [trend EXCEPT ![s] = [close |-> at[w].day, label |-> new]]
      /\ results' = [results EXCEPT ![w] = @ \cup {s}]
      /\ flagged' = [flagged EXCEPT ![w] = IF is THEN @ \cup {s} ELSE @]
      /\ changed' = [changed EXCEPT ![at[w].day] = IF is THEN @ \cup {s} ELSE @]
      /\ NextSymbol(w)
      /\ UNCHANGED <<clock, label, scanned, claimed, body, personal, recipients,
                     at, prev, sending, sent, broken, calm>>
-----------------------------------------------------------------------------
(* The digest. *)

\* now - closedAt
Elapsed(w) == at[w].hour

\* Mutant of WaitsForScan: the wait has no end.
WaitsForScanForEver(w) == CoinScan /\ at[w].day \notin scanned

\* The scan of this close is not in yet, and it is early enough to wait for it.
WaitsForScan(w) == CoinScan /\ at[w].day \notin scanned /\ Elapsed(w) < ScanWait

\* Mutant of Gate: the day is claimed before the reasons to skip it are known.
GateClaiming(w) ==
  /\ pc[w] = "gate"
  /\ \E chats \in SUBSET Chats :
       LET skip == results[w] = {} \/ Elapsed(w) > Window \/ chats = {} \/ WaitsForScan(w)
       IN  /\ Goto(w, IF skip \/ at[w].day \in claimed THEN "ran" ELSE "claimed")
           /\ audience' = [audience EXCEPT ![w] = IF skip THEN {} ELSE chats]
           /\ calm' = (calm /\ chats # {} /\ results[w] # {})
  /\ claimed' = claimed \cup {at[w].day}
  /\ UNCHANGED <<clock, label, trend, scanned, body, personal, recipients, reading,
                 own, current, sent, changed, broken>>

\* maybeSendDigest up to the claim: no results, too late, nobody to send to, or
\* the day's coin scan is still awaited.
Gate(w) ==
  /\ pc[w] = "gate"
  /\ \E chats \in SUBSET Chats :
       LET skip == results[w] = {} \/ Elapsed(w) > Window \/ chats = {} \/ WaitsForScan(w)
       IN  /\ Goto(w, IF skip THEN "ran" ELSE "claim")
           /\ audience' = [audience EXCEPT ![w] = IF skip THEN {} ELSE chats]
           /\ calm' = (calm /\ chats # {} /\ results[w] # {})
  /\ UNCHANGED <<clock, label, tables, reading, own, current, sent, changed, broken>>

\* Mutant of ClaimWins: the upsert reports a row whoever inserted it.
ClaimWinsAlways(d) == TRUE

\* INSERT ... ON CONFLICT DO NOTHING inserted the row.
ClaimWins(d) == d \notin claimed

Claim(w) ==
  /\ pc[w] = "claim"
  /\ claimed' = claimed \cup {at[w].day}
  /\ Goto(w, IF ClaimWins(at[w].day) THEN "claimed" ELSE "ran")
  /\ UNCHANGED <<clock, label, trend, scanned, body, personal, recipients, reading,
                 sending, sent, history>>

\* The shared text is built and stored, the personal sections are read; the
\* last two may fail without stopping the digest.
Compose(w) ==
  /\ pc[w] = "claimed"
  /\ body' \in {body, body \cup {at[w].day}}
  /\ \E readable \in BOOLEAN : own' = [own EXCEPT ![w] = readable]
  /\ Goto(w, "sending")
  /\ UNCHANGED <<clock, label, trend, scanned, claimed, personal, recipients, reading,
                 audience, current, sent, history>>

\* Send to the next chat.  A text of its own, once delivered, is then stored.
Send(w) ==
  LET d == at[w].day
  IN  /\ pc[w] = "sending"
      /\ \E c \in audience[w], landed \in BOOLEAN :
           /\ audience' = [audience EXCEPT ![w] = @ \ {c}]
           /\ current' = [current EXCEPT ![w] = c]
           /\ sent' = IF landed THEN [sent EXCEPT ![d][c] = @ + 1] ELSE sent
           /\ Goto(w, IF landed /\ own[w] THEN "keeping" ELSE "sending")
      /\ UNCHANGED <<clock, label, tables, reading, own, history>>

\* recordDigestForChat; a failed write is only logged.
Keep(w) ==
  /\ pc[w] = "keeping"
  /\ personal' \in {personal, personal \cup {<<at[w].day, current[w]>>}}
  /\ Goto(w, "sending")
  /\ UNCHANGED <<clock, label, trend, scanned, claimed, body, recipients, reading,
                 sending, sent, history>>

\* recordDigestRecipients and recordJobSuccess.
Finish(w) ==
  /\ pc[w] = "sending"
  /\ audience[w] = {}
  /\ recipients' = recipients \cup {at[w].day}
  /\ Goto(w, "ran")
  /\ UNCHANGED <<clock, label, trend, scanned, claimed, body, personal, reading,
                 sending, sent, history>>

\* The process dies, or a query throws, and the run ends where it stands: a
\* restarted worker begins again at once.  The day may have been claimed by an
\* insert whose answer never came back.
Dies(w) ==
  /\ pc[w] # "idle"
  /\ Goto(w, "idle")
  /\ claimed' \in IF pc[w] = "claim" THEN {claimed, claimed \cup {at[w].day}} ELSE {claimed}
  /\ broken' = IF pc[w] \in Holding \/ claimed' # claimed THEN broken \cup {at[w].day} ELSE broken
  /\ calm' = FALSE
  /\ UNCHANGED <<clock, label, trend, scanned, body, personal, recipients, reading,
                 sending, sent, changed>>
-----------------------------------------------------------------------------
(* Around it. *)

\* runCoinScanCycle stores the scan of the last close.
ScanStored ==
  /\ CoinScan
  /\ scanned' = scanned \cup {day}
  /\ UNCHANGED <<clock, label, trend, claimed, body, personal, recipients, pc, reading,
                 sending, sent, history>>

\* An hour passes.  A run still going on keeps going; the others are due again.
Tick ==
  /\ hour + 1 < DayLength \/ day < LastDay
  /\ hour' = (hour + 1) % DayLength
  /\ day' = IF hour + 1 < DayLength THEN day ELSE day + 1
  /\ LET ranThisHour == \A w \in Workers : pc[w] = "ran" /\ at[w] = [day |-> day, hour |-> hour]
     IN  calm' = (ranThisHour /\ (calm \/ hour + 1 = DayLength))
  /\ pc' = [w \in Workers |-> IF pc[w] = "ran" THEN "idle" ELSE pc[w]]
  /\ UNCHANGED <<label, tables, reading, sending, sent, changed, broken>>

Run(w) ==
  \/ Begin(w) \/ Select(w) \/ ReadFails(w) \/ Upsert(w)
  \/ Gate(w) \/ Claim(w) \/ Compose(w) \/ Send(w) \/ Keep(w) \/ Finish(w)

Next ==
  \/ \E w \in Workers : Run(w) \/ Dies(w)
  \/ ScanStored
  \/ Tick

Spec == Init /\ [][Next]_vars
-----------------------------------------------------------------------------
(* Properties. *)

Promise == INSTANCE MorningMessage WITH open <- claimed, count <- sent

\* migration 026 "One morning digest per UTC day, however many times the worker
\* restarts": the claim, the sends and their records do what MorningMessage says.
KeepsPromise == Promise!Spec

\* No chat is sent one day's digest twice.
AtMostOnce == \A d \in Days, c \in Chats : sent[d][c] <= 1

\* trendCycle.ts "a skipped day stays claimable": a day is claimed only by a run
\* that goes on to send it, and either finishes or breaks.
NoWastedClaim ==
  \A d \in claimed :
    \/ d \in recipients \/ d \in broken
    \/ \E w \in Workers : pc[w] \in Holding /\ at[w].day = d

\* On a day without failures, with somebody to send to, the digest has been
\* started by the end of its window, with or without the coin scan.
MorningMessageGoesOut == calm /\ hour > Window => day \in claimed

\* trendCycle.ts formatDigest, "what changed on this close": a change of label
\* some run has seen on the close is in that close's digest.
ChangeIsAnnounced ==
  [][\A w \in Workers : pc[w] = "claimed" /\ pc'[w] = "sending" =>
       changed[at[w].day] \cap results[w] \subseteq flagged[w]]_vars
-----------------------------------------------------------------------------
(* The inductive invariant of MorningMessageGoesOut. *)

\* On such a day, a run that is over within the last hour of the window has found the
\* day claimed or claimed it.
RanIsClaimed ==
  calm /\ hour = Window =>
    \A w \in Workers : pc[w] = "ran" /\ at[w] = [day |-> day, hour |-> hour] => day \in claimed
=============================================================================
