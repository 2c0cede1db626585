---------------------------- MODULE AlertDispatch ----------------------------
(***************************************************************************)
(* dispatchAlert: the push of one fired signal, cut at its awaits, with    *)
(* several of them in flight at once (candles are processed concurrently)  *)
(* over the alert_events table and the bot_settings the chats change.      *)
(*                                                                         *)
(* A key stands for (symbol, timeframe, signal type).  Each dispatch       *)
(* carries one signal; a signal whose frame is not an alerting one never   *)
(* reaches this point and leaves no trace here.                            *)
(***************************************************************************)
EXTENDS Naturals, FiniteSets

CONSTANTS
  Dispatches,   \* the dispatches of a behaviour, one signal each
  Keys,
  TopSeverity,  \* severities are ranks 0 .. TopSeverity of SEVERITY_ORDER
  TopConf,      \* confidences are 0 .. TopConf, in coarse units
  ConfDelta,    \* alert.confidenceDeltaRetrigger
  Cooldown,     \* alert.cooldownMinutes
  ConfigChats,  \* telegramAlertChatIds
  UserChats,    \* chats with a bot_settings row
  MinSeverity,  \* per user chat: min_severity
  Follows,      \* per user chat: the keys of its `symbols`; {} means all
  NoChat,       \* the NULL chat_id
  MaxTime       \* bound: length of a behaviour, in cooldown units

Everyone == ConfigChats \cup UserChats

ConstantsOK ==
  /\ NoChat \notin Everyone
  /\ MinSeverity \in [UserChats -> 0 .. TopSeverity]
  /\ Follows \in [UserChats -> SUBSET Keys]
  /\ TopSeverity \in Nat /\ TopConf \in Nat
  /\ ConfDelta \in Nat \ {0} /\ Cooldown \in Nat \ {0} /\ MaxTime \in Nat

VARIABLES
  now,      \* Date.now() and the database's now(), one clock
  pc,       \* per dispatch: new, fired, due, sending, sent, and how it ended
  signal,   \* per dispatch: its signal
  todo,     \* per dispatch: recipients not yet tried
  current,  \* per dispatch: the chat whose event is still to be inserted
  events,   \* alert_events
  enabled,  \* per user chat: alerts_enabled
  wanted,   \* history, per dispatch: the recipients it set out for
  offSince, \* history, per dispatch: chats that never had alerts on since it fired
  earlier   \* history, per dispatch: those that had ended when it looked up

vars == <<now, pc, signal, todo, current, events, enabled, wanted, offSince, earlier>>

Signals == [key : Keys, severity : 0 .. TopSeverity, conf : 0 .. TopConf]

\* One row: what was alerted, for which chat, when.
EventRows ==
  [dispatch : Dispatches, key : Keys, severity : 0 .. TopSeverity, conf : 0 .. TopConf,
   chat : Everyone \cup {NoChat}, at : 0 .. MaxTime]

Ended == {"silent", "done", "failed"}

TypeOK ==
  /\ now \in 0 .. MaxTime
  /\ pc \in [Dispatches -> {"new", "fired", "due", "sending", "sent"} \cup Ended]
  /\ signal \in [Dispatches -> Signals]
  /\ todo \in [Dispatches -> SUBSET Everyone]
  /\ current \in [Dispatches -> Everyone \cup {NoChat}]
  /\ events \subseteq EventRows
  /\ enabled \in [UserChats -> BOOLEAN]
  /\ wanted \in [Dispatches -> SUBSET Everyone]
  /\ offSince \in [Dispatches -> SUBSET UserChats]
  /\ earlier \in [Dispatches -> SUBSET Dispatches]
  \* rows are never dated ahead of the clock, and one dispatch has one row per chat
  /\ \A e \in events : e.at <= now
  /\ \A e, f \in events : e.dispatch = f.dispatch /\ e.chat = f.chat => e = f

Init ==
  /\ now = 0
  /\ pc = [d \in Dispatches |-> "new"]
  /\ signal \in [Dispatches -> Signals]
  /\ todo = [d \in Dispatches |-> {}]
  /\ current = [d \in Dispatches |-> NoChat]
  /\ events = {}
  /\ enabled \in [UserChats -> BOOLEAN]
  /\ wanted = [d \in Dispatches |-> {}]
  /\ offSince = [d \in Dispatches |-> {}]
  /\ earlier = [d \in Dispatches |-> {}]
-----------------------------------------------------------------------------
(* One dispatch. *)

\* A rule fired and the signal row is in: dispatchAlert is called.
Fire(d) ==
  /\ pc[d] = "new"
  /\ pc' = [pc EXCEPT ![d] = "fired"]
  /\ offSince' = [offSince EXCEPT ![d] = {c \in UserChats : ~enabled[c]}]
  /\ UNCHANGED <<now, signal, todo, current, events, enabled, wanted, earlier>>

OfKey(d) == {e \in events : e.key = signal[d].key}

\* Mutant of Latest: ORDER BY sent_at, the oldest comes first.
Oldest(E) == {e \in E : \A f \in E : e.at <= f.at}

\* ORDER BY sent_at DESC LIMIT 1: any of the latest when several share a time.
Latest(E) == {e \in E : \A f \in E : f.at <= e.at}

Apart(a, b) == IF a < b THEN b - a ELSE a - b

\* shouldSendAlert, once there is a last alert.
Retriggers(s, last) ==
  \/ now - last.at >= Cooldown
  \/ s.severity > last.severity
  \/ Apart(s.conf, last.conf) >= ConfDelta

\* The lookup and, with no await in between, the decision.
LookUp(d) ==
  /\ pc[d] = "fired"
  /\ \E answer \in IF OfKey(d) = {} THEN {TRUE}
                   ELSE {Retriggers(signal[d], e) : e \in Latest(OfKey(d))} :
       pc' = [pc EXCEPT ![d] = IF answer THEN "due" ELSE "silent"]
  /\ earlier' = [earlier EXCEPT ![d] = {e \in Dispatches : pc[e] \in Ended}]
  /\ UNCHANGED <<now, signal, todo, current, events, enabled, wanted, offSince>>

\* Mutant of Subscribed: alerts_enabled is not looked at.
SubscribedOnOrOff(c, s) ==
  /\ Follows[c] = {} \/ s.key \in Follows[c]
  /\ s.severity >= MinSeverity[c]

\* getAllAlertSubscribers and the filter over it.
Subscribed(c, s) ==
  /\ enabled[c]
  /\ Follows[c] = {} \/ s.key \in Follows[c]
  /\ s.severity >= MinSeverity[c]

ReadSubscribers(d) ==
  LET chats == ConfigChats \cup {c \in UserChats : Subscribed(c, signal[d])}
  IN  /\ pc[d] = "due"
      /\ todo' = [todo EXCEPT ![d] = chats]
      /\ wanted' = [wanted EXCEPT ![d] = chats]
      \* with nobody to tell, only the NULL row is left to insert
      /\ pc' = [pc EXCEPT ![d] = IF chats = {} THEN "sent" ELSE "sending"]
      /\ current' = [current EXCEPT ![d] = NoChat]
      /\ UNCHANGED <<now, signal, events, enabled, offSince, earlier>>

\* Mutant of AfterSend: the first undelivered message ends the loop.
AfterSendStopping(d, c, landed) ==
  todo' = [todo EXCEPT ![d] = IF landed THEN @ \ {c} ELSE {}]

\* send() never throws: whether it landed changes nothing.
AfterSend(d, c, landed) == todo' = [todo EXCEPT ![d] = @ \ {c}]

Send(d, c) ==
  /\ pc[d] = "sending"
  /\ c \in todo[d]
  /\ \E landed \in BOOLEAN : AfterSend(d, c, landed)
  /\ current' = [current EXCEPT ![d] = c]
  /\ pc' = [pc EXCEPT ![d] = "sent"]
  /\ UNCHANGED <<now, signal, events, enabled, wanted, offSince, earlier>>

Row(d) ==
  [dispatch |-> d, key |-> signal[d].key, severity |-> signal[d].severity,
   conf |-> signal[d].conf, chat |-> current[d], at |-> now]

\* insertAlertEvent, then the next chat.
Record(d) ==
  /\ pc[d] = "sent"
  /\ events' = events \cup {Row(d)}
  /\ pc' = [pc EXCEPT ![d] = IF todo[d] = {} THEN "done" ELSE "sending"]
  /\ UNCHANGED <<now, signal, todo, current, enabled, wanted, offSince, earlier>>

\* A query throws, and with it the whole snapshot's processing.
Fails(d) ==
  /\ pc[d] \in {"fired", "due", "sent"}
  /\ pc' = [pc EXCEPT ![d] = "failed"]
  /\ UNCHANGED <<now, signal, todo, current, events, enabled, wanted, offSince, earlier>>
-----------------------------------------------------------------------------
(* Around it. *)

\* The process dies: every dispatch in flight is lost.
Crash ==
  /\ \E d \in Dispatches : pc[d] \notin Ended \cup {"new"}
  /\ pc' = [d \in Dispatches |-> IF pc[d] \in Ended \cup {"new"} THEN pc[d] ELSE "failed"]
  /\ UNCHANGED <<now, signal, todo, current, events, enabled, wanted, offSince, earlier>>

\* /alerts on and off: updateBotSettings.
Toggle(c) ==
  /\ enabled' = [enabled EXCEPT ![c] = ~@]
  /\ offSince' = [d \in Dispatches |-> offSince[d] \ {c}]
  /\ UNCHANGED <<now, pc, signal, todo, current, events, wanted, earlier>>

Tick ==
  /\ now < MaxTime
  /\ now' = now + 1
  /\ UNCHANGED <<pc, signal, todo, current, events, enabled, wanted, offSince, earlier>>

Next ==
  \/ \E d \in Dispatches :
       \/ Fire(d) \/ LookUp(d) \/ ReadSubscribers(d) \/ Record(d) \/ Fails(d)
       \/ \E c \in Everyone : Send(d, c)
  \/ Crash
  \/ \E c \in UserChats : Toggle(c)
  \/ Tick

Spec == Init /\ [][Next]_vars
-----------------------------------------------------------------------------
(* Properties. *)

\* s tells nothing that the row has not told: no severer, and as confident.
Repeats(s, row) == s.severity <= row.severity /\ Apart(s.conf, row.conf) < ConfDelta

\* The same thing is told twice within a cooldown only by dispatches that overlap.
\* When y repeats x of a dispatch that had ended before y's looked up, though x was
\* told one chat at a time over any stretch of time, then an alert of the key that
\* y does not repeat was told in between.
RepeatsOnlyByOverlap ==
  \A x, y \in events :
    /\ x.key = y.key /\ x.dispatch \in earlier[y.dispatch]
    /\ y.at - x.at < Cooldown /\ Repeats(y, x)
    => \E z \in events : z.key = y.key /\ z.at \in x.at .. y.at /\ ~Repeats(y, z)

\* A chat that switched alerts off before a signal fired, and has not switched
\* them on since, is not sent it, whatever was in flight.
OptOutIsRespected ==
  \A d \in Dispatches :
    (wanted[d] \cap offSince[d]) \ ConfigChats = {}

\* The chats a dispatch has a row for.
Told(d) == {e.chat : e \in {f \in events : f.dispatch = d}}

\* One chat that cannot be reached silences nobody: a dispatch that completes
\* has tried and recorded every recipient, or the NULL row when it had none.
EveryRecipientTried ==
  \A d \in Dispatches : pc[d] = "done" =>
    Told(d) = IF wanted[d] = {} THEN {NoChat} ELSE wanted[d]
-----------------------------------------------------------------------------
(* The inductive invariant of the last two. *)

\* A chat that never switched alerts on since the signal fired has them off.
OffAreOff == \A d \in Dispatches : \A c \in offSince[d] : ~enabled[c]

\* Up to the read of the subscribers nothing is set out for or recorded.
NotYet == \A d \in Dispatches : pc[d] \in {"new", "fired", "due"} => wanted[d] = {} /\ Told(d) = {}

\* In the loop the recipients are those recorded and those still to try,
Trying ==
  \A d \in Dispatches : pc[d] = "sending" =>
    /\ todo[d] # {} /\ todo[d] \subseteq wanted[d]
    /\ Told(d) = wanted[d] \ todo[d]

\* and the one just sent to, which no row names yet.
Tried ==
  \A d \in Dispatches : pc[d] = "sent" =>
    IF wanted[d] = {}
      THEN todo[d] = {} /\ current[d] = NoChat /\ Told(d) = {}
      ELSE /\ todo[d] \subseteq wanted[d]
           /\ current[d] \in wanted[d] \ todo[d]
           /\ Told(d) = wanted[d] \ (todo[d] \cup {current[d]})

IInv ==
  /\ TypeOK /\ OffAreOff /\ OptOutIsRespected
  /\ NotYet /\ Trying /\ Tried /\ EveryRecipientTried
-----------------------------------------------------------------------------
(* What the first rests on besides. *)

\* A row tells of its dispatch's signal,
RowsTellSignals ==
  \A x \in events :
    /\ x.key = signal[x.dispatch].key
    /\ x.severity = signal[x.dispatch].severity
    /\ x.conf = signal[x.dispatch].conf

\* what had ended stays ended,
EarlierHaveEnded == \A d \in Dispatches : \A e \in earlier[d] : pc[e] \in Ended

\* and a dispatch that alerts found each row it repeats, of those that had ended,
\* older than the cooldown or followed by one it does not repeat.
DecidedOnTheLatest ==
  \A d \in Dispatches : pc[d] # "silent" =>
    \A x \in events :
      x.dispatch \in earlier[d] /\ x.key = signal[d].key /\ Repeats(signal[d], x) =>
        \/ now - x.at >= Cooldown
        \/ \E z \in events : z.key = x.key /\ z.at >= x.at /\ ~Repeats(signal[d], z)

HInv == RowsTellSignals /\ EarlierHaveEnded /\ DecidedOnTheLatest /\ RepeatsOnlyByOverlap
=============================================================================
