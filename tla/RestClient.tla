----------------------------- MODULE RestClient -----------------------------
(***************************************************************************)
(* BinanceRestClient.get: the retry loop of one client instance, with      *)
(* several calls in flight at once and the ban they share.                 *)
(*                                                                         *)
(* Durations are counted down: `pause` is what remains of bannedUntil,     *)
(* `sleep[c]` what remains of a call's backoff, `ban` what remains of the  *)
(* ban at the exchange.  One step of Tick is one unit of all of them.      *)
(***************************************************************************)
EXTENDS Naturals

CONSTANTS
  Calls,       \* concurrent get() calls; a call that ended is made again
  MaxRetries,  \* opts.maxRetries
  MaxBackoff,  \* opts.maxBackoffMs: a longer Retry-After is a ban
  DefaultBan,  \* DEFAULT_BAN_MS: for a 418 that says nothing
  LongestWait  \* bound: the longest ban or Retry-After the exchange states

\* What the constants are; the module that instantiates this one assumes it.
ConstantsOK ==
  /\ Calls # {}
  /\ MaxRetries \in Nat
  /\ MaxBackoff \in Nat \ {0}
  /\ LongestWait \in Nat /\ LongestWait > MaxBackoff
  /\ DefaultBan \in MaxBackoff .. LongestWait

VARIABLES
  pc,       \* per call: idle, sent, answered, asleep
  attempt,  \* per call: the loop's `attempt`
  reply,    \* per call: the response on its way back
  sleep,    \* per call: what remains of sleep(delayMs)
  pause,    \* this.bannedUntil - now, 0 when it has passed
  ban,      \* external: what remains of the IP ban at the exchange
  slept,    \* history, per call: time spent in backoff
  intoBan   \* history, per call: requests that arrived during a ban

vars == <<pc, attempt, reply, sleep, pause, ban, slept, intoBan>>

Waits == 0 .. LongestWait

\* The status, and the delay it asks for: Retry-After, the body of a 418,
\* DEFAULT_BAN_MS or the exponential backoff.
Replies == [status : {"ok", "failed", "429", "418"}, delay : Waits]
NoReply == [status |-> "ok", delay |-> 0]

Least(a, b) == IF a < b THEN a ELSE b
Less(n) == IF n = 0 THEN 0 ELSE n - 1

LongestSleep == MaxRetries * MaxBackoff

TypeOK ==
  /\ pc \in [Calls -> {"idle", "sent", "answered", "asleep"}]
  /\ attempt \in [Calls -> 1 .. MaxRetries + 1]
  /\ reply \in [Calls -> Replies]
  /\ sleep \in [Calls -> Waits]
  /\ pause \in Waits
  /\ ban \in Waits
  /\ slept \in [Calls -> 0 .. LongestSleep]
  /\ intoBan \in [Calls -> 0 .. 2]
  \* the last attempt is never followed by another, and no call hangs in backoff
  /\ \A c \in Calls : pc[c] = "asleep" => attempt[c] <= MaxRetries
  /\ \A c \in Calls : slept[c] + sleep[c] <= LongestSleep

Init ==
  /\ pc = [c \in Calls |-> "idle"]
  /\ attempt = [c \in Calls |-> 1]
  /\ reply = [c \in Calls |-> NoReply]
  /\ sleep = [c \in Calls |-> 0]
  /\ pause = 0
  /\ ban \in Waits
  /\ slept = [c \in Calls |-> 0]
  /\ intoBan = [c \in Calls |-> 0]
-----------------------------------------------------------------------------
(* The client. *)

\* get(): the ban is looked at once, before the loop.  A call made while the
\* pause lasts throws at once: it changes nothing here.
Start(c) ==
  /\ pc[c] = "idle"
  /\ pause = 0
  /\ pc' = [pc EXCEPT ![c] = "sent"]
  /\ attempt' = [attempt EXCEPT ![c] = 1]
  /\ slept' = [slept EXCEPT ![c] = 0]
  /\ intoBan' = [intoBan EXCEPT ![c] = 0]
  /\ UNCHANGED <<reply, sleep, pause, ban>>

\* The result, or the error thrown, reaches the caller.
Ends(c) ==
  /\ pc' = [pc EXCEPT ![c] = "idle"]
  /\ reply' = [reply EXCEPT ![c] = NoReply]
  /\ UNCHANGED <<attempt, sleep, slept, intoBan>>

\* isRateLimited && attempt <= this.maxRetries
Limited(c) == reply[c].status \in {"429", "418"} /\ attempt[c] <= MaxRetries

\* Mutant of IsBan: only the duration counts.
IsBanByDelay(c) == reply[c].delay > MaxBackoff

\* A 418 is a ban, and so is a wait too long to sleep through.
IsBan(c) == reply[c].status = "418" \/ reply[c].delay > MaxBackoff

\* A success, an error that is not a rate limit, or the last attempt refused:
\* no ban is recorded, whatever the status.
HandleFinal(c) ==
  /\ pc[c] = "answered"
  /\ ~Limited(c)
  /\ Ends(c)
  /\ UNCHANGED <<pause, ban>>

HandleBan(c) ==
  /\ pc[c] = "answered"
  /\ Limited(c) /\ IsBan(c)
  /\ pause' = reply[c].delay
  /\ Ends(c)
  /\ UNCHANGED ban

HandleBackoff(c) ==
  /\ pc[c] = "answered"
  /\ Limited(c) /\ ~IsBan(c)
  /\ pc' = [pc EXCEPT ![c] = "asleep"]
  /\ sleep' = [sleep EXCEPT ![c] = reply[c].delay]
  /\ reply' = [reply EXCEPT ![c] = NoReply]
  /\ UNCHANGED <<attempt, pause, ban, slept, intoBan>>

\* `continue`: the next attempt goes out, whatever happened meanwhile.
Retry(c) ==
  /\ pc[c] = "asleep"
  /\ sleep[c] = 0
  /\ pc' = [pc EXCEPT ![c] = "sent"]
  /\ attempt' = [attempt EXCEPT ![c] = Least(@ + 1, MaxRetries + 1)]
  /\ UNCHANGED <<reply, sleep, pause, ban, slept, intoBan>>
-----------------------------------------------------------------------------
(* The exchange. *)

\* While a ban lasts every request is answered 418, and may lengthen it; the
\* answer states what remains, or says nothing and the client assumes DefaultBan.
AnswerBanned(c) ==
  /\ pc[c] = "sent"
  /\ ban > 0
  /\ ban' \in {ban, LongestWait}
  /\ \E d \in {ban', DefaultBan} :
       reply' = [reply EXCEPT ![c] = [status |-> "418", delay |-> d]]
  /\ pc' = [pc EXCEPT ![c] = "answered"]
  /\ intoBan' = [intoBan EXCEPT ![c] = Least(@ + 1, 2)]
  /\ UNCHANGED <<attempt, sleep, pause, slept>>

\* Otherwise it answers, fails, or asks the client to slow down.
Answer(c) ==
  /\ pc[c] = "sent"
  /\ ban = 0
  /\ \E r \in {[status |-> s, delay |-> 0] : s \in {"ok", "failed"}}
              \cup [status : {"429"}, delay : Waits] :
       reply' = [reply EXCEPT ![c] = r]
  /\ pc' = [pc EXCEPT ![c] = "answered"]
  /\ UNCHANGED <<attempt, sleep, pause, ban, slept, intoBan>>

\* The IP is banned: by these requests, or by someone else's traffic.
Banned ==
  /\ ban = 0
  /\ ban' \in Waits \ {0}
  /\ UNCHANGED <<pc, attempt, reply, sleep, pause, slept, intoBan>>

Tick ==
  /\ ban > 0 \/ pause > 0 \/ \E c \in Calls : sleep[c] > 0
  /\ ban' = Less(ban)
  /\ pause' = Less(pause)
  /\ sleep' = [c \in Calls |-> Less(sleep[c])]
  /\ slept' = [c \in Calls |->
                IF sleep[c] > 0 THEN Least(slept[c] + 1, LongestSleep + 1) ELSE slept[c]]
  /\ UNCHANGED <<pc, attempt, reply, intoBan>>

Handle(c)   == HandleFinal(c) \/ HandleBan(c) \/ HandleBackoff(c)
Exchange(c) == AnswerBanned(c) \/ Answer(c)

Next ==
  \/ \E c \in Calls : Start(c) \/ Handle(c) \/ Retry(c) \/ Exchange(c)
  \/ Banned
  \/ Tick

Spec == Init /\ [][Next]_vars
-----------------------------------------------------------------------------
(* Properties. *)

\* rest.ts "Without Retry-After, backing off 2s/4s/8s would send three more
\* requests into it": one call sends at most one request into a ban.
OneRequestIntoBan == \A c \in Calls : intoBan[c] <= 1
=============================================================================
