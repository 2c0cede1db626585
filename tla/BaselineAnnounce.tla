--------------------------- MODULE BaselineAnnounce ---------------------------
(***************************************************************************)
(* Telling whether the gem scanner beats its own rejects: an hourly run    *)
(* reads the verdict of the recorded outcomes and the one announced last,  *)
(* and sends it when it is the first or another one.                       *)
(*                                                                         *)
(* How a verdict comes about is left out: it changes as it likes.  The text*)
(* is its verdict.                                                         *)
(***************************************************************************)
EXTENDS Naturals

CONSTANTS
  Runs,        \* runs that may be in flight
  Verdicts,    \* what the outcomes can say
  Configured,  \* chats of the configuration
  Subscribers, \* chats that may opt in
  MaxMoves,    \* bound: changes of the verdict and of the subscribers
  MaxFaults,   \* bound: failing queries and restarts
  None         \* not ready; nothing announced; nothing read

ConstantsOK == MaxMoves \in Nat /\ MaxFaults \in Nat

Chats == Configured \cup Subscribers
Maybe == Verdicts \cup {None}

VARIABLES
  verdict, \* baselineReadiness of the outcomes stored now
  opted,   \* subscribers whose alerts are on
  last,    \* gem_baseline_announcements: the newest verdict
  pc,      \* per run
  read,    \* per run: the verdict it read
  chats,   \* per run: the chats it has yet to send to
  moves, faults

vars == <<verdict, opted, last, pc, read, chats, moves, faults>>

TypeOK ==
  /\ verdict \in Maybe /\ last \in Maybe
  /\ opted \subseteq Subscribers
  /\ pc \in [Runs -> {"idle", "last", "recipients", "send"}]
  /\ read \in [Runs -> Maybe]
  /\ chats \in [Runs -> SUBSET Chats]
  /\ moves \in 0 .. MaxMoves /\ faults \in 0 .. MaxFaults
  /\ \A r \in Runs : pc[r] \in {"recipients", "send"} => read[r] \in Verdicts

Init ==
  /\ verdict = None /\ last = None
  /\ opted = {}
  /\ pc = [r \in Runs |-> "idle"]
  /\ read = [r \in Runs |-> None]
  /\ chats = [r \in Runs |-> {}]
  /\ moves = 0 /\ faults = 0
-----------------------------------------------------------------------------
Goto(r, place) == pc' = [pc EXCEPT ![r] = place]

\* A run ends, whatever ended it.
End(r) ==
  /\ Goto(r, "idle")
  /\ read' = [read EXCEPT ![r] = None]
  /\ chats' = [chats EXCEPT ![r] = {}]

\* getGemPerformance.
Begin(r) ==
  /\ pc[r] = "idle"
  /\ Goto(r, "last")
  /\ read' = [read EXCEPT ![r] = verdict]
  /\ UNCHANGED <<verdict, opted, last, chats, moves, faults>>

\* Mutant of IsNews: once.
IsFirst(found, announced) == found # None /\ announced = None

\* decideAnnouncement: ready, and the first verdict or another one.
IsNews(found, announced) == found # None /\ announced # found

Decide(r) ==
  /\ pc[r] = "last"
  /\ IF IsNews(read[r], last) THEN Goto(r, "recipients") /\ UNCHANGED <<read, chats>> ELSE End(r)
  /\ UNCHANGED <<verdict, opted, last, moves, faults>>

Recipients == Configured \cup opted

\* Nobody to tell is not recorded as announced.
Address(r) ==
  /\ pc[r] = "recipients"
  /\ IF Recipients = {} THEN End(r)
     ELSE Goto(r, "send") /\ chats' = [chats EXCEPT ![r] = Recipients] /\ UNCHANGED read
  /\ UNCHANGED <<verdict, opted, last, moves, faults>>

\* notifier.send never throws: the next chat is tried all the same.
Send(r) ==
  /\ pc[r] = "send"
  /\ \E c \in chats[r] :
       chats' = [chats EXCEPT ![r] = @ \ {c}]
  /\ UNCHANGED <<verdict, opted, last, pc, read, moves, faults>>

\* recordBaselineAnnouncement.
Record(r) ==
  /\ pc[r] = "send" /\ chats[r] = {}
  /\ last' = read[r]
  /\ End(r)
  /\ UNCHANGED <<verdict, opted, moves, faults>>

\* A query fails, or the process dies.
Fails(r) ==
  /\ pc[r] # "idle" /\ faults < MaxFaults
  /\ faults' = faults + 1
  /\ End(r)
  /\ UNCHANGED <<verdict, opted, last, moves>>

\* Outcomes are recorded, old ones pruned.
Turns ==
  /\ moves < MaxMoves
  /\ verdict' \in Maybe \ {verdict}
  /\ moves' = moves + 1
  /\ UNCHANGED <<opted, last, pc, read, chats, faults>>

\* /subscribe and /unsubscribe.
Opts(c) ==
  /\ moves < MaxMoves
  /\ opted' = IF c \in opted THEN opted \ {c} ELSE opted \cup {c}
  /\ moves' = moves + 1
  /\ UNCHANGED <<verdict, last, pc, read, chats, faults>>

Step(r) == Begin(r) \/ Decide(r) \/ Address(r) \/ Send(r) \/ Record(r)

Next ==
  \/ \E r \in Runs : Step(r) \/ Fails(r)
  \/ Turns
  \/ \E c \in Subscribers : Opts(c)

\* The timer fires every hour, and queries and sends come to an end.
Fairness == \A r \in Runs : WF_vars(Step(r))

Spec == Init /\ [][Next]_vars /\ Fairness
-----------------------------------------------------------------------------
(* Properties. *)

\* decideAnnouncement: a verdict that stands while there is somebody to tell is
\* announced in the end, the flip of an announced one too, whichever runs fail.
Told(v) == verdict = v /\ Recipients # {} => last = v
FlipIsTold == \A v \in Verdicts : []<>Told(v)
===============================================================================
