----------------------------- MODULE HealthAlerts -----------------------------
(***************************************************************************)
(* The alerts on the system itself: every fifteen minutes a cycle collects *)
(* what is broken, tells what is new and what is over, and keeps what it   *)
(* has told in memory.                                                     *)
(*                                                                         *)
(* What makes a stream, a symbol or a job count as broken is left out:     *)
(* issues open and close as they like.  So are the texts.                  *)
(***************************************************************************)
EXTENDS Naturals

CONSTANTS
  Cycles,    \* cycles that may be in flight
  OfRuntime, \* issues read off the runtime row: memory, connections
  OfTables,  \* issues read after it: symbols, jobs
  Heartbeat, \* the issue that hides the others
  Chats,     \* chats of the configuration
  MaxMoves,  \* bound: issues that open or close
  MaxFaults  \* bound: failing queries and restarts

ConstantsOK == MaxMoves \in Nat /\ MaxFaults \in Nat

Issues == OfRuntime \cup OfTables
Keys   == Issues \cup {Heartbeat}

VARIABLES
  broken,    \* issues there are now; the heartbeat is one of them when stale
  announced, \* the keys told, in memory
  said,      \* history: what this process said of a key last
  pc,        \* per cycle
  found,     \* per cycle: the keys collected
  unsent,    \* per cycle: messages to be sent, first those of what opened
  moves, faults

vars == <<broken, announced, said, pc, found, unsent, moves, faults>>

Messages == {"opened", "closed"} \X Chats

TypeOK ==
  /\ broken \subseteq Keys /\ announced \subseteq Keys
  /\ said \in [Keys -> {"nothing", "opened", "closed"}]
  /\ pc \in [Cycles -> {"idle", "tables", "compare", "send"}]
  /\ found \in [Cycles -> SUBSET Keys]
  /\ unsent \in [Cycles -> SUBSET Messages]
  /\ moves \in 0 .. MaxMoves /\ faults \in 0 .. MaxFaults

Init ==
  /\ broken = {} /\ announced = {}
  /\ said = [k \in Keys |-> "nothing"]
  /\ pc = [r \in Cycles |-> "idle"]
  /\ found = [r \in Cycles |-> {}]
  /\ unsent = [r \in Cycles |-> {}]
  /\ moves = 0 /\ faults = 0
-----------------------------------------------------------------------------
Goto(r, place) == pc' = [pc EXCEPT ![r] = place]

\* getWorkerRuntime.  A stale heartbeat is reported alone.
ReadRuntime(r) ==
  /\ pc[r] = "idle" /\ Chats # {}
  /\ IF Heartbeat \in broken
       THEN Goto(r, "compare") /\ found' = [found EXCEPT ![r] = {Heartbeat}]
       ELSE Goto(r, "tables") /\ found' = [found EXCEPT ![r] = broken \cap OfRuntime]
  /\ UNCHANGED <<broken, announced, said, unsent, moves, faults>>

\* The snapshots and getAllJobHealth.
ReadTables(r) ==
  /\ pc[r] = "tables"
  /\ Goto(r, "compare")
  /\ found' = [found EXCEPT ![r] = @ \cup (broken \cap OfTables)]
  /\ UNCHANGED <<broken, announced, said, unsent, moves, faults>>

\* diffIssues.
Opened(r) == found[r] \ announced
Closed(r) == announced \ found[r]

\* Mutant of Remembered: only what opened.
RememberedForGood(r) == announced \cup found[r]

\* The keys told once the messages are: those found, at once, before any is sent.
Remembered(r) == found[r]

Compare(r) ==
  /\ pc[r] = "compare"
  /\ announced' = Remembered(r)
  /\ said' = [k \in Keys |-> IF k \in Opened(r) THEN "opened" ELSE IF k \in Closed(r) THEN "closed" ELSE said[k]]
  /\ unsent' = [unsent EXCEPT ![r] =
       (IF Opened(r) # {} THEN {"opened"} \X Chats ELSE {}) \cup (IF Closed(r) # {} THEN {"closed"} \X Chats ELSE {})]
  /\ found' = [found EXCEPT ![r] = {}]
  /\ Goto(r, "send")
  /\ UNCHANGED <<broken, moves, faults>>

\* A send that fails is logged; what opened goes first.
Send(r) ==
  /\ pc[r] = "send"
  /\ \E m \in unsent[r] :
       /\ m[1] = "opened" \/ unsent[r] \cap ({"opened"} \X Chats) = {}
       /\ unsent' = [unsent EXCEPT ![r] = @ \ {m}]
  /\ UNCHANGED <<broken, announced, said, pc, found, moves, faults>>

Done(r) ==
  /\ pc[r] = "send" /\ unsent[r] = {}
  /\ Goto(r, "idle")
  /\ UNCHANGED <<broken, announced, said, found, unsent, moves, faults>>

\* A query fails and the cycle with it.
Fails(r) ==
  /\ pc[r] = "tables" /\ faults < MaxFaults
  /\ faults' = faults + 1
  /\ Goto(r, "idle")
  /\ found' = [found EXCEPT ![r] = {}]
  /\ UNCHANGED <<broken, announced, said, unsent, moves>>

\* "a restart legitimately re-announces whatever is still broken".
Restart ==
  /\ faults < MaxFaults
  /\ faults' = faults + 1
  /\ announced' = {}
  /\ said' = [k \in Keys |-> "nothing"]
  /\ pc' = [r \in Cycles |-> "idle"]
  /\ found' = [r \in Cycles |-> {}]
  /\ unsent' = [r \in Cycles |-> {}]
  /\ UNCHANGED <<broken, moves>>

\* Something breaks or mends.
Changes(k) ==
  /\ moves < MaxMoves
  /\ moves' = moves + 1
  /\ broken' = IF k \in broken THEN broken \ {k} ELSE broken \cup {k}
  /\ UNCHANGED <<announced, said, pc, found, unsent, faults>>

Step(r) == ReadRuntime(r) \/ ReadTables(r) \/ Compare(r) \/ Send(r) \/ Done(r)

Next ==
  \/ \E r \in Cycles : Step(r) \/ Fails(r)
  \/ Restart
  \/ \E k \in Keys : Changes(k)

\* The timer fires every fifteen minutes, and queries and sends come to an end.
Fairness == \A r \in Cycles : WF_vars(Step(r))

Spec == Init /\ [][Next]_vars /\ Fairness
-----------------------------------------------------------------------------
(* Properties. *)

\* "it says a thing broke once, says it recovered once": whatever cycles overlap
\* or fail, the last word on an issue that stands is in the end that it is there,
\* and on one that is over that it is not.  A stale heartbeat hides the others.
Visible(k) == k \in broken /\ (k = Heartbeat \/ Heartbeat \notin broken)
LastWordIs(k) == Visible(k) <=> said[k] = "opened"
LastWordIsTrue == \A k \in Keys : []<>LastWordIs(k)
=============================================================================
