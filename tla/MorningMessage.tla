--------------------------- MODULE MorningMessage ---------------------------
(***************************************************************************)
(* What the morning digest promises: a day is opened at most once, and     *)
(* once it is open each chat is sent that day's message at most once.      *)
(* Nothing promises that every day is opened, or every chat reached.       *)
(***************************************************************************)
EXTENDS Naturals

CONSTANTS Days, Chats

VARIABLES
  open,  \* the days whose message has been started
  count  \* how many times each chat was sent each day's message

mVars == <<open, count>>

Init ==
  /\ open = {}
  /\ count = [d \in Days |-> [c \in Chats |-> 0]]

Open(d) ==
  /\ d \notin open
  /\ open' = open \cup {d}
  /\ UNCHANGED count

Tell(d, c) ==
  /\ d \in open
  /\ count[d][c] = 0
  /\ count' = [count EXCEPT ![d][c] = 1]
  /\ UNCHANGED open

Next ==
  \/ \E d \in Days : Open(d)
  \/ \E d \in Days, c \in Chats : Tell(d, c)

Spec == Init /\ [][Next]_mVars
=============================================================================
