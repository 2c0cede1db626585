--------------------------- MODULE TrackersProofs ---------------------------
(***************************************************************************)
(* The safety of the Binance clients and of the trackers, for every value  *)
(* of the constants.  Each section gives the variables of Trackers the     *)
(* names its component has for them, finds the component's inductive       *)
(* invariant, and proves that its steps keep it; the last one puts them    *)
(* together into one of Trackers.                                          *)
(***************************************************************************)
EXTENDS Trackers, WellFoundedInduction, TLAPS

\* A set of naturals that is not empty has a least one.
LEMMA LeastExists ==
  ASSUME NEW S, S \subseteq Nat, S # {}
  PROVE  \E x \in S : \A y \in S : x <= y
<1> DEFINE R == OpToRel(<, Nat)
<1>1. IsWellFoundedOn(R, Nat)
  BY NatLessThanWellFounded
<1>2. \A x, y \in Nat : y < x => <<y, x>> \in R
  BY DEF OpToRel
<1> HIDE DEF R
<1>3. PICK x \in S : \A y \in S : ~(<<y, x>> \in R)
  BY <1>1, WFMin
<1>4. ASSUME NEW y \in S PROVE x <= y
  <2>1. ~(y < x)
    BY <1>2, <1>3
  <2> QED BY <2>1
<1> QED BY <1>4

-----------------------------------------------------------------------------
(* CombinedStreamClient. *)

streamOpts == v1
streamConn == v2
streamClosedByUser == v3
streamStatus == v4
streamAge == v5
streamSilence == v6
streamStaleArmed == v7
streamWatchArmed == v8
streamCheckDue == v9
streamReconnects == v10
streamGaveUp == v11
streamServed == v12
streamMute == v13
streamUpFor == v14
USE DEF streamOpts, streamConn, streamClosedByUser, streamStatus, streamAge, streamSilence,
     streamStaleArmed, streamWatchArmed, streamCheckDue, streamReconnects, streamGaveUp,
     streamServed, streamMute, streamUpFor

\* A check that is due has its timer, the timer is of a client that watches its
\* streams, and on it no stream is older than the connection.
SocketInv ==
  /\ Stream!TypeOK /\ Stream!NoOrphanTimer
  /\ streamCheckDue => streamWatchArmed
  /\ streamWatchArmed => \A s \in StreamConfig.streams : streamAge[s] <= streamUpFor

\* What the socket's events leave.
LEMMA SocketStepKeeps ==
  ASSUME Stream!ConstantsOK, SocketInv, Stream!SocketStep
  PROVE  SocketInv'
<1>0. streamOpts.perStream \in BOOLEAN /\ streamOpts.staleAfter \in Nat
  BY DEF Stream!ConstantsOK, SocketInv, Stream!TypeOK
<1>1. CASE Stream!Connect
  BY <1>1 DEF Stream!Connect, SocketInv, Stream!TypeOK, Stream!NoOrphanTimer, Stream!stale,
       Stream!watch, Stream!verdict, Stream!world
<1>2. CASE Stream!Opened
  <2>1. /\ streamAge' \in [StreamConfig.streams -> 0 .. streamOpts.staleAfter + 1]
        /\ streamUpFor' \in 0 .. streamOpts.staleAfter + 1
    BY <1>0, <1>2 DEF Stream!Opened, Stream!ArmPerStream, SocketInv, Stream!TypeOK
  <2>2. streamWatchArmed' => \A s \in StreamConfig.streams : streamAge'[s] <= streamUpFor'
    BY <1>0, <1>2 DEF Stream!Opened, Stream!ArmPerStream, SocketInv, Stream!TypeOK
  <2>3. streamSilence' \in 0 .. StreamConfig.silentAfter
    BY <1>2 DEF Stream!Opened, Stream!ArmStale, Stream!ConstantsOK
  <2> QED BY <1>0, <1>2, <2>1, <2>2, <2>3
        DEF Stream!Opened, Stream!ArmStale, Stream!ArmPerStream, SocketInv, Stream!TypeOK,
        Stream!NoOrphanTimer, Stream!verdict
<1>3. CASE Stream!Errored
  BY <1>3 DEF Stream!Errored, SocketInv, Stream!TypeOK, Stream!NoOrphanTimer, Stream!stale,
       Stream!watch, Stream!verdict, Stream!world
<1>4. CASE Stream!Dropped
  BY <1>4 DEF Stream!Dropped, SocketInv, Stream!TypeOK, Stream!NoOrphanTimer, Stream!stale,
       Stream!watch, Stream!verdict, Stream!world
<1>5. CASE Stream!Closed
  BY <1>5 DEF Stream!Closed, Stream!ClearWatchdogs, SocketInv, Stream!TypeOK,
       Stream!NoOrphanTimer, Stream!verdict, Stream!world
<1>6. CASE Stream!UserClose
  BY <1>6 DEF Stream!UserClose, Stream!ClearWatchdogs, SocketInv, Stream!TypeOK,
       Stream!NoOrphanTimer, Stream!verdict, Stream!world
<1> QED BY <1>1, <1>2, <1>3, <1>4, <1>5, <1>6 DEF Stream!SocketStep

\* What the checks of the streams leave.
LEMMA CheckKeeps ==
  ASSUME Stream!ConstantsOK, SocketInv, Stream!CheckStep
  PROVE  SocketInv'
<1>1. CASE Stream!CheckHealthy
  <2>1. streamReconnects' \in 0 .. StreamConfig.maxReconnects
    BY <1>1 DEF Stream!CheckHealthy, Stream!ConstantsOK
  <2> QED BY <1>1, <2>1 DEF Stream!CheckHealthy, Stream!Checked, SocketInv, Stream!TypeOK,
       Stream!NoOrphanTimer, Stream!stale, Stream!world
<1>2. CASE Stream!CheckForces
  <2>1. streamReconnects' \in 0 .. StreamConfig.maxReconnects
    BY <1>2 DEF Stream!CheckForces, Stream!MayForce, Stream!ConstantsOK, SocketInv, Stream!TypeOK
  <2> QED BY <1>2, <2>1 DEF Stream!CheckForces, Stream!Checked, Stream!Terminate, SocketInv,
       Stream!TypeOK, Stream!NoOrphanTimer, Stream!stale, Stream!world
<1>3. CASE Stream!CheckGivesUp
  BY <1>3 DEF Stream!CheckGivesUp, Stream!Checked, SocketInv, Stream!TypeOK, Stream!NoOrphanTimer,
       Stream!stale, Stream!world
<1> QED BY <1>1, <1>2, <1>3 DEF Stream!CheckStep

\* Each step keeps it.
LEMMA StreamStep ==
  ASSUME Stream!ConstantsOK, SocketInv, Stream!Next \/ UNCHANGED Stream!vars
  PROVE  SocketInv'
<1>0. streamOpts.perStream \in BOOLEAN /\ streamOpts.staleAfter \in Nat
  BY DEF Stream!ConstantsOK, SocketInv, Stream!TypeOK
<1>1. ASSUME NEW s \in StreamConfig.streams, Stream!Message(s)
      PROVE  SocketInv'
  <2>1. streamAge' \in [StreamConfig.streams -> 0 .. streamOpts.staleAfter + 1]
    BY <1>0, <1>1 DEF Stream!Message, SocketInv, Stream!TypeOK
  <2>2. streamWatchArmed => \A x \in StreamConfig.streams : streamAge'[x] <= streamUpFor
    BY <1>0, <1>1 DEF Stream!Message, SocketInv, Stream!TypeOK
  <2>3. streamSilence' \in 0 .. StreamConfig.silentAfter
    BY <1>1 DEF Stream!Message, Stream!ArmStale, Stream!ConstantsOK
  <2> QED BY <1>1, <2>1, <2>2, <2>3
        DEF Stream!Message, Stream!ArmStale, SocketInv, Stream!TypeOK, Stream!NoOrphanTimer,
        Stream!socket, Stream!watch, Stream!verdict, Stream!world
<1>2. CASE Stream!Ping
  <2>1. streamSilence' \in 0 .. StreamConfig.silentAfter
    BY <1>2 DEF Stream!Ping, Stream!ArmStale, Stream!ConstantsOK
  <2> QED BY <1>2, <2>1 DEF Stream!Ping, Stream!ArmStale, SocketInv, Stream!TypeOK,
       Stream!NoOrphanTimer, Stream!socket, Stream!watch, Stream!verdict, Stream!world
<1>3. CASE Stream!StaleFires
  BY <1>3 DEF Stream!StaleFires, Stream!Terminate, SocketInv, Stream!TypeOK, Stream!NoOrphanTimer,
       Stream!watch, Stream!verdict, Stream!world
<1>4. CASE Stream!Elapse
  <2>1. /\ streamAge' \in [StreamConfig.streams -> 0 .. streamOpts.staleAfter + 1]
        /\ streamUpFor' \in 0 .. streamOpts.staleAfter + 1
    BY <1>0, <1>4 DEF Stream!Elapse, Stream!Least, SocketInv, Stream!TypeOK
  <2>2. streamWatchArmed => \A s \in StreamConfig.streams : streamAge'[s] <= streamUpFor'
    BY <1>0, <1>4 DEF Stream!Elapse, Stream!Least, SocketInv, Stream!TypeOK
  <2>3. streamSilence' \in 0 .. StreamConfig.silentAfter
    BY <1>4 DEF Stream!Elapse, Stream!Least, Stream!ConstantsOK, SocketInv, Stream!TypeOK
  <2> QED BY <1>4, <2>1, <2>2, <2>3 DEF Stream!Elapse, SocketInv, Stream!TypeOK,
       Stream!NoOrphanTimer, Stream!socket, Stream!verdict, Stream!world
<1>5. ASSUME NEW s \in StreamConfig.streams, Stream!ServedChanges(s)
      PROVE  SocketInv'
  BY <1>5 DEF Stream!ServedChanges, SocketInv, Stream!TypeOK, Stream!NoOrphanTimer, Stream!socket,
       Stream!stale, Stream!watch, Stream!verdict
<1>6. CASE Stream!GoesMute
  BY <1>6 DEF Stream!GoesMute, SocketInv, Stream!TypeOK, Stream!NoOrphanTimer, Stream!socket,
       Stream!stale, Stream!watch, Stream!verdict
<1>7. CASE UNCHANGED Stream!vars
  BY <1>7 DEF Stream!vars, SocketInv, Stream!TypeOK, Stream!NoOrphanTimer, Stream!socket,
       Stream!stale, Stream!watch, Stream!verdict, Stream!world
<1> QED BY <1>1, <1>2, <1>3, <1>4, <1>5, <1>6, <1>7, SocketStepKeeps, CheckKeeps DEF Stream!Next

\* Nothing is armed before the first connection.
LEMMA StreamInit == ASSUME Stream!ConstantsOK, Stream!Init PROVE SocketInv
<1>0. streamOpts.perStream \in BOOLEAN /\ streamOpts.staleAfter \in Nat
  BY DEF Stream!ConstantsOK, Stream!Init
<1>1. /\ streamAge \in [StreamConfig.streams -> 0 .. streamOpts.staleAfter + 1]
      /\ streamUpFor \in 0 .. streamOpts.staleAfter + 1
  BY <1>0 DEF Stream!Init
<1>2. /\ streamSilence \in 0 .. StreamConfig.silentAfter
      /\ streamReconnects \in 0 .. StreamConfig.maxReconnects
  BY DEF Stream!Init, Stream!ConstantsOK
<1> QED BY <1>0, <1>1, <1>2 DEF Stream!Init, SocketInv, Stream!TypeOK, Stream!NoOrphanTimer

\* A quiet stream of a check is older than the window, and its connection is no younger.
LEMMA StreamForces ==
  ASSUME Stream!ConstantsOK, SocketInv, Stream!Next \/ UNCHANGED Stream!vars
  PROVE  Stream!AfterFullWindow
<1> SUFFICES ASSUME streamReconnects' > streamReconnects
             PROVE  streamUpFor > streamOpts.staleAfter
  BY DEF Stream!AfterFullWindow
<1>0. streamOpts.staleAfter \in Nat /\ streamReconnects \in Nat
  BY DEF Stream!ConstantsOK, SocketInv, Stream!TypeOK
<1>1. Stream!CheckForces
  <2>1. ~Stream!CheckHealthy
    BY <1>0 DEF Stream!CheckHealthy
  <2>2. streamReconnects' = streamReconnects => Stream!CheckForces
    BY <1>0
  <2>3. UNCHANGED streamReconnects \/ Stream!CheckForces
    BY <2>1 DEF Stream!Next, Stream!vars, Stream!verdict, Stream!SocketStep, Stream!Connect,
         Stream!Opened, Stream!Errored, Stream!Dropped, Stream!Closed, Stream!UserClose,
         Stream!Message,
         Stream!Ping, Stream!StaleFires, Stream!Elapse, Stream!ServedChanges, Stream!GoesMute,
         Stream!CheckStep, Stream!CheckGivesUp
  <2> QED BY <2>2, <2>3
<1>2. PICK s \in StreamConfig.streams : streamAge[s] > streamOpts.staleAfter
  BY <1>1 DEF Stream!CheckForces, Stream!MayForce, Stream!Quiet
<1>3. streamAge[s] <= streamUpFor /\ streamAge[s] \in Nat /\ streamUpFor \in Nat
  BY <1>0, <1>1 DEF Stream!CheckForces, Stream!Checked, SocketInv, Stream!TypeOK
<1> QED BY <1>0, <1>2, <1>3

-----------------------------------------------------------------------------
(* BinanceRestClient. *)

restAttempt == v1
restReply == v2
restSleep == v3
restPause == v4
restBan == v5
restSlept == v6
restIntoBan == v7
USE DEF restAttempt, restReply, restSleep, restPause, restBan, restSlept, restIntoBan

\* What `n` waits may take in all.
Budget(n) == n * RestConfig.maxBackoff

\* A call that was told of the ban does not go on: it is sent to no attempt again.
\* And each of its waits is one backoff: it never has waited, with what it still has
\* to wait, longer than its attempts allow.
CallInv(c) ==
  /\ pc[c] \in {"sent", "asleep"} => restIntoBan[c] = 0
  /\ pc[c] = "answered" => restIntoBan[c] <= 1 /\ (restIntoBan[c] = 1 => restReply[c].status = "418")
  /\ restIntoBan[c] <= 1
  /\ restSleep[c] > 0 => pc[c] = "asleep"
  /\ pc[c] = "asleep" => restAttempt[c] <= RestConfig.maxRetries
       /\ restSlept[c] + restSleep[c] <= Budget(restAttempt[c])
  /\ pc[c] \in {"sent", "answered"} => restSlept[c] <= Budget(restAttempt[c] - 1)
  /\ restSlept[c] + restSleep[c] <= Rest!LongestSleep

RetryInv == Rest!TypeOK /\ \A c \in RestConfig.calls : CallInv(c)

\* A wait more fits in the budget of one attempt more.
LEMMA BudgetGrows ==
  ASSUME Rest!ConstantsOK
  PROVE  /\ \A n \in Nat : Budget(n) \in Nat /\ Budget(n + 1) = Budget(n) + RestConfig.maxBackoff
         /\ \A n \in 0 .. RestConfig.maxRetries : Budget(n) <= Rest!LongestSleep
         /\ Rest!LongestSleep \in Nat /\ Budget(0) = 0
<1>1. RestConfig.maxBackoff \in Nat /\ RestConfig.maxRetries \in Nat
  BY DEF Rest!ConstantsOK
<1>2. \A n \in Nat : n * RestConfig.maxBackoff \in Nat
        /\ (n + 1) * RestConfig.maxBackoff = n * RestConfig.maxBackoff + RestConfig.maxBackoff
  BY <1>1
<1>3. ASSUME NEW n \in 0 .. RestConfig.maxRetries
      PROVE  n * RestConfig.maxBackoff <= RestConfig.maxRetries * RestConfig.maxBackoff
  <2>1. PICK k \in Nat : RestConfig.maxRetries = n + k
    <3>1. RestConfig.maxRetries - n \in Nat /\ RestConfig.maxRetries = n + (RestConfig.maxRetries - n)
      BY <1>1
    <3> QED BY <3>1
  <2>2. RestConfig.maxRetries * RestConfig.maxBackoff = n * RestConfig.maxBackoff + k * RestConfig.maxBackoff
    BY <1>1, <2>1
  <2>3. k * RestConfig.maxBackoff \in Nat /\ n * RestConfig.maxBackoff \in Nat
    BY <1>1, <2>1
  <2> QED BY <2>2, <2>3
<1>4. RestConfig.maxRetries * RestConfig.maxBackoff \in Nat /\ 0 * RestConfig.maxBackoff = 0
  BY <1>1
<1> QED BY <1>2, <1>3, <1>4 DEF Budget, Rest!LongestSleep

\* A step of one call, from what it leaves of that call.
LEMMA OneCall ==
  ASSUME RetryInv, NEW c \in RestConfig.calls, Rest!TypeOK', CallInv(c)',
         \A d \in RestConfig.calls \ {c} : /\ pc'[d] = pc[d] /\ restAttempt'[d] = restAttempt[d]
                                           /\ restReply'[d] = restReply[d]
                                           /\ restSleep'[d] = restSleep[d]
                                           /\ restSlept'[d] = restSlept[d]
                                           /\ restIntoBan'[d] = restIntoBan[d]
  PROVE  RetryInv'
<1>1. ASSUME NEW d \in RestConfig.calls \ {c}
      PROVE  CallInv(d)'
  BY <1>1 DEF RetryInv, CallInv
<1> QED BY <1>1 DEF RetryInv

\* The waits of a call, in the terms of TypeOK.
LEMMA WaitsTyped ==
  ASSUME Rest!ConstantsOK, Rest!TypeOK, NEW c \in RestConfig.calls
  PROVE  /\ restAttempt[c] \in 1 .. RestConfig.maxRetries + 1 /\ restAttempt[c] \in Nat
         /\ restAttempt[c] - 1 \in 0 .. RestConfig.maxRetries
         /\ restSleep[c] \in Nat /\ restSleep[c] <= RestConfig.longestWait /\ restSlept[c] \in Nat
         /\ restIntoBan[c] \in 0 .. 2
         /\ RestConfig.maxRetries \in Nat /\ RestConfig.maxBackoff \in Nat
         /\ RestConfig.longestWait \in Nat /\ RestConfig.defaultBan \in Rest!Waits
         /\ restReply[c].status \in {"ok", "failed", "429", "418"}
         /\ restReply[c].delay \in Rest!Waits
         /\ restPause \in Rest!Waits /\ restBan \in Rest!Waits
BY DEF Rest!ConstantsOK, Rest!TypeOK, Rest!Waits, Rest!Replies, Rest!LongestSleep

\* Each step keeps it.
LEMMA RestStep ==
  ASSUME Rest!ConstantsOK, RetryInv, Rest!Next \/ UNCHANGED Rest!vars
  PROVE  RetryInv'
<1>1. ASSUME NEW c \in RestConfig.calls, Rest!Start(c)
      PROVE  RetryInv'
  <2>0. restSleep[c] = 0
    BY <1>1, WaitsTyped DEF Rest!Start, RetryInv, CallInv
  <2>1. /\ pc' = [pc EXCEPT ![c] = "sent"] /\ restAttempt' = [restAttempt EXCEPT ![c] = 1]
        /\ restSlept' = [restSlept EXCEPT ![c] = 0] /\ restIntoBan' = [restIntoBan EXCEPT ![c] = 0]
        /\ UNCHANGED <<restReply, restSleep, restPause, restBan>>
    BY <1>1 DEF Rest!Start
  <2>2. pc'[c] = "sent" /\ restAttempt'[c] = 1 /\ restSlept'[c] = 0 /\ restIntoBan'[c] = 0
    BY <2>1 DEF RetryInv, Rest!TypeOK
  <2>3. Rest!LongestSleep \in Nat /\ 1 \in 1 .. RestConfig.maxRetries + 1
    BY BudgetGrows DEF Rest!ConstantsOK
  <2>4. Rest!TypeOK'
    BY <2>0, <2>1, <2>3 DEF RetryInv, Rest!TypeOK
  <2>5. CallInv(c)'
    BY <2>0, <2>1, <2>2, <2>3, BudgetGrows DEF CallInv
  <2> QED BY <2>1, <2>4, <2>5, OneCall DEF RetryInv, Rest!TypeOK
<1>2. ASSUME NEW c \in RestConfig.calls, Rest!Ends(c), pc[c] = "answered", restPause' \in Rest!Waits,
               UNCHANGED restBan
      PROVE  RetryInv'
  <2>0. restSleep[c] = 0 /\ restIntoBan[c] <= 1
    BY <1>2, WaitsTyped DEF RetryInv, CallInv
  <2>1. Rest!NoReply \in Rest!Replies
    BY DEF Rest!NoReply, Rest!Replies, Rest!Waits, Rest!ConstantsOK
  <2>2. Rest!TypeOK'
    BY <1>2, <2>1 DEF Rest!Ends, RetryInv, Rest!TypeOK
  <2>3. CallInv(c)'
    BY <1>2, <2>0 DEF Rest!Ends, RetryInv, Rest!TypeOK, CallInv
  <2> QED BY <1>2, <2>2, <2>3, OneCall DEF Rest!Ends, RetryInv, Rest!TypeOK
<1>3. ASSUME NEW c \in RestConfig.calls, Rest!HandleFinal(c)
      PROVE  RetryInv'
  BY <1>2, <1>3 DEF Rest!HandleFinal, RetryInv, Rest!TypeOK
<1>4. ASSUME NEW c \in RestConfig.calls, Rest!HandleBan(c)
      PROVE  RetryInv'
  BY <1>2, <1>4, WaitsTyped DEF Rest!HandleBan, RetryInv
<1>5. ASSUME NEW c \in RestConfig.calls, Rest!HandleBackoff(c)
      PROVE  RetryInv'
  <2>0. restSleep[c] = 0 /\ restIntoBan[c] = 0 /\ restSlept[c] <= Budget(restAttempt[c] - 1)
    BY <1>5, WaitsTyped DEF Rest!HandleBackoff, Rest!IsBan, RetryInv, CallInv
  <2>1. /\ restReply[c].delay \in Rest!Waits /\ restReply[c].delay <= RestConfig.maxBackoff
        /\ restAttempt[c] <= RestConfig.maxRetries
    BY <1>5, WaitsTyped DEF Rest!HandleBackoff, Rest!IsBan, Rest!Limited, RetryInv, Rest!Waits
  <2>2. /\ restSlept[c] + restReply[c].delay <= Budget(restAttempt[c])
        /\ Budget(restAttempt[c]) <= Rest!LongestSleep
    <3>1. /\ restAttempt[c] - 1 \in Nat /\ (restAttempt[c] - 1) + 1 = restAttempt[c]
          /\ restAttempt[c] \in 0 .. RestConfig.maxRetries
      BY <2>1, WaitsTyped DEF RetryInv
    <3>2. /\ Budget(restAttempt[c]) = Budget(restAttempt[c] - 1) + RestConfig.maxBackoff
          /\ Budget(restAttempt[c] - 1) \in Nat
      BY <3>1, BudgetGrows
    <3>3. Budget(restAttempt[c]) <= Rest!LongestSleep
      BY <3>1, BudgetGrows
    <3> QED BY <2>0, <2>1, <3>2, <3>3, WaitsTyped DEF RetryInv, Rest!Waits
  <2>3. Rest!NoReply \in Rest!Replies
    BY DEF Rest!NoReply, Rest!Replies, Rest!Waits, Rest!ConstantsOK
  <2>4. /\ pc' = [pc EXCEPT ![c] = "asleep"]
        /\ restSleep' = [restSleep EXCEPT ![c] = restReply[c].delay]
        /\ restReply' = [restReply EXCEPT ![c] = Rest!NoReply]
        /\ UNCHANGED <<restAttempt, restPause, restBan, restSlept, restIntoBan>>
    BY <1>5 DEF Rest!HandleBackoff
  <2>5. pc'[c] = "asleep" /\ restSleep'[c] = restReply[c].delay
    BY <2>4 DEF RetryInv, Rest!TypeOK
  <2>6. \A d \in RestConfig.calls : restSlept'[d] + restSleep'[d] <= Rest!LongestSleep
    <3>1. restSlept[c] + restReply[c].delay <= Rest!LongestSleep
      BY <2>1, <2>2, WaitsTyped, BudgetGrows DEF RetryInv, Rest!Waits
    <3> QED BY <2>4, <3>1 DEF RetryInv, Rest!TypeOK
  <2>7. Rest!TypeOK'
    BY <2>1, <2>3, <2>4, <2>6 DEF RetryInv, Rest!TypeOK
  <2>8. CallInv(c)'
    BY <2>0, <2>1, <2>2, <2>4, <2>5, <2>6 DEF CallInv
  <2> QED BY <2>4, <2>7, <2>8, OneCall DEF RetryInv, Rest!TypeOK
<1>6. ASSUME NEW c \in RestConfig.calls, Rest!Retry(c)
      PROVE  RetryInv'
  <2>0. /\ restSleep[c] = 0 /\ restIntoBan[c] = 0 /\ restAttempt[c] <= RestConfig.maxRetries
        /\ restSlept[c] <= Budget(restAttempt[c]) /\ restSlept[c] <= Rest!LongestSleep
    BY <1>6, WaitsTyped, BudgetGrows DEF Rest!Retry, RetryInv, CallInv
  <2>1. /\ pc' = [pc EXCEPT ![c] = "sent"]
        /\ UNCHANGED <<restReply, restSleep, restPause, restBan, restSlept, restIntoBan>>
        /\ restAttempt' = [restAttempt EXCEPT ![c] = restAttempt[c] + 1]
    <3>1. Rest!Least(restAttempt[c] + 1, RestConfig.maxRetries + 1) = restAttempt[c] + 1
      BY <2>0, WaitsTyped DEF Rest!Least, RetryInv
    <3> QED BY <1>6, <3>1 DEF Rest!Retry
  <2>2. /\ pc'[c] = "sent" /\ restAttempt'[c] = restAttempt[c] + 1
        /\ restAttempt'[c] - 1 = restAttempt[c]
    BY <2>1, WaitsTyped DEF RetryInv, Rest!TypeOK
  <2>3. restAttempt[c] + 1 \in 1 .. RestConfig.maxRetries + 1
    BY <2>0, WaitsTyped DEF RetryInv
  <2>4. Rest!TypeOK'
    BY <2>1, <2>3 DEF RetryInv, Rest!TypeOK
  <2>5. CallInv(c)'
    BY <2>0, <2>1, <2>2, WaitsTyped DEF RetryInv, CallInv
  <2> QED BY <2>1, <2>4, <2>5, OneCall DEF RetryInv, Rest!TypeOK
<1>7. ASSUME NEW c \in RestConfig.calls, Rest!AnswerBanned(c)
      PROVE  RetryInv'
  <2>0. restSleep[c] = 0 /\ restIntoBan[c] = 0
    BY <1>7, WaitsTyped DEF Rest!AnswerBanned, RetryInv, CallInv
  <2>1. PICK d \in {restBan', RestConfig.defaultBan} :
               restReply' = [restReply EXCEPT ![c] = [status |-> "418", delay |-> d]]
    BY <1>7 DEF Rest!AnswerBanned
  <2>2. restBan' \in Rest!Waits /\ d \in Rest!Waits
    BY <1>7, WaitsTyped DEF Rest!AnswerBanned, RetryInv, Rest!Waits
  <2>3. /\ pc' = [pc EXCEPT ![c] = "answered"]
        /\ UNCHANGED <<restAttempt, restSleep, restPause, restSlept>>
        /\ restIntoBan' = [restIntoBan EXCEPT ![c] = 1]
    BY <1>7, <2>0 DEF Rest!AnswerBanned, Rest!Least, RetryInv, Rest!TypeOK
  <2>4. [status |-> "418", delay |-> d] \in Rest!Replies
    BY <2>2 DEF Rest!Replies
  <2>5. Rest!TypeOK'
    BY <2>1, <2>2, <2>3, <2>4 DEF RetryInv, Rest!TypeOK
  <2>6. pc'[c] = "answered" /\ restIntoBan'[c] = 1 /\ restReply'[c].status = "418"
    BY <2>1, <2>3 DEF RetryInv, Rest!TypeOK
  <2>7. CallInv(c)'
    BY <1>7, <2>0, <2>3, <2>6 DEF Rest!AnswerBanned, RetryInv, CallInv
  <2> QED BY <2>1, <2>3, <2>5, <2>7, OneCall DEF RetryInv, Rest!TypeOK
<1>8. ASSUME NEW c \in RestConfig.calls, Rest!Answer(c)
      PROVE  RetryInv'
  <2>0. restSleep[c] = 0 /\ restIntoBan[c] = 0
    BY <1>8, WaitsTyped DEF Rest!Answer, RetryInv, CallInv
  <2>1. PICK r \in {[status |-> s, delay |-> 0] : s \in {"ok", "failed"}} \cup [status : {"429"},
               delay : Rest!Waits] :
          restReply' = [restReply EXCEPT ![c] = r]
    BY <1>8 DEF Rest!Answer
  <2>2. r \in Rest!Replies
    BY DEF Rest!Replies, Rest!Waits, Rest!ConstantsOK
  <2>3. /\ pc' = [pc EXCEPT ![c] = "answered"]
        /\ UNCHANGED <<restAttempt, restSleep, restPause, restBan, restSlept, restIntoBan>>
    BY <1>8 DEF Rest!Answer
  <2>4. Rest!TypeOK'
    BY <2>1, <2>2, <2>3 DEF RetryInv, Rest!TypeOK
  <2>5. CallInv(c)'
    BY <1>8, <2>0, <2>3 DEF Rest!Answer, RetryInv, CallInv, Rest!TypeOK
  <2> QED BY <2>1, <2>3, <2>4, <2>5, OneCall DEF RetryInv, Rest!TypeOK
<1>9. CASE Rest!Banned
  <2>1. Rest!TypeOK'
    BY <1>9 DEF Rest!Banned, RetryInv, Rest!TypeOK
  <2>2. \A c \in RestConfig.calls : CallInv(c)'
    BY <1>9 DEF Rest!Banned, RetryInv, CallInv
  <2> QED BY <2>1, <2>2 DEF RetryInv
<1>10. CASE Rest!Tick
  <2>1. /\ UNCHANGED <<pc, restAttempt, restReply, restIntoBan>> /\ restBan' = Rest!Less(restBan)
        /\ restPause' = Rest!Less(restPause)
    BY <1>10 DEF Rest!Tick
  <2>2. restBan' \in Rest!Waits /\ restPause' \in Rest!Waits
    BY <2>1 DEF Rest!Less, RetryInv, Rest!TypeOK, Rest!Waits, Rest!ConstantsOK
  <2>3. ASSUME NEW c \in RestConfig.calls
        PROVE  /\ restSleep'[c] \in Rest!Waits /\ restSlept'[c] \in Nat
               /\ restSlept'[c] + restSleep'[c] = restSlept[c] + restSleep[c]
               /\ restSleep'[c] > 0 => restSleep[c] > 0
               /\ restSlept'[c] = restSlept[c] \/ restSleep[c] > 0
    <3>1. restSleep'[c] = Rest!Less(restSleep[c])
      BY <1>10 DEF Rest!Tick
    <3>2. restSlept'[c] = IF restSleep[c] > 0 THEN Rest!Least(restSlept[c] + 1, Rest!LongestSleep + 1)
            ELSE restSlept[c]
      BY <1>10 DEF Rest!Tick
    <3>3. Rest!LongestSleep \in Nat /\ restSlept[c] + restSleep[c] <= Rest!LongestSleep
      BY BudgetGrows DEF RetryInv, CallInv
    <3> QED BY <3>1, <3>2, <3>3, WaitsTyped DEF Rest!Less, Rest!Least, RetryInv, Rest!Waits
  <2>4. \A c \in RestConfig.calls : CallInv(c)'
    <3> SUFFICES ASSUME NEW c \in RestConfig.calls PROVE CallInv(c)'
      OBVIOUS
    <3>1. CallInv(c)
      BY DEF RetryInv
    <3>2. /\ pc'[c] = pc[c] /\ restAttempt'[c] = restAttempt[c] /\ restReply'[c] = restReply[c]
          /\ restIntoBan'[c] = restIntoBan[c]
      BY <2>1
    <3>3. /\ restSlept'[c] + restSleep'[c] = restSlept[c] + restSleep[c]
          /\ (restSlept'[c] = restSlept[c] \/ pc[c] = "asleep")
      BY <2>3, <3>1 DEF CallInv
    <3> QED BY <2>1, <2>3, <3>1, <3>2, <3>3 DEF CallInv
  <2>5. Rest!TypeOK'
    <3>1. restSleep' \in [RestConfig.calls -> Rest!Waits]
      <4>1. restSleep' = [c \in RestConfig.calls |-> Rest!Less(restSleep[c])]
        BY <1>10 DEF Rest!Tick
      <4> QED BY <2>3, <4>1
    <3>2. \A c \in RestConfig.calls : restSlept'[c] \in 0 .. Rest!LongestSleep
            /\ restSlept'[c] + restSleep'[c] <= Rest!LongestSleep
      BY <2>3, <2>4, BudgetGrows DEF CallInv, Rest!Waits
    <3>3. restSlept' \in [RestConfig.calls -> 0 .. Rest!LongestSleep]
      <4>1. restSlept' = [c \in RestConfig.calls |-> restSlept'[c]]
        BY <1>10 DEF Rest!Tick
      <4> QED BY <3>2, <4>1
    <3> QED BY <2>1, <2>2, <3>1, <3>2, <3>3 DEF RetryInv, Rest!TypeOK
  <2> QED BY <2>4, <2>5 DEF RetryInv
<1>11. CASE UNCHANGED Rest!vars
  BY <1>11 DEF Rest!vars, RetryInv, Rest!TypeOK, CallInv
<1> QED BY <1>1, <1>3, <1>4, <1>5, <1>6, <1>7, <1>8, <1>9, <1>10, <1>11
     DEF Rest!Next, Rest!Handle, Rest!Exchange

\* No call has waited yet.
LEMMA RestInit == ASSUME Rest!ConstantsOK, Rest!Init PROVE RetryInv
<1>1. /\ Rest!LongestSleep \in Nat /\ Rest!NoReply \in Rest!Replies /\ 0 \in Rest!Waits
      /\ 1 \in 1 .. RestConfig.maxRetries + 1
  BY BudgetGrows DEF Rest!NoReply, Rest!Replies, Rest!Waits, Rest!ConstantsOK
<1>2. Rest!TypeOK
  BY <1>1 DEF Rest!Init, Rest!TypeOK
<1>3. \A c \in RestConfig.calls : CallInv(c)
  <2>1. \A c \in RestConfig.calls : pc[c] = "idle" /\ restSleep[c] = 0 /\ restSlept[c] = 0
          /\ restIntoBan[c] = 0
    BY DEF Rest!Init
  <2>2. ASSUME NEW c \in RestConfig.calls PROVE CallInv(c)
    <3>1. restSlept[c] + restSleep[c] <= Rest!LongestSleep
      BY <1>1, <2>1
    <3> QED BY <2>1, <3>1 DEF CallInv
  <2> QED BY <2>2
<1> QED BY <1>2, <1>3 DEF RetryInv

\* What it says of bans.
LEMMA RestImplies == ASSUME RetryInv PROVE Rest!OneRequestIntoBan
BY DEF RetryInv, CallInv, Rest!OneRequestIntoBan

-----------------------------------------------------------------------------
(* The gem watch, on any constants. *)

gemPrice == v1
gemFlagged == v2
gemMoves == v3
gemStatus == v4
gemEntry == v5
gemPeak == v6
gemTold == v7
gemRows == v8
gemQueue == v9
gemQuote == v10
gemWas == v11
gemOne == v12
gemHigh == v13
gemStood == v14
gemFaults == v15
USE DEF gemPrice, gemFlagged, gemMoves, gemStatus, gemEntry, gemPeak, gemTold, gemRows, gemQueue,
     gemQuote, gemWas, gemOne, gemHigh, gemStood, gemFaults

\* A pass that judges, closes or tells has a position, and judges it on the peak
\* that stood when it wrote it, or a higher one.
Judges(cfg, r) ==
  /\ pc[r] \in {"judge", "close", "alert"} => gemOne[r] \in cfg.watches
  /\ pc[r] = "judge" => gemHigh[r] >= gemStood[r] /\ gemHigh[r] >= gemQuote[r]

PassInv(cfg) == AnyGem(cfg)!TypeOK /\ \A r \in cfg.runs : Judges(cfg, r)

\* Nothing of that changes for the other passes.
OnlyPass(cfg, r) ==
  \A o \in cfg.runs \ {r} : /\ pc'[o] = pc[o] /\ gemOne'[o] = gemOne[o] /\ gemHigh'[o] = gemHigh[o]
                            /\ gemStood'[o] = gemStood[o] /\ gemQuote'[o] = gemQuote[o]

\* A step of one pass.
LEMMA PassKeeps ==
  ASSUME NEW CONSTANT cfg, PassInv(cfg), NEW r \in cfg.runs, AnyGem(cfg)!TypeOK', OnlyPass(cfg, r),
           Judges(cfg, r)'
  PROVE  PassInv(cfg)'
<1>1. ASSUME NEW o \in cfg.runs \ {r}
      PROVE  Judges(cfg, o)'
  BY DEF PassInv, OnlyPass, Judges
<1> QED BY <1>1 DEF PassInv

\* The pass goes on, or is over.
LEMMA GoOnKeeps ==
  ASSUME NEW CONSTANT cfg, AnyGem(cfg)!ConstantsOK, PassInv(cfg), NEW r \in cfg.runs,
           NEW more \in SUBSET cfg.watches, NEW next \in SUBSET cfg.watches,
         AnyGem(cfg)!GoOn(r, more, next), UNCHANGED <<AnyGem(cfg)!market, AnyGem(cfg)!table>>,
         gemTold' \in [cfg.watches -> 0 .. 2], gemFaults' \in 0 .. cfg.maxFaults
  PROVE  PassInv(cfg)'
<1>1. pc' = [pc EXCEPT ![r] = pc'[r]] /\ pc'[r] \in {"idle", "fetch", "raise"}
  BY DEF AnyGem!GoOn, AnyGem!Goto, PassInv, AnyGem!TypeOK
<1>2. /\ gemRows' \in [cfg.runs -> SUBSET cfg.watches] /\ gemQueue' \in [cfg.runs -> SUBSET cfg.watches]
      /\ gemOne' \in [cfg.runs -> cfg.watches \cup {Off}]
  BY DEF AnyGem!GoOn, PassInv, AnyGem!TypeOK
<1>3. /\ gemQuote' \in [cfg.runs -> 0 .. cfg.maxPrice] /\ gemHigh' \in [cfg.runs -> 0 .. cfg.maxPrice]
      /\ gemStood' \in [cfg.runs -> 0 .. cfg.maxPrice]
  BY DEF AnyGem!GoOn, PassInv, AnyGem!TypeOK, AnyGem!ConstantsOK
<1>4. gemWas' \in [cfg.runs -> [cfg.watches -> 0 .. cfg.maxPrice]]
  <2>1. [w \in cfg.watches |-> 0] \in [cfg.watches -> 0 .. cfg.maxPrice]
    BY DEF AnyGem!ConstantsOK
  <2>2. gemWas' = gemWas \/ gemWas' = [gemWas EXCEPT ![r] = [w \in cfg.watches |-> 0]]
    BY DEF AnyGem!GoOn
  <2> QED BY <2>1, <2>2 DEF PassInv, AnyGem!TypeOK
<1>5. pc' \in [cfg.runs -> {"idle", "fetch", "raise", "judge", "close", "alert"}]
  BY <1>1 DEF PassInv, AnyGem!TypeOK
<1>6. AnyGem(cfg)!TypeOK'
  BY <1>2, <1>3, <1>4, <1>5 DEF PassInv, AnyGem!TypeOK, AnyGem!market, AnyGem!table
<1>7. OnlyPass(cfg, r)
  BY DEF AnyGem!GoOn, AnyGem!Goto, PassInv, AnyGem!TypeOK, OnlyPass
<1>8. Judges(cfg, r)'
  BY <1>1 DEF Judges
<1> QED BY <1>6, <1>7, <1>8, PassKeeps

\* Each step keeps it.
LEMMA GemStep ==
  ASSUME NEW CONSTANT cfg, AnyGem(cfg)!ConstantsOK, PassInv(cfg), AnyGem(cfg)!Next
           \/ UNCHANGED AnyGem(cfg)!vars
  PROVE  PassInv(cfg)'
<1>1. ASSUME NEW w \in cfg.watches, AnyGem(cfg)!Watch(w)
      PROVE  PassInv(cfg)'
  <2>1. gemPrice[cfg.chainOf[w]] \in 0 .. cfg.maxPrice
    BY DEF AnyGem!ConstantsOK, PassInv, AnyGem!TypeOK
  <2> QED BY <1>1, <2>1 DEF AnyGem!Watch, PassInv, AnyGem!TypeOK, Judges, AnyGem!market, AnyGem!pass
<1>2. ASSUME NEW w \in cfg.watches, AnyGem(cfg)!Unwatch(w)
      PROVE  PassInv(cfg)'
  BY <1>2 DEF AnyGem!Unwatch, PassInv, AnyGem!TypeOK, Judges, AnyGem!market, AnyGem!pass
<1>3. ASSUME NEW r \in cfg.runs, AnyGem(cfg)!Begin(r)
      PROVE  PassInv(cfg)'
  <2> DEFINE active == {w \in cfg.watches : gemStatus[w] = "active"}
  <2> DEFINE peaks == [w \in cfg.watches |-> IF w \in active THEN gemPeak[w] ELSE 0]
  <2>1. /\ gemRows' = [gemRows EXCEPT ![r] = active] /\ gemWas' = [gemWas EXCEPT ![r] = peaks]
        /\ pc' = [pc EXCEPT ![r] = "fetch"]
        /\ UNCHANGED <<AnyGem(cfg)!market, AnyGem(cfg)!table, gemTold, gemQueue, gemQuote, gemOne,
             gemHigh, gemStood, gemFaults>>
    BY <1>3 DEF AnyGem!Begin, AnyGem!Goto
  <2>2. active \in SUBSET cfg.watches /\ peaks \in [cfg.watches -> 0 .. cfg.maxPrice]
    BY DEF PassInv, AnyGem!TypeOK, AnyGem!ConstantsOK
  <2> HIDE DEF active, peaks
  <2>3. AnyGem(cfg)!TypeOK'
    BY <2>1, <2>2 DEF PassInv, AnyGem!TypeOK, AnyGem!market, AnyGem!table
  <2>4. OnlyPass(cfg, r) /\ Judges(cfg, r)'
    BY <2>1 DEF OnlyPass, Judges, PassInv, AnyGem!TypeOK
  <2> QED BY <2>3, <2>4, PassKeeps
<1>4. ASSUME NEW r \in cfg.runs, AnyGem(cfg)!Fetch(r)
      PROVE  PassInv(cfg)'
  <2>1. PICK c \in {cfg.chainOf[w] : w \in gemRows[r]} :
          /\ gemQueue' = [gemQueue EXCEPT ![r] = {w \in gemRows[r] : cfg.chainOf[w] = c}]
          /\ \E p \in AnyGem(cfg)!Answers(c) : gemQuote' = [gemQuote EXCEPT ![r] = p]
          /\ gemRows' = [gemRows EXCEPT ![r] = AnyGem(cfg)!Others(r, c)]
    BY <1>4 DEF AnyGem!Fetch
  <2>2. /\ pc' = [pc EXCEPT ![r] = "raise"]
        /\ UNCHANGED <<AnyGem(cfg)!market, AnyGem(cfg)!table, gemTold, gemWas, gemOne, gemHigh,
             gemStood, gemFaults>>
    BY <1>4 DEF AnyGem!Fetch, AnyGem!Goto
  <2>3. gemPrice[c] \in 0 .. cfg.maxPrice /\ gemRows[r] \in SUBSET cfg.watches
    BY DEF AnyGem!ConstantsOK, PassInv, AnyGem!TypeOK
  <2>7. AnyGem(cfg)!Answers(c) \subseteq 0 .. cfg.maxPrice
    BY <2>3 DEF AnyGem!Answers, AnyGem!ConstantsOK
  <2>4. /\ {w \in gemRows[r] : cfg.chainOf[w] = c} \in SUBSET cfg.watches
        /\ AnyGem(cfg)!Others(r, c) \in SUBSET cfg.watches
    BY <2>3 DEF AnyGem!Others
  <2>5. AnyGem(cfg)!TypeOK'
    BY <2>1, <2>2, <2>4, <2>7 DEF PassInv, AnyGem!TypeOK, AnyGem!market, AnyGem!table
  <2>6. OnlyPass(cfg, r) /\ Judges(cfg, r)'
    BY <2>1, <2>2 DEF OnlyPass, Judges, PassInv, AnyGem!TypeOK
  <2> QED BY <2>5, <2>6, PassKeeps
<1>6. ASSUME NEW r \in cfg.runs, AnyGem(cfg)!Gone(r)
      PROVE  PassInv(cfg)'
  <2>1. PICK w \in gemQueue[r] : gemOne' = [gemOne EXCEPT ![r] = w]
    BY <1>6 DEF AnyGem!Gone
  <2>2. w \in cfg.watches
    BY DEF PassInv, AnyGem!TypeOK
  <2>3. /\ pc' = [pc EXCEPT ![r] = "close"]
        /\ UNCHANGED <<AnyGem(cfg)!market, AnyGem(cfg)!table, gemTold, gemRows, gemQueue, gemQuote,
             gemWas, gemHigh, gemStood, gemFaults>>
    BY <1>6 DEF AnyGem!Gone, AnyGem!Goto
  <2>4. gemOne' \in [cfg.runs -> cfg.watches \cup {Off}] /\ gemOne'[r] = w
    BY <2>1, <2>2 DEF PassInv, AnyGem!TypeOK
  <2>5. AnyGem(cfg)!TypeOK'
    BY <2>3, <2>4 DEF PassInv, AnyGem!TypeOK, AnyGem!market, AnyGem!table
  <2>6. OnlyPass(cfg, r) /\ Judges(cfg, r)'
    BY <2>1, <2>2, <2>3, <2>4 DEF OnlyPass, Judges, PassInv, AnyGem!TypeOK
  <2> QED BY <2>5, <2>6, PassKeeps
<1>7. ASSUME NEW r \in cfg.runs, AnyGem(cfg)!Raise(r)
      PROVE  PassInv(cfg)'
  <2>1. PICK w \in gemQueue[r] :
          /\ gemOne' = [gemOne EXCEPT ![r] = w]
          /\ gemPeak' = [gemPeak EXCEPT ![w] = AnyGem(cfg)!Raised(w, gemQuote[r])]
          /\ gemHigh' = [gemHigh EXCEPT ![r] = AnyGem(cfg)!PeakOf(r, w)]
          /\ gemStood' = [gemStood EXCEPT ![r] = gemPeak[w]]
    BY <1>7 DEF AnyGem!Raise
  <2>2. w \in cfg.watches /\ gemQuote[r] \in 0 .. cfg.maxPrice /\ gemPeak[w] \in 0 .. cfg.maxPrice
    BY DEF PassInv, AnyGem!TypeOK
  <2>3. /\ AnyGem(cfg)!Raised(w, gemQuote[r]) \in 0 .. cfg.maxPrice
        /\ AnyGem(cfg)!Raised(w, gemQuote[r]) >= gemQuote[r]
        /\ AnyGem(cfg)!Raised(w, gemQuote[r]) >= gemPeak[w]
    BY <2>2 DEF AnyGem!Raised, AnyGem!Highest, AnyGem!ConstantsOK
  <2>4. AnyGem(cfg)!PeakOf(r, w) = AnyGem(cfg)!Raised(w, gemQuote[r])
    BY <2>1, <2>2 DEF AnyGem!PeakOf, PassInv, AnyGem!TypeOK
  <2>5. /\ pc' = [pc EXCEPT ![r] = "judge"]
        /\ UNCHANGED <<AnyGem(cfg)!market, gemStatus, gemEntry, gemTold, gemRows, gemQueue,
             gemQuote, gemWas, gemFaults>>
    BY <1>7 DEF AnyGem!Raise, AnyGem!Goto
  <2>6. AnyGem(cfg)!TypeOK'
    BY <2>1, <2>2, <2>3, <2>4, <2>5 DEF PassInv, AnyGem!TypeOK, AnyGem!market
  <2>7. gemHigh'[r] >= gemStood'[r] /\ gemHigh'[r] >= gemQuote'[r] /\ gemOne'[r] \in cfg.watches
    BY <2>1, <2>2, <2>3, <2>4, <2>5 DEF PassInv, AnyGem!TypeOK
  <2>8. OnlyPass(cfg, r)
    BY <2>1, <2>5 DEF OnlyPass, PassInv, AnyGem!TypeOK
  <2>9. Judges(cfg, r)'
    BY <2>7 DEF Judges
  <2> QED BY <2>6, <2>8, <2>9, PassKeeps
<1>8. ASSUME NEW r \in cfg.runs, AnyGem(cfg)!Judge(r)
      PROVE  PassInv(cfg)'
  <2>1. CASE AnyGem(cfg)!Goto(r, "close") /\ UNCHANGED AnyGem(cfg)!pass
    <3>1. /\ AnyGem(cfg)!TypeOK' /\ UNCHANGED <<gemOne, gemHigh, gemStood, gemQuote>>
          /\ pc' = [pc EXCEPT ![r] = "close"] /\ gemOne[r] \in cfg.watches
      BY <1>8, <2>1 DEF AnyGem!Judge, AnyGem!Goto, AnyGem!pass, AnyGem!market, AnyGem!table,
           PassInv, AnyGem!TypeOK, Judges
    <3>2. OnlyPass(cfg, r) /\ Judges(cfg, r)'
      BY <3>1 DEF OnlyPass, Judges, PassInv, AnyGem!TypeOK
    <3> QED BY <3>1, <3>2, PassKeeps
  <2>2. CASE AnyGem(cfg)!NextPosition(r)
    <3>1. gemRows[r] \in SUBSET cfg.watches /\ gemQueue[r] \ {gemOne[r]} \in SUBSET cfg.watches
      BY DEF PassInv, AnyGem!TypeOK
    <3> QED BY <1>8, <2>2, <3>1, GoOnKeeps
         DEF AnyGem!Judge, AnyGem!NextPosition, PassInv, AnyGem!TypeOK
  <2> QED BY <1>8, <2>1, <2>2 DEF AnyGem!Judge
<1>9. ASSUME NEW r \in cfg.runs, AnyGem(cfg)!Close(r)
      PROVE  PassInv(cfg)'
  <2>0. gemOne[r] \in cfg.watches
    BY <1>9 DEF AnyGem!Close, PassInv, Judges
  <2>1. /\ pc' = [pc EXCEPT ![r] = "alert"]
        /\ UNCHANGED <<AnyGem(cfg)!market, gemEntry, gemPeak, gemTold, AnyGem(cfg)!pass, gemFaults>>
    BY <1>9 DEF AnyGem!Close, AnyGem!Goto
  <2>2. AnyGem(cfg)!TypeOK'
    BY <1>9, <2>0, <2>1 DEF AnyGem!Close, PassInv, AnyGem!TypeOK, AnyGem!market, AnyGem!pass
  <2>3. OnlyPass(cfg, r) /\ Judges(cfg, r)'
    <3>1. UNCHANGED <<gemOne, gemHigh, gemStood, gemQuote>>
      BY <2>1 DEF AnyGem!pass
    <3>2. pc'[r] = "alert" /\ \A o \in cfg.runs \ {r} : pc'[o] = pc[o]
      BY <2>1 DEF PassInv, AnyGem!TypeOK
    <3> QED BY <2>0, <3>1, <3>2 DEF OnlyPass, Judges
  <2> QED BY <2>2, <2>3, PassKeeps
<1>10. ASSUME NEW r \in cfg.runs, AnyGem(cfg)!Alert(r)
       PROVE  PassInv(cfg)'
  <2>0. gemOne[r] \in cfg.watches /\ gemTold \in [cfg.watches -> 0 .. 2]
    BY <1>10 DEF AnyGem!Alert, PassInv, AnyGem!TypeOK, Judges
  <2>1. gemTold' \in [cfg.watches -> 0 .. 2]
    <3>1. (IF gemTold[gemOne[r]] = 2 THEN 2 ELSE gemTold[gemOne[r]] + 1) \in 0 .. 2
      BY <2>0
    <3> QED BY <1>10, <2>0, <3>1 DEF AnyGem!Alert
  <2>2. gemRows[r] \in SUBSET cfg.watches /\ gemQueue[r] \ {gemOne[r]} \in SUBSET cfg.watches
    BY DEF PassInv, AnyGem!TypeOK
  <2> QED BY <1>10, <2>1, <2>2, GoOnKeeps
       DEF AnyGem!Alert, AnyGem!NextPosition, PassInv, AnyGem!TypeOK
<1>11. ASSUME NEW r \in cfg.runs, AnyGem(cfg)!QueryFails(r) \/ AnyGem(cfg)!Dies(r)
       PROVE  PassInv(cfg)'
  <2>1. gemFaults' \in 0 .. cfg.maxFaults
    BY <1>11 DEF AnyGem!QueryFails, AnyGem!Dies, AnyGem!Faulty, PassInv, AnyGem!TypeOK,
         AnyGem!ConstantsOK
  <2>2. gemRows[r] \in SUBSET cfg.watches /\ {} \in SUBSET cfg.watches
    BY DEF PassInv, AnyGem!TypeOK
  <2> QED BY <1>11, <2>1, <2>2, GoOnKeeps DEF AnyGem!QueryFails, AnyGem!Dies, PassInv, AnyGem!TypeOK
<1>12. CASE AnyGem(cfg)!Moves
  <2>1. gemMoves' \in 0 .. cfg.maxMoves
    BY <1>12 DEF AnyGem!Moves, PassInv, AnyGem!TypeOK, AnyGem!ConstantsOK
  <2>2. gemPrice' \in [cfg.chains -> 0 .. cfg.maxPrice] /\ gemFlagged' \in SUBSET cfg.chains
    BY <1>12 DEF AnyGem!Moves, PassInv, AnyGem!TypeOK
  <2> QED BY <1>12, <2>1, <2>2 DEF AnyGem!Moves, PassInv, AnyGem!TypeOK, Judges, AnyGem!table,
       AnyGem!pass
<1>13. CASE UNCHANGED AnyGem(cfg)!vars
  BY <1>13 DEF AnyGem!vars, PassInv, AnyGem!TypeOK, Judges, AnyGem!market, AnyGem!table, AnyGem!pass
<1> QED BY <1>1, <1>2, <1>3, <1>4, <1>6, <1>7, <1>8, <1>9, <1>10, <1>11, <1>12, <1>13
     DEF AnyGem!Next, AnyGem!Step

\* No run judges yet.
LEMMA GemInit == ASSUME NEW CONSTANT cfg, AnyGem(cfg)!ConstantsOK, AnyGem(cfg)!Init PROVE PassInv(cfg)
BY DEF AnyGem!ConstantsOK, AnyGem!Init, PassInv, AnyGem!TypeOK, Judges, AnyGem!Prices

-----------------------------------------------------------------------------
(* The spot list, on any constants. *)

spotDay == v1
spotLow == v2
spotClose == v3
spotBroke == v4
spotUp == v5
spotRows == v6
spotDone == v7
spotNow == v8
spotMine == v9
spotFaults == v10
USE DEF spotDay, spotLow, spotClose, spotBroke, spotUp, spotRows, spotDone, spotNow, spotMine,
     spotFaults

\* stepBreakout on any bars: f the lows and g the closes of the days, and of the
\* position the day b and the stop s.
LowF(cfg, f, i, j) ==
  CHOOSE l \in {f[d] : d \in {e \in AnySpot(cfg)!Days : i <= e /\ e <= j}} :
    \A d \in {e \in AnySpot(cfg)!Days : i <= e /\ e <= j} : l <= f[d]
BeforeF(cfg, f, j)        == LowF(cfg, f, IF j > cfg.lookback THEN j - cfg.lookback ELSE 1, j - 1)
LineF(cfg, f, b, s, j)    == AnySpot(cfg)!HighestOf({s} \cup {BeforeF(cfg, f, k) : k \in b + 1 .. j})
EndsF(cfg, f, g, b, s, j) == {k \in b + 1 .. j : f[k] <= s \/ g[k] < LineF(cfg, f, b, s, k)}

Bars(cfg) == [AnySpot(cfg)!Days -> AnySpot(cfg)!Prices]

\* The low of some bars is the lowest of them.
LEMMA LowIsLowest ==
  ASSUME NEW CONSTANT cfg, AnySpot(cfg)!ConstantsOK, NEW f \in Bars(cfg),
           NEW i \in AnySpot(cfg)!Days, NEW j \in AnySpot(cfg)!Days, i <= j
  PROVE  /\ LowF(cfg, f, i, j) \in AnySpot(cfg)!Prices
         /\ \E d \in AnySpot(cfg)!Days : i <= d /\ d <= j /\ LowF(cfg, f, i, j) = f[d]
         /\ \A d \in AnySpot(cfg)!Days : i <= d /\ d <= j => LowF(cfg, f, i, j) <= f[d]
<1> DEFINE D == {e \in AnySpot(cfg)!Days : i <= e /\ e <= j}
<1> DEFINE S == {f[d] : d \in D}
<1>1. i \in D /\ \A d \in D : f[d] \in AnySpot(cfg)!Prices
  BY DEF AnySpot!Days, Bars
<1>2. S \subseteq Nat /\ S # {}
  BY <1>1 DEF AnySpot!Prices
<1>3. PICK x \in S : \A y \in S : x <= y
  BY <1>2, LeastExists
<1>4. \A d \in D : x <= f[d]
  BY <1>3
<1>5. LowF(cfg, f, i, j) = CHOOSE l \in S : \A d \in D : l <= f[d]
  BY DEF LowF
<1> HIDE DEF S
<1>6. LowF(cfg, f, i, j) \in S /\ \A d \in D : LowF(cfg, f, i, j) <= f[d]
  BY <1>3, <1>4, <1>5
<1>7. \A y \in S : \E d \in D : y = f[d]
  BY DEF S
<1> QED BY <1>1, <1>6, <1>7

\* The high of some bars is the highest of them.
LEMMA HighIsHighest ==
  ASSUME NEW CONSTANT cfg, AnySpot(cfg)!ConstantsOK, NEW S \in SUBSET AnySpot(cfg)!Prices, S # {}
  PROVE  AnySpot(cfg)!HighestOf(S) \in S /\ \A k \in S : k <= AnySpot(cfg)!HighestOf(S)
<1> DEFINE T == {cfg.levels - k : k \in S}
<1>1. \A k \in S : k \in Nat /\ k <= cfg.levels /\ cfg.levels - k \in Nat
  BY DEF AnySpot!Prices, AnySpot!ConstantsOK
<1>2. T \subseteq Nat /\ T # {}
  BY <1>1
<1>3. PICK x \in T : \A y \in T : x <= y
  BY <1>2, LeastExists
<1>4. PICK l \in S : x = cfg.levels - l
  BY <1>3
<1>5. \A k \in S : k <= l
  <2> SUFFICES ASSUME NEW k \in S PROVE k <= l
    OBVIOUS
  <2>1. cfg.levels - l <= cfg.levels - k
    BY <1>3, <1>4
  <2> QED BY <1>1, <2>1 DEF AnySpot!ConstantsOK
<1> QED BY <1>4, <1>5 DEF AnySpot!HighestOf

\* The days before j that its line looks at.
LEMMA BeforeIsLow ==
  ASSUME NEW CONSTANT cfg, AnySpot(cfg)!ConstantsOK, NEW f \in Bars(cfg),
           NEW j \in AnySpot(cfg)!Days, j > 1
  PROVE  /\ BeforeF(cfg, f, j) \in AnySpot(cfg)!Prices
         /\ \A h \in Bars(cfg) : (\A d \in 1 .. j - 1 : h[d] = f[d]) =>
              BeforeF(cfg, h, j) = BeforeF(cfg, f, j)
<1> DEFINE i == IF j > cfg.lookback THEN j - cfg.lookback ELSE 1
<1>1. i \in AnySpot(cfg)!Days /\ j - 1 \in AnySpot(cfg)!Days /\ i <= j - 1
  BY DEF AnySpot!ConstantsOK, AnySpot!Days
<1>2. \A h \in Bars(cfg) : BeforeF(cfg, h, j) = LowF(cfg, h, i, j - 1)
  BY DEF BeforeF
<1> HIDE DEF i
<1>3. \A h \in Bars(cfg) : LowF(cfg, h, i, j - 1) \in AnySpot(cfg)!Prices
  BY <1>1, LowIsLowest
<1>4. ASSUME NEW h \in Bars(cfg), \A d \in 1 .. j - 1 : h[d] = f[d]
      PROVE  LowF(cfg, h, i, j - 1) = LowF(cfg, f, i, j - 1)
  <2>1. \A d \in AnySpot(cfg)!Days : d <= j - 1 => h[d] = f[d]
    BY <1>4 DEF AnySpot!Days
  <2>2. PICK d \in AnySpot(cfg)!Days : i <= d /\ d <= j - 1 /\ LowF(cfg, h, i, j - 1) = h[d]
    BY <1>1, LowIsLowest
  <2>3. PICK e \in AnySpot(cfg)!Days : i <= e /\ e <= j - 1 /\ LowF(cfg, f, i, j - 1) = f[e]
    BY <1>1, LowIsLowest
  <2>4. LowF(cfg, f, i, j - 1) <= f[d] /\ LowF(cfg, h, i, j - 1) <= h[e]
    BY <1>1, <2>2, <2>3, LowIsLowest
  <2>5. h[d] = f[d] /\ h[e] = f[e] /\ f[d] \in Nat /\ f[e] \in Nat
    BY <2>1, <2>2, <2>3 DEF Bars, AnySpot!Prices
  <2> QED BY <2>2, <2>3, <2>4, <2>5
<1> QED BY <1>2, <1>3, <1>4

\* A line is a price, and looks at nothing later than its day.
LEMMA LineIsOfThePast ==
  ASSUME NEW CONSTANT cfg, AnySpot(cfg)!ConstantsOK, NEW f \in Bars(cfg),
           NEW b \in AnySpot(cfg)!Days, NEW s \in AnySpot(cfg)!Prices, NEW j \in 0 .. cfg.lastDay
  PROVE  /\ LineF(cfg, f, b, s, j) \in AnySpot(cfg)!Prices
         /\ \A h \in Bars(cfg) : (\A d \in 1 .. j : h[d] = f[d]) =>
              LineF(cfg, h, b, s, j) = LineF(cfg, f, b, s, j)
<1> DEFINE T(h) == {s} \cup {BeforeF(cfg, h, k) : k \in b + 1 .. j}
<1>1. \A k \in b + 1 .. j : k \in AnySpot(cfg)!Days /\ k > 1
  BY DEF AnySpot!Days, AnySpot!ConstantsOK
<1>2. \A k \in b + 1 .. j : BeforeF(cfg, f, k) \in AnySpot(cfg)!Prices
  BY <1>1, BeforeIsLow
<1>3. T(f) \in SUBSET AnySpot(cfg)!Prices /\ T(f) # {}
  BY <1>2
<1>4. AnySpot(cfg)!HighestOf(T(f)) \in AnySpot(cfg)!Prices
  BY <1>3, HighIsHighest
<1>5. ASSUME NEW h \in Bars(cfg), \A d \in 1 .. j : h[d] = f[d]
      PROVE  T(h) = T(f)
  <2>1. \A k \in b + 1 .. j : BeforeF(cfg, h, k) = BeforeF(cfg, f, k)
    <3> SUFFICES ASSUME NEW k \in b + 1 .. j
                 PROVE  BeforeF(cfg, h, k) = BeforeF(cfg, f, k)
      OBVIOUS
    <3>1. \A d \in 1 .. k - 1 : h[d] = f[d]
      BY <1>1, <1>5 DEF AnySpot!Days
    <3> QED BY <1>1, <3>1, BeforeIsLow
  <2> QED BY <2>1
<1>6. \A h \in Bars(cfg) : LineF(cfg, h, b, s, j) = AnySpot(cfg)!HighestOf(T(h))
  BY DEF LineF
<1> HIDE DEF T
<1> QED BY <1>4, <1>5, <1>6

\* Nor does what ends a position.
LEMMA EndsAreOfThePast ==
  ASSUME NEW CONSTANT cfg, AnySpot(cfg)!ConstantsOK, NEW f \in Bars(cfg), NEW g \in Bars(cfg),
           NEW h \in Bars(cfg), NEW i \in Bars(cfg),
         NEW b \in AnySpot(cfg)!Days, NEW s \in AnySpot(cfg)!Prices, NEW j \in 0 .. cfg.lastDay,
         \A d \in 1 .. j : h[d] = f[d] /\ i[d] = g[d]
  PROVE  EndsF(cfg, h, i, b, s, j) = EndsF(cfg, f, g, b, s, j)
<1>1. ASSUME NEW k \in b + 1 .. j
      PROVE  LineF(cfg, h, b, s, k) = LineF(cfg, f, b, s, k) /\ h[k] = f[k] /\ i[k] = g[k]
  <2>1. k \in 0 .. cfg.lastDay /\ k \in 1 .. j /\ \A d \in 1 .. k : d \in 1 .. j
    BY DEF AnySpot!Days, AnySpot!ConstantsOK
  <2> QED BY <2>1, LineIsOfThePast
<1> QED BY <1>1 DEF EndsF

\* Position q is closed on the first day that ends it, for the reason of that day.
ClosedFirst(cfg, f, g, q) ==
  q.status # "open" => /\ EndsF(cfg, f, g, q.bar, q.stop, q.at) = {q.at}
                       /\ q.status = IF f[q.at] <= q.stop THEN "stop" ELSE "trail"

\* What a run is at: on a day that has come, with a position that is in the table,
\* open or no longer.
RunInv(cfg, r) ==
  /\ spotNow[r] <= spotDay
  /\ spotMine[r] # Off => /\ spotMine[r].status = "open" /\ spotMine[r].at <= spotDay
                          /\ \E q \in spotRows : q.bar = spotMine[r].bar /\ q.stop = spotMine[r].stop

SpotInv(cfg) ==
  /\ AnySpot(cfg)!TypeOK
  /\ \A q \in spotRows : q.bar <= spotDay /\ q.at <= spotDay
       /\ ClosedFirst(cfg, spotLow, spotClose, q)
  /\ \A r \in cfg.runs : RunInv(cfg, r)

\* The state is of the same bars.
LEMMA OnTheseBars ==
  ASSUME NEW CONSTANT cfg, NEW q, NEW j
  PROVE  /\ AnySpot(cfg)!Line(q, j) = LineF(cfg, spotLow, q.bar, q.stop, j)
         /\ AnySpot(cfg)!Ends(q, j) = EndsF(cfg, spotLow, spotClose, q.bar, q.stop, j)
<1>1. \A k : AnySpot(cfg)!Before(k) = BeforeF(cfg, spotLow, k)
  BY DEF AnySpot!Before, BeforeF, AnySpot!LowestLow, AnySpot!LowestOf, LowF
<1>2. \A k : AnySpot(cfg)!Line(q, k) = LineF(cfg, spotLow, q.bar, q.stop, k)
  BY <1>1 DEF AnySpot!Line, LineF
<1> QED BY <1>2 DEF AnySpot!Ends, EndsF, AnySpot!StopHit, AnySpot!Under

\* stepBreakout over the days read of an open position.
LEMMA AfterIsRight ==
  ASSUME NEW CONSTANT cfg, AnySpot(cfg)!ConstantsOK, spotLow \in Bars(cfg), spotClose \in Bars(cfg),
           NEW p \in AnySpot(cfg)!Positions, p.status = "open", NEW last \in AnySpot(cfg)!Days
  PROVE  /\ AnySpot(cfg)!After(p, last) \in AnySpot(cfg)!Positions
         /\ AnySpot(cfg)!After(p, last).bar = p.bar /\ AnySpot(cfg)!After(p, last).stop = p.stop
         /\ AnySpot(cfg)!After(p, last).at <= last \/ AnySpot(cfg)!After(p, last).at = p.at
         /\ ClosedFirst(cfg, spotLow, spotClose, AnySpot(cfg)!After(p, last))
<1>0. p.bar \in AnySpot(cfg)!Days /\ p.stop \in AnySpot(cfg)!Prices /\ p.at \in 0 .. cfg.lastDay
  BY DEF AnySpot!Positions
<1>1. \A j \in 0 .. cfg.lastDay : AnySpot(cfg)!Line(p, j) \in AnySpot(cfg)!Prices
  BY <1>0, OnTheseBars, LineIsOfThePast
<1>2. CASE AnySpot(cfg)!Ends(p, last) = {}
  <2>1. AnySpot(cfg)!After(p, last) = [p EXCEPT !.trail = AnySpot(cfg)!Line(p, last)]
    BY <1>2 DEF AnySpot!After, AnySpot!Walked
  <2>2. AnySpot(cfg)!Line(p, last) \in AnySpot(cfg)!Prices
    BY <1>1 DEF AnySpot!Days
  <2> QED BY <2>1, <2>2 DEF AnySpot!Positions, ClosedFirst
<1>3. CASE AnySpot(cfg)!Ends(p, last) # {}
  <2> DEFINE ends == AnySpot(cfg)!Ends(p, last)
  <2> DEFINE j == CHOOSE x \in ends : \A y \in ends : x <= y
  <2>1. ends \subseteq p.bar + 1 .. last
    BY DEF AnySpot!Ends
  <2>2. ends \subseteq Nat
    BY <1>0, <2>1 DEF AnySpot!Days
  <2>3. PICK x \in ends : \A y \in ends : x <= y
    BY <1>3, <2>2, LeastExists
  <2>4. j \in ends /\ \A y \in ends : j <= y
    BY <2>3
  <2>5. IF AnySpot(cfg)!StopHit(p, j)
          THEN AnySpot(cfg)!After(p, last) = [p EXCEPT !.status = "stop",
            !.trail = AnySpot(cfg)!Line(p, j - 1), !.at = j]
        ELSE AnySpot(cfg)!After(p, last) = [p EXCEPT !.status = "trail",
          !.trail = AnySpot(cfg)!Line(p, j), !.at = j]
    BY <1>3 DEF AnySpot!After, AnySpot!Walked
  <2> HIDE DEF j
  <2>6. j \in p.bar + 1 .. last /\ j \in 0 .. cfg.lastDay /\ j - 1 \in 0 .. cfg.lastDay /\ j <= last
    BY <1>0, <2>1, <2>4 DEF AnySpot!Days, AnySpot!ConstantsOK
  <2>7. /\ AnySpot(cfg)!Line(p, j) \in AnySpot(cfg)!Prices
        /\ AnySpot(cfg)!Line(p, j - 1) \in AnySpot(cfg)!Prices
    BY <1>1, <2>6
  <2>8. AnySpot(cfg)!Ends(p, j) = {j}
    <3>1. \A y \in p.bar + 1 .. j : y \in p.bar + 1 .. last
      BY <1>0, <2>6 DEF AnySpot!Days
    <3>2. \A y \in AnySpot(cfg)!Ends(p, j) : y \in ends /\ y <= j
      BY <1>0, <3>1, <2>6 DEF AnySpot!Ends, AnySpot!Days
    <3>3. j \in AnySpot(cfg)!Ends(p, j)
      BY <1>0, <2>4, <2>6 DEF AnySpot!Ends, AnySpot!Days
    <3>4. \A y \in AnySpot(cfg)!Ends(p, j) : y = j
      <4> SUFFICES ASSUME NEW y \in AnySpot(cfg)!Ends(p, j) PROVE y = j
        OBVIOUS
      <4>1. y <= j /\ j <= y /\ y \in Nat /\ j \in Nat
        BY <2>2, <2>4, <3>2
      <4> QED BY <4>1
    <3> QED BY <3>3, <3>4
  <2>9. EndsF(cfg, spotLow, spotClose, p.bar, p.stop, j) = {j}
    BY <2>8, OnTheseBars
  <2> HIDE DEF ends
  <2>10. CASE AnySpot(cfg)!StopHit(p, j)
    <3>1. AnySpot(cfg)!After(p, last) = [p EXCEPT !.status = "stop",
            !.trail = AnySpot(cfg)!Line(p, j - 1), !.at = j]
      BY <2>5, <2>10
    <3>2. AnySpot(cfg)!After(p, last) \in AnySpot(cfg)!Positions
      BY <2>6, <2>7, <3>1 DEF AnySpot!Positions
    <3>3. /\ AnySpot(cfg)!After(p, last).bar = p.bar /\ AnySpot(cfg)!After(p, last).stop = p.stop
          /\ AnySpot(cfg)!After(p, last).at = j
          /\ AnySpot(cfg)!After(p, last).status = "stop"
      BY <3>1 DEF AnySpot!Positions
    <3> QED BY <2>6, <2>9, <2>10, <3>2, <3>3 DEF ClosedFirst, AnySpot!StopHit
  <2>11. CASE ~AnySpot(cfg)!StopHit(p, j)
    <3>1. AnySpot(cfg)!After(p, last) = [p EXCEPT !.status = "trail",
            !.trail = AnySpot(cfg)!Line(p, j), !.at = j]
      BY <2>5, <2>11
    <3>2. AnySpot(cfg)!After(p, last) \in AnySpot(cfg)!Positions
      BY <2>6, <2>7, <3>1 DEF AnySpot!Positions
    <3>3. /\ AnySpot(cfg)!After(p, last).bar = p.bar /\ AnySpot(cfg)!After(p, last).stop = p.stop
          /\ AnySpot(cfg)!After(p, last).at = j
          /\ AnySpot(cfg)!After(p, last).status = "trail"
      BY <3>1 DEF AnySpot!Positions
    <3> QED BY <2>6, <2>9, <2>11, <3>2, <3>3 DEF ClosedFirst, AnySpot!StopHit
  <2> QED BY <2>10, <2>11
<1> QED BY <1>2, <1>3

\* What a step leaves of the rows, when it leaves them.
LEMMA SameRows ==
  ASSUME NEW CONSTANT cfg, SpotInv(cfg), AnySpot(cfg)!TypeOK', UNCHANGED spotRows,
           UNCHANGED <<spotLow, spotClose>>, spotDay <= spotDay', spotDay' \in Nat, spotDay \in Nat,
         \A r \in cfg.runs : RunInv(cfg, r)'
  PROVE  SpotInv(cfg)' /\ AnySpot(cfg)!TrailRises
<1>1. \A q \in spotRows : q.bar <= spotDay' /\ q.at <= spotDay'
  <2> SUFFICES ASSUME NEW q \in spotRows PROVE q.bar <= spotDay' /\ q.at <= spotDay'
    OBVIOUS
  <2>1. q.bar \in Nat /\ q.at \in Nat /\ q.trail \in Nat
    BY DEF SpotInv, AnySpot!TypeOK, AnySpot!Positions, AnySpot!Days, AnySpot!Prices
  <2> QED BY <2>1 DEF SpotInv
<1>2. \A q \in spotRows : ClosedFirst(cfg, spotLow', spotClose', q)
  BY DEF SpotInv
<1>3. AnySpot(cfg)!TrailRises
  <2>1. \A q \in spotRows : q.trail \in Nat
    BY DEF SpotInv, AnySpot!TypeOK, AnySpot!Positions, AnySpot!Prices
  <2> QED BY <2>1 DEF AnySpot!TrailRises
<1> QED BY <1>1, <1>2, <1>3 DEF SpotInv

\* A run whose day, place or position changes, and the others, which do not.
LEMMA OnlyRun ==
  ASSUME NEW CONSTANT cfg, SpotInv(cfg), NEW r \in cfg.runs,
           UNCHANGED <<spotRows, AnySpot(cfg)!bars>>, spotNow' = [spotNow EXCEPT ![r] = spotNow'[r]],
         spotMine' = [spotMine EXCEPT ![r] = spotMine'[r]], RunInv(cfg, r)'
  PROVE  \A o \in cfg.runs : RunInv(cfg, o)'
<1>1. ASSUME NEW o \in cfg.runs \ {r}
      PROVE  RunInv(cfg, o)'
  <2>1. spotNow'[o] = spotNow[o] /\ spotMine'[o] = spotMine[o]
    BY DEF SpotInv, AnySpot!TypeOK
  <2> QED BY <2>1 DEF SpotInv, RunInv, AnySpot!bars
<1> QED BY <1>1

\* updateSpotBreakoutTrail, closeSpotBreakout: only the open row of the position
\* changes, and what it becomes has its bar and its stop.
LEMMA FollowKeeps ==
  ASSUME NEW CONSTANT cfg, AnySpot(cfg)!ConstantsOK, SpotInv(cfg), NEW r \in cfg.runs,
           pc[r] = "coin", NEW last \in 1 .. spotNow[r], spotMine[r] # Off,
         AnySpot(cfg)!Follow(r, last)
  PROVE  /\ spotRows' \in SUBSET AnySpot(cfg)!Positions
         /\ \A p, q \in spotRows' : p.bar = q.bar \/ (p.status = "open" /\ q.status = "open") => p = q
         /\ \A q \in spotRows' : q.bar <= spotDay /\ q.at <= spotDay
              /\ ClosedFirst(cfg, spotLow, spotClose, q)
         /\ AnySpot(cfg)!TrailRises
<1> DEFINE m == spotMine[r]
<1> DEFINE now2 == AnySpot(cfg)!After(m, last)
<1> DEFINE new(p) == IF p.bar = now2.bar /\ p.status = "open"
                       THEN [now2 EXCEPT !.trail = AnySpot(cfg)!Higher(p.trail, now2.trail)] ELSE p
<1>0. spotLow \in Bars(cfg) /\ spotClose \in Bars(cfg) /\ spotDay \in AnySpot(cfg)!Days
  BY DEF SpotInv, AnySpot!TypeOK, Bars
<1>1. last \in AnySpot(cfg)!Days /\ last <= spotDay
  BY <1>0 DEF SpotInv, AnySpot!TypeOK, RunInv, AnySpot!Days, AnySpot!ConstantsOK
<1>2. m \in AnySpot(cfg)!Positions /\ m.status = "open" /\ \E q \in spotRows : q.bar = m.bar
        /\ q.stop = m.stop
  BY DEF SpotInv, AnySpot!TypeOK, RunInv
<1>3. m.bar <= spotDay
  BY <1>2 DEF SpotInv
<1>4. /\ now2 \in AnySpot(cfg)!Positions /\ now2.bar = m.bar /\ now2.stop = m.stop
      /\ ClosedFirst(cfg, spotLow, spotClose, now2)
  BY <1>0, <1>1, <1>2, AfterIsRight
<1>5. now2.at <= last \/ now2.at = m.at
  BY <1>0, <1>1, <1>2, AfterIsRight
<1>6. spotRows' = {new(p) : p \in spotRows}
  BY DEF AnySpot!Follow
<1>7. m.at <= spotDay
  BY DEF SpotInv, RunInv
<1>8. now2.at <= spotDay /\ now2.bar <= spotDay /\ now2.trail \in AnySpot(cfg)!Prices
  <2>1. now2.trail \in AnySpot(cfg)!Prices /\ now2.at \in Nat
    BY <1>4 DEF AnySpot!Positions
  <2>2. now2.at <= spotDay
    BY <1>0, <1>1, <1>5, <1>7, <2>1 DEF AnySpot!Days
  <2> QED BY <1>3, <1>4, <2>1, <2>2
<1>9. \A p, q \in spotRows : p.bar = q.bar \/ (p.status = "open" /\ q.status = "open") => p = q
  BY DEF SpotInv, AnySpot!TypeOK
<1> HIDE DEF now2, m
<1>10. ASSUME NEW p \in spotRows
       PROVE  /\ new(p) \in AnySpot(cfg)!Positions /\ new(p).bar = p.bar /\ new(p).stop = p.stop
              /\ new(p).trail >= p.trail /\ (p.status # "open" => new(p) = p)
              /\ new(p).at <= spotDay /\ ClosedFirst(cfg, spotLow, spotClose, new(p))
  <2>1. /\ p \in AnySpot(cfg)!Positions /\ p.at <= spotDay /\ ClosedFirst(cfg, spotLow, spotClose, p)
        /\ p.trail \in AnySpot(cfg)!Prices
    BY DEF SpotInv, AnySpot!TypeOK, AnySpot!Positions
  <2>2. CASE p.bar = now2.bar /\ p.status = "open"
    <3> DEFINE t == AnySpot(cfg)!Higher(p.trail, now2.trail)
    <3>1. t \in AnySpot(cfg)!Prices /\ t >= p.trail
      BY <1>8, <2>1 DEF AnySpot!Higher, AnySpot!Prices
    <3>2. new(p) = [now2 EXCEPT !.trail = t]
      BY <2>2
    <3> HIDE DEF t
    <3>3. new(p) \in AnySpot(cfg)!Positions /\ new(p).trail = t
      BY <1>4, <3>1, <3>2 DEF AnySpot!Positions
    <3>4. /\ new(p).bar = now2.bar /\ new(p).stop = now2.stop /\ new(p).status = now2.status
          /\ new(p).at = now2.at
      BY <1>4, <3>2 DEF AnySpot!Positions
    <3> HIDE DEF new
    <3>5. p.stop = now2.stop
      BY <1>2, <1>4, <1>9, <2>2
    <3>6. ClosedFirst(cfg, spotLow, spotClose, new(p))
      BY <1>4, <3>4 DEF ClosedFirst
    <3> QED BY <1>8, <2>2, <3>1, <3>3, <3>4, <3>5, <3>6
  <2>3. CASE ~(p.bar = now2.bar /\ p.status = "open")
    <3>1. new(p) = p
      BY <2>3
    <3> HIDE DEF new
    <3> QED BY <2>1, <3>1 DEF AnySpot!Prices
  <2> QED BY <2>2, <2>3
<1> HIDE DEF new
<1>11. spotRows' \in SUBSET AnySpot(cfg)!Positions
  BY <1>6, <1>10
<1>12. ASSUME NEW x \in spotRows', NEW y \in spotRows', x.bar = y.bar
                \/ (x.status = "open" /\ y.status = "open")
       PROVE  x = y
  <2>1. PICK p \in spotRows, q \in spotRows : x = new(p) /\ y = new(q)
    BY <1>6
  <2>2. p.bar = q.bar \/ (p.status = "open" /\ q.status = "open")
    BY <1>10, <1>12, <2>1
  <2> QED BY <1>9, <2>1, <2>2
<1>13. \A q \in spotRows' : q.bar <= spotDay /\ q.at <= spotDay
         /\ ClosedFirst(cfg, spotLow, spotClose, q)
  <2> SUFFICES ASSUME NEW p \in spotRows
               PROVE  new(p).bar <= spotDay /\ new(p).at <= spotDay
                        /\ ClosedFirst(cfg, spotLow, spotClose, new(p))
    BY <1>6
  <2>1. p.bar <= spotDay
    BY DEF SpotInv
  <2> QED BY <1>10, <2>1
<1>14. AnySpot(cfg)!TrailRises
  <2>1. ASSUME NEW p \in spotRows
        PROVE  \E q \in spotRows' : /\ q.bar = p.bar /\ q.stop = p.stop /\ q.trail >= p.trail
                                    /\ p.status # "open" => q = p
    <3>1. new(p) \in spotRows'
      BY <1>6
    <3> QED BY <1>10, <3>1
  <2> QED BY <2>1 DEF AnySpot!TrailRises
<1> QED BY <1>11, <1>12, <1>13, <1>14

\* insertSpotBreakout: a new row, on a day that has none, while no other is open.
LEMMA EnterKeeps ==
  ASSUME NEW CONSTANT cfg, AnySpot(cfg)!ConstantsOK, SpotInv(cfg), NEW last \in AnySpot(cfg)!Days,
           last <= spotDay, NEW d, AnySpot(cfg)!Enter(last, d)
  PROVE  /\ spotRows' \in SUBSET AnySpot(cfg)!Positions
         /\ \A p, q \in spotRows' : p.bar = q.bar \/ (p.status = "open" /\ q.status = "open") => p = q
         /\ \A q \in spotRows' : q.bar <= spotDay /\ q.at <= spotDay
              /\ ClosedFirst(cfg, spotLow, spotClose, q)
         /\ AnySpot(cfg)!TrailRises
<1> DEFINE from == IF last >= cfg.lookback THEN last + 1 - cfg.lookback ELSE 1
<1> DEFINE stop == AnySpot(cfg)!LowestLow(from, last)
<1> DEFINE new == [bar |-> last, stop |-> stop, trail |-> stop, status |-> "open", at |-> 0]
<1>0. spotLow \in Bars(cfg) /\ spotDay \in AnySpot(cfg)!Days
  BY DEF SpotInv, AnySpot!TypeOK, Bars
<1>1. from \in AnySpot(cfg)!Days /\ from <= last
  BY DEF AnySpot!ConstantsOK, AnySpot!Days
<1>2. spotRows' = spotRows \/ (AnySpot(cfg)!Free(last) /\ spotRows' = spotRows \cup {new})
  BY DEF AnySpot!Enter
<1> HIDE DEF from
<1>3. stop \in AnySpot(cfg)!Prices
  <2>1. stop = LowF(cfg, spotLow, from, last)
    BY DEF AnySpot!LowestLow, AnySpot!LowestOf, LowF
  <2> QED BY <1>0, <1>1, <2>1, LowIsLowest
<1> HIDE DEF stop
<1>4. new \in AnySpot(cfg)!Positions /\ new.bar = last /\ new.at = 0 /\ new.status = "open"
  BY <1>3 DEF AnySpot!Positions, AnySpot!ConstantsOK
<1> HIDE DEF new
<1>5. ClosedFirst(cfg, spotLow, spotClose, new) /\ new.at <= spotDay
  BY <1>0, <1>4 DEF ClosedFirst, AnySpot!Days
<1>6. spotRows \in SUBSET AnySpot(cfg)!Positions /\ \A p, q \in spotRows : p.bar = q.bar
        \/ (p.status = "open" /\ q.status = "open") => p = q
  BY DEF SpotInv, AnySpot!TypeOK
<1>7. \A p, q \in spotRows' : p.bar = q.bar \/ (p.status = "open" /\ q.status = "open") => p = q
  BY <1>2, <1>4, <1>6 DEF AnySpot!Free
<1>8. \A q \in spotRows' : q.bar <= spotDay /\ q.at <= spotDay
        /\ ClosedFirst(cfg, spotLow, spotClose, q)
  BY <1>2, <1>4, <1>5 DEF SpotInv
<1>9. AnySpot(cfg)!TrailRises
  <2>1. \A p \in spotRows : p \in spotRows' /\ p.trail \in Nat
    BY <1>2, <1>6 DEF AnySpot!Positions, AnySpot!Prices
  <2> QED BY <2>1 DEF AnySpot!TrailRises
<1> QED BY <1>2, <1>4, <1>6, <1>7, <1>8, <1>9

\* Each step keeps it, and lets no trail fall.
LEMMA SpotStep ==
  ASSUME NEW CONSTANT cfg, AnySpot(cfg)!ConstantsOK, SpotInv(cfg), AnySpot(cfg)!Next
           \/ UNCHANGED AnySpot(cfg)!vars
  PROVE  SpotInv(cfg)' /\ AnySpot(cfg)!TrailRises
<1>0. /\ spotLow \in Bars(cfg) /\ spotClose \in Bars(cfg) /\ spotDay \in AnySpot(cfg)!Days
      /\ spotDay \in Nat /\ cfg.lastDay \in Nat
      /\ spotRows \in SUBSET AnySpot(cfg)!Positions
  BY DEF SpotInv, AnySpot!TypeOK, Bars, AnySpot!Days, AnySpot!ConstantsOK
<1>1. ASSUME NEW r \in cfg.runs, AnySpot(cfg)!Tick(r)
      PROVE  SpotInv(cfg)' /\ AnySpot(cfg)!TrailRises
  <2>1. /\ pc' = [pc EXCEPT ![r] = "open"] /\ spotNow' = [spotNow EXCEPT ![r] = spotDay]
        /\ UNCHANGED <<AnySpot(cfg)!bars, spotRows, spotDone, spotMine>>
        /\ spotFaults' \in 0 .. cfg.maxFaults
    BY <1>1 DEF AnySpot!Tick, AnySpot!Goto, AnySpot!Faulty, SpotInv, AnySpot!TypeOK,
         AnySpot!ConstantsOK
  <2>2. AnySpot(cfg)!TypeOK'
    BY <1>0, <2>1 DEF SpotInv, AnySpot!TypeOK, AnySpot!bars, AnySpot!Days
  <2>3. spotNow'[r] = spotDay /\ spotMine'[r] = spotMine[r]
    BY <2>1 DEF SpotInv, AnySpot!TypeOK
  <2>4. RunInv(cfg, r)'
    BY <1>0, <2>1, <2>3 DEF RunInv, SpotInv, AnySpot!bars
  <2>5. \A o \in cfg.runs : RunInv(cfg, o)'
    BY <2>1, <2>3, <2>4, OnlyRun DEF SpotInv, AnySpot!TypeOK
  <2> QED BY <1>0, <2>1, <2>2, <2>5, SameRows DEF AnySpot!bars
<1>2. ASSUME NEW r \in cfg.runs, AnySpot(cfg)!ReadOpen(r)
      PROVE  SpotInv(cfg)' /\ AnySpot(cfg)!TrailRises
  <2> DEFINE open == {p \in spotRows : p.status = "open"}
  <2> DEFINE m == IF open = {} THEN Off ELSE CHOOSE p \in open : TRUE
  <2>1. /\ pc' = [pc EXCEPT ![r] = "coin"] /\ spotMine' = [spotMine EXCEPT ![r] = m]
        /\ UNCHANGED <<AnySpot(cfg)!bars, spotRows, spotDone, spotNow, spotFaults>>
    BY <1>2 DEF AnySpot!ReadOpen, AnySpot!Goto
  <2>2. m = Off \/ m \in open
    OBVIOUS
  <2> HIDE DEF m
  <2>3. AnySpot(cfg)!TypeOK'
    BY <1>0, <2>1, <2>2 DEF SpotInv, AnySpot!TypeOK, AnySpot!bars
  <2>4. spotNow'[r] = spotNow[r] /\ spotMine'[r] = m
    BY <2>1 DEF SpotInv, AnySpot!TypeOK
  <2>5. m # Off => m.status = "open" /\ m.at <= spotDay /\ m \in spotRows
    BY <2>2 DEF SpotInv
  <2>6. RunInv(cfg, r)'
    BY <2>1, <2>4, <2>5 DEF RunInv, SpotInv, AnySpot!bars
  <2>7. \A o \in cfg.runs : RunInv(cfg, o)'
    BY <2>1, <2>4, <2>6, OnlyRun DEF SpotInv, AnySpot!TypeOK
  <2> QED BY <1>0, <2>1, <2>3, <2>7, SameRows DEF AnySpot!bars
<1>3. ASSUME NEW r \in cfg.runs, AnySpot(cfg)!Coin(r)
      PROVE  SpotInv(cfg)' /\ AnySpot(cfg)!TrailRises
  <2>1. PICK last \in 1 .. spotNow[r] : IF spotMine[r] # Off THEN AnySpot(cfg)!Follow(r, last)
               ELSE AnySpot(cfg)!Enter(last, spotNow[r])
    BY <1>3 DEF AnySpot!Coin
  <2>2. /\ pc[r] = "coin" /\ pc' = [pc EXCEPT ![r] = "finish"]
        /\ spotMine' = [spotMine EXCEPT ![r] = Off]
        /\ UNCHANGED <<AnySpot(cfg)!bars, spotDone, spotNow, spotFaults>>
    BY <1>3 DEF AnySpot!Coin, AnySpot!Goto
  <2>3. last \in AnySpot(cfg)!Days /\ last <= spotDay
    BY <1>0 DEF SpotInv, AnySpot!TypeOK, RunInv, AnySpot!Days
  <2>4. /\ spotRows' \in SUBSET AnySpot(cfg)!Positions
        /\ \A p, q \in spotRows' : p.bar = q.bar \/ (p.status = "open" /\ q.status = "open") => p = q
        /\ \A q \in spotRows' : q.bar <= spotDay /\ q.at <= spotDay
             /\ ClosedFirst(cfg, spotLow, spotClose, q)
        /\ AnySpot(cfg)!TrailRises
    BY <2>1, <2>2, <2>3, FollowKeeps, EnterKeeps
  <2>5. AnySpot(cfg)!TypeOK'
    BY <2>2, <2>4 DEF SpotInv, AnySpot!TypeOK, AnySpot!bars
  <2>6. ASSUME NEW o \in cfg.runs
        PROVE  RunInv(cfg, o)'
    <3>1. spotNow'[o] = spotNow[o] /\ (spotMine'[o] = spotMine[o] \/ spotMine'[o] = Off)
      BY <2>2 DEF SpotInv, AnySpot!TypeOK
    <3>2. \A q \in spotRows : \E x \in spotRows' : x.bar = q.bar /\ x.stop = q.stop
      BY <2>4 DEF AnySpot!TrailRises
    <3>3. RunInv(cfg, o) /\ spotDay' = spotDay
      BY <2>2 DEF SpotInv, AnySpot!bars
    <3> QED BY <3>1, <3>2, <3>3 DEF RunInv
  <2> QED BY <2>2, <2>4, <2>5, <2>6 DEF SpotInv, AnySpot!bars
\* The run is over with its coin, or is over.
<1>4. ASSUME NEW r \in cfg.runs, UNCHANGED <<AnySpot(cfg)!bars, spotRows>>, AnySpot(cfg)!TypeOK',
             spotNow' = spotNow \/ spotNow' = [spotNow EXCEPT ![r] = 0], spotMine' = spotMine
               \/ spotMine' = [spotMine EXCEPT ![r] = Off]
      PROVE  SpotInv(cfg)' /\ AnySpot(cfg)!TrailRises
  <2>1. ASSUME NEW o \in cfg.runs
        PROVE  RunInv(cfg, o)'
    <3>1. (spotNow'[o] = spotNow[o] \/ spotNow'[o] = 0)
            /\ (spotMine'[o] = spotMine[o] \/ spotMine'[o] = Off)
      BY <1>4 DEF SpotInv, AnySpot!TypeOK
    <3>2. RunInv(cfg, o) /\ UNCHANGED <<spotDay, spotRows>>
      BY <1>4 DEF SpotInv, AnySpot!bars
    <3> QED BY <1>0, <3>1, <3>2 DEF RunInv
  <2> QED BY <1>0, <1>4, <2>1, SameRows DEF AnySpot!bars
<1>5. ASSUME NEW r \in cfg.runs, AnySpot(cfg)!CoinFails(r)
      PROVE  SpotInv(cfg)' /\ AnySpot(cfg)!TrailRises
  <2>1. AnySpot(cfg)!TypeOK'
    BY <1>5 DEF AnySpot!CoinFails, AnySpot!Goto, SpotInv, AnySpot!TypeOK, AnySpot!bars
  <2> QED BY <1>4, <1>5, <2>1 DEF AnySpot!CoinFails
<1>6. ASSUME NEW r \in cfg.runs, AnySpot(cfg)!Finish(r)
      PROVE  SpotInv(cfg)' /\ AnySpot(cfg)!TrailRises
  <2>1. AnySpot(cfg)!TypeOK'
    BY <1>0, <1>6 DEF AnySpot!Finish, AnySpot!Goto, SpotInv, AnySpot!TypeOK, AnySpot!bars,
         AnySpot!Days
  <2> QED BY <1>4, <1>6, <2>1 DEF AnySpot!Finish
<1>7. ASSUME NEW r \in cfg.runs, AnySpot(cfg)!Fails(r)
      PROVE  SpotInv(cfg)' /\ AnySpot(cfg)!TrailRises
  <2>1. spotFaults' \in 0 .. cfg.maxFaults
    BY <1>7 DEF AnySpot!Fails, AnySpot!Faulty, SpotInv, AnySpot!TypeOK, AnySpot!ConstantsOK
  <2>2. AnySpot(cfg)!TypeOK'
    BY <1>0, <1>7, <2>1 DEF AnySpot!Fails, AnySpot!Goto, SpotInv, AnySpot!TypeOK, AnySpot!bars
  <2> QED BY <1>4, <1>7, <2>2 DEF AnySpot!Fails
<1>8. CASE AnySpot(cfg)!DayCloses
  <2>1. PICK l \in AnySpot(cfg)!Prices, c \in AnySpot(cfg)!Prices, k \in BOOLEAN, u \in BOOLEAN :
          AnySpot(cfg)!Bar(spotDay + 1, l, c, k, u)
    BY <1>8 DEF AnySpot!DayCloses
  <2>2. /\ spotDay' = spotDay + 1 /\ spotDay < cfg.lastDay
        /\ UNCHANGED <<spotRows, spotDone, pc, spotNow, spotMine, spotFaults>>
    BY <1>8 DEF AnySpot!DayCloses
  <2>3. spotDay' \in AnySpot(cfg)!Days /\ spotDay < spotDay'
    BY <1>0, <2>2 DEF AnySpot!Days
  <2>4. /\ spotLow' = [spotLow EXCEPT ![spotDay + 1] = l]
        /\ spotClose' = [spotClose EXCEPT ![spotDay + 1] = c]
    BY <2>1 DEF AnySpot!Bar
  <2>5. /\ spotLow' \in Bars(cfg) /\ spotClose' \in Bars(cfg) /\ spotBroke' \in SUBSET AnySpot(cfg)!Days
        /\ spotUp' \in SUBSET AnySpot(cfg)!Days
    BY <1>0, <2>1, <2>2, <2>3, <2>4 DEF AnySpot!Bar, Bars, SpotInv, AnySpot!TypeOK
  <2>6. AnySpot(cfg)!TypeOK'
    BY <2>2, <2>3, <2>5 DEF SpotInv, AnySpot!TypeOK, Bars
  <2>7. \A d \in 1 .. spotDay : spotLow'[d] = spotLow[d] /\ spotClose'[d] = spotClose[d]
    BY <1>0, <2>4 DEF Bars, AnySpot!Days
  <2>8. ASSUME NEW q \in spotRows
        PROVE  ClosedFirst(cfg, spotLow', spotClose', q)
    <3>1. /\ q.bar \in AnySpot(cfg)!Days /\ q.stop \in AnySpot(cfg)!Prices
          /\ q.at \in 0 .. cfg.lastDay /\ q.at <= spotDay
          /\ ClosedFirst(cfg, spotLow, spotClose, q)
      BY <1>0 DEF SpotInv, AnySpot!Positions
    <3>2. \A d \in 1 .. q.at : spotLow'[d] = spotLow[d] /\ spotClose'[d] = spotClose[d]
      BY <1>0, <2>7, <3>1
    <3>3. EndsF(cfg, spotLow', spotClose', q.bar, q.stop, q.at) = EndsF(cfg, spotLow, spotClose,
            q.bar, q.stop, q.at)
      <4> DEFINE b == q.bar  s == q.stop  j == q.at
      <4>1. /\ spotLow \in Bars(cfg) /\ spotClose \in Bars(cfg) /\ spotLow' \in Bars(cfg)
            /\ spotClose' \in Bars(cfg)
        BY <1>0, <2>5
      <4>2. /\ b \in AnySpot(cfg)!Days /\ s \in AnySpot(cfg)!Prices /\ j \in 0 .. cfg.lastDay
            /\ \A d \in 1 .. j : spotLow'[d] = spotLow[d] /\ spotClose'[d] = spotClose[d]
        BY <3>1, <3>2
      <4> HIDE DEF b, s, j
      <4>3. EndsF(cfg, spotLow', spotClose', b, s, j) = EndsF(cfg, spotLow, spotClose, b, s, j)
        BY <4>1, <4>2, EndsAreOfThePast
      <4> QED BY <4>3 DEF b, s, j
    <3>4. EndsF(cfg, spotLow, spotClose, q.bar, q.stop, q.at) = {q.at} => q.at \in 1 .. q.at
      BY <3>1 DEF EndsF, AnySpot!Days
    <3> QED BY <3>1, <3>2, <3>3, <3>4 DEF ClosedFirst
  <2>9. ASSUME NEW q \in spotRows
        PROVE  q.bar <= spotDay' /\ q.at <= spotDay' /\ q.trail \in Nat
    <3>1. q.bar \in Nat /\ q.at \in Nat /\ q.bar <= spotDay /\ q.at <= spotDay /\ q.trail \in Nat
      BY <1>0 DEF SpotInv, AnySpot!Positions, AnySpot!Days, AnySpot!Prices
    <3> QED BY <1>0, <2>2, <3>1
  <2>10. ASSUME NEW r \in cfg.runs
         PROVE  RunInv(cfg, r)'
    <3>1. spotNow'[r] = spotNow[r] /\ spotMine'[r] = spotMine[r] /\ spotNow[r] \in Nat
      BY <2>2 DEF SpotInv, AnySpot!TypeOK
    <3>2. spotMine[r] # Off => spotMine[r].at \in Nat
      BY DEF SpotInv, AnySpot!TypeOK, AnySpot!Positions
    <3>3. RunInv(cfg, r)
      BY DEF SpotInv
    <3> QED BY <1>0, <2>2, <3>1, <3>2, <3>3 DEF RunInv
  <2>11. AnySpot(cfg)!TrailRises
    BY <2>2, <2>9 DEF AnySpot!TrailRises
  <2> QED BY <2>2, <2>6, <2>8, <2>9, <2>10, <2>11 DEF SpotInv
<1>9. CASE UNCHANGED AnySpot(cfg)!vars
  <2>1. UNCHANGED <<AnySpot(cfg)!bars, spotRows, spotDone, pc, spotNow, spotMine, spotFaults>>
    BY <1>9 DEF AnySpot!vars
  <2>2. AnySpot(cfg)!TypeOK'
    BY <2>1 DEF SpotInv, AnySpot!TypeOK, AnySpot!bars
  <2>3. \A r \in cfg.runs : RunInv(cfg, r)'
    BY <2>1 DEF SpotInv, RunInv, AnySpot!bars
  <2> QED BY <1>0, <2>1, <2>2, <2>3, SameRows DEF AnySpot!bars
<1> QED BY <1>1, <1>2, <1>3, <1>5, <1>6, <1>7, <1>8, <1>9 DEF AnySpot!Next, AnySpot!Step

\* There are no rows yet.
LEMMA SpotInit == ASSUME NEW CONSTANT cfg, AnySpot(cfg)!ConstantsOK,
  AnySpot(cfg)!Init PROVE SpotInv(cfg)
<1>1. AnySpot(cfg)!TypeOK
  BY DEF AnySpot!Init, AnySpot!TypeOK, AnySpot!ConstantsOK, AnySpot!Days, AnySpot!Prices
<1>2. spotRows = {} /\ \A r \in cfg.runs : spotNow[r] = 0 /\ spotMine[r] = Off
  BY DEF AnySpot!Init
<1>3. spotDay = 1
  BY DEF AnySpot!Init
<1> QED BY <1>1, <1>2, <1>3 DEF SpotInv, RunInv

\* What it says of closed rows.
LEMMA SpotImplies == ASSUME NEW CONSTANT cfg, SpotInv(cfg) PROVE AnySpot(cfg)!ClosedOnFirstDay
<1> SUFFICES ASSUME NEW p \in spotRows, p.status # "open"
             PROVE  AnySpot(cfg)!Ends(p, p.at) = {p.at} /\ p.status = IF AnySpot(cfg)!StopHit(p, p.at) THEN "stop"
                      ELSE "trail"
  BY DEF AnySpot!ClosedOnFirstDay
<1>1. ClosedFirst(cfg, spotLow, spotClose, p)
  BY DEF SpotInv
<1> QED BY <1>1, OnTheseBars DEF ClosedFirst, AnySpot!StopHit

-----------------------------------------------------------------------------
(* The intraday alerts. *)

dayDay == v1
dayLevel == v2
dayTurned == v3
dayMoves == v4
dayClaimed == v5
dayTold == v6
dayNow == v7
dayFound == v8
dayFresh == v9
dayLeft == v10
daySeen == v11
dayFaults == v12
USE DEF dayDay, dayLevel, dayTurned, dayMoves, dayClaimed, dayTold, dayNow, dayFound, dayFresh,
     dayLeft, daySeen, dayFaults

\* Two findings have two rows, of a day: claims do not get in each other's way.
LEMMA KeysDiffer ==
  ASSUME NEW f \in Intraday!Findings, NEW g \in Intraday!Findings, Intraday!Key(f) = Intraday!Key(g)
  PROVE  f = g
<1>1. CASE f \in Intraday!Exits /\ g \in Intraday!Exits
  BY <1>1 DEF Intraday!Key, Intraday!Exits
<1>2. CASE f \in Intraday!Stops /\ g \in Intraday!Stops
  <2>1. f \notin Intraday!Exits /\ g \notin Intraday!Exits
    BY <1>2 DEF Intraday!Stops, Intraday!Exits, Intraday!Kinds
  <2> QED BY <1>2, <2>1 DEF Intraday!Key, Intraday!Stops
<1>3. CASE (f \in Intraday!Exits /\ g \in Intraday!Stops)
             \/ (f \in Intraday!Stops /\ g \in Intraday!Exits)
  <2>1. /\ ~(f \in Intraday!Exits /\ f \in Intraday!Stops)
        /\ ~(g \in Intraday!Exits /\ g \in Intraday!Stops)
    BY DEF Intraday!Stops, Intraday!Exits, Intraday!Kinds
  <2>2. ASSUME NEW x \in Intraday!Exits, NEW y \in Intraday!Stops
        PROVE  Intraday!Key(x) # Intraday!Key(y)
    <3>1. y \notin Intraday!Exits
      BY DEF Intraday!Stops, Intraday!Exits, Intraday!Kinds
    <3> QED BY <3>1 DEF Intraday!Key
  <2> QED BY <1>3, <2>2
<1> QED BY <1>1, <1>2, <1>3 DEF Intraday!Findings

\* Messages go to chats.
LEMMA MessagesTyped ==
  ASSUME NEW fs \in SUBSET Intraday!Findings
  PROVE  Intraday!MessagesFor(fs) \subseteq Intraday!Messages
<1>1. ASSUME NEW f \in Intraday!Findings
      PROVE  Intraday!What(f) \in {"exit", "stop"} /\ Intraday!Recipients(f) \subseteq Intraday!Chats
  BY DEF Intraday!What, Intraday!Recipients, Intraday!Chats, Intraday!Findings, Intraday!Stops
<1> QED BY <1>1 DEF Intraday!MessagesFor, Intraday!Messages

\* A message counts for the chat it goes to.
LEMMA DeliveredTyped ==
  ASSUME Intraday!TypeOK, NEW r \in IntradayConfig.runs, NEW m \in Intraday!Messages
  PROVE  Intraday!Delivered(r,
           m) \in [Intraday!Days \X Intraday!Findings -> [Intraday!Chats -> 0 .. 2]]
<1>1. ASSUME NEW t \in [Intraday!Chats -> 0 .. 2]
      PROVE  [t EXCEPT ![m[2]] = IF @ = 2 THEN 2 ELSE @ + 1] \in [Intraday!Chats -> 0 .. 2]
  <2>1. m[2] \in Intraday!Chats
    BY DEF Intraday!Messages
  <2>2. (IF t[m[2]] = 2 THEN 2 ELSE t[m[2]] + 1) \in 0 .. 2
    BY <2>1
  <2> QED BY <2>2
<1> QED BY <1>1 DEF Intraday!Delivered, Intraday!TypeOK
(* Types. *)

\* Whoever runs, runs on a day.
RunsOnADay == \A r \in IntradayConfig.runs : pc[r] # "idle" => dayNow[r] \in Intraday!Days

\* A run that ends leaves its variables typed.
LEMMA IdleTyped ==
  ASSUME Intraday!TypeOK, RunsOnADay, Intraday!ConstantsOK, NEW r \in IntradayConfig.runs,
           Intraday!Idle(r)
  PROVE  /\ pc' \in [IntradayConfig.runs -> {"idle", "claim", "send"}]
         /\ dayNow' \in [IntradayConfig.runs -> 0 .. IntradayConfig.lastDay]
         /\ dayFound' \in [IntradayConfig.runs -> SUBSET Intraday!Findings]
         /\ dayFresh' \in [IntradayConfig.runs -> SUBSET Intraday!Findings]
         /\ dayLeft' \in [IntradayConfig.runs -> SUBSET Intraday!Messages]
         /\ RunsOnADay'
<1>1. pc' \in [IntradayConfig.runs -> {"idle", "claim", "send"}] /\ pc'[r] = "idle"
  BY DEF Intraday!Idle, Intraday!Goto, Intraday!TypeOK
<1>2. dayNow' \in [IntradayConfig.runs -> 0 .. IntradayConfig.lastDay]
  BY DEF Intraday!Idle, Intraday!TypeOK, Intraday!ConstantsOK
<1>3. dayFound' \in [IntradayConfig.runs -> SUBSET Intraday!Findings]
  BY DEF Intraday!Idle, Intraday!TypeOK
<1>4. dayFresh' \in [IntradayConfig.runs -> SUBSET Intraday!Findings]
  BY DEF Intraday!Idle, Intraday!TypeOK
<1>5. dayLeft' \in [IntradayConfig.runs -> SUBSET Intraday!Messages]
  BY DEF Intraday!Idle, Intraday!TypeOK
<1>6. \A o \in IntradayConfig.runs \ {r} : pc'[o] = pc[o] /\ dayNow'[o] = dayNow[o]
  BY DEF Intraday!Idle, Intraday!Goto, Intraday!TypeOK
<1> QED BY <1>1, <1>2, <1>3, <1>4, <1>5, <1>6 DEF RunsOnADay

\* Each step keeps the types.
LEMMA TypesStay ==
  ASSUME Intraday!ConstantsOK, Intraday!TypeOK, RunsOnADay, Intraday!Next \/ UNCHANGED Intraday!vars
  PROVE  Intraday!TypeOK' /\ RunsOnADay'
<1>1. ASSUME NEW r \in IntradayConfig.runs, Intraday!Begin(r)
      PROVE  Intraday!TypeOK' /\ RunsOnADay'
  <2>1. Intraday!FoundNow \subseteq Intraday!Findings
    BY DEF Intraday!FoundNow, Intraday!Findings, Intraday!Exits, Intraday!TypeOK
  <2>2. /\ dayFound' \in [IntradayConfig.runs -> SUBSET Intraday!Findings]
        /\ daySeen' \in SUBSET (Intraday!Days \X Intraday!Findings)
    BY <1>1, <2>1 DEF Intraday!Begin, Intraday!TypeOK
  <2>3. /\ dayNow' \in [IntradayConfig.runs -> 0 .. IntradayConfig.lastDay]
        /\ pc' \in [IntradayConfig.runs -> {"idle", "claim", "send"}]
    BY <1>1 DEF Intraday!Begin, Intraday!Goto, Intraday!TypeOK, Intraday!Days, Intraday!ConstantsOK
  <2>4. RunsOnADay'
    BY <1>1 DEF Intraday!Begin, Intraday!Goto, Intraday!TypeOK, RunsOnADay
  <2> QED BY <1>1, <2>2, <2>3, <2>4 DEF Intraday!Begin, Intraday!TypeOK, Intraday!market
<1>2. ASSUME NEW r \in IntradayConfig.runs, Intraday!Claim(r)
      PROVE  Intraday!TypeOK' /\ RunsOnADay'
  <2> PICK f \in dayFound[r] :
         LET mine == dayFresh[r] \cup IF Intraday!IsNew(dayNow[r], f) THEN {f} ELSE {}
         IN  /\ dayClaimed' = dayClaimed \cup {<<dayNow[r], Intraday!Key(f)>>}
             /\ IF dayFound[r] # {f}
                  THEN /\ dayFound' = [dayFound EXCEPT ![r] = @ \ {f}]
                       /\ dayFresh' = [dayFresh EXCEPT ![r] = mine]
                       /\ UNCHANGED <<pc, dayNow, dayLeft>>
                ELSE IF Intraday!MessagesFor(mine) = {} THEN Intraday!Idle(r)
                ELSE /\ dayFound' = [dayFound EXCEPT ![r] = {}]
                     /\ dayFresh' = [dayFresh EXCEPT ![r] = mine]
                     /\ dayLeft' = [dayLeft EXCEPT ![r] = Intraday!MessagesFor(mine)]
                     /\ Intraday!Goto(r, "send")
                     /\ UNCHANGED dayNow
    BY <1>2 DEF Intraday!Claim
  <2> DEFINE mine == dayFresh[r] \cup IF Intraday!IsNew(dayNow[r], f) THEN {f} ELSE {}
  <2>1. UNCHANGED <<Intraday!market, dayTold, daySeen, dayFaults>> /\ dayNow[r] \in Intraday!Days
    BY <1>2 DEF Intraday!Claim, RunsOnADay
  <2>2. \A k \in dayClaimed' : k[1] \in Intraday!Days
    BY <2>1 DEF Intraday!TypeOK
  <2>3. mine \in SUBSET Intraday!Findings
    BY DEF Intraday!TypeOK
  <2>4. Intraday!MessagesFor(mine) \in SUBSET Intraday!Messages
    BY <2>3, MessagesTyped
  <2>5. CASE dayFound[r] # {f}
    BY <2>1, <2>2, <2>3, <2>5 DEF Intraday!TypeOK, RunsOnADay, Intraday!market
  <2>6. CASE dayFound[r] = {f} /\ Intraday!MessagesFor(mine) = {}
    BY <2>1, <2>2, <2>6, IdleTyped DEF Intraday!TypeOK, Intraday!market
  <2>7. CASE dayFound[r] = {f} /\ Intraday!MessagesFor(mine) # {}
    <3>1. /\ pc' \in [IntradayConfig.runs -> {"idle", "claim", "send"}]
          /\ dayLeft' \in [IntradayConfig.runs -> SUBSET Intraday!Messages]
      BY <2>4, <2>7 DEF Intraday!Goto, Intraday!TypeOK
    <3>2. RunsOnADay'
      BY <2>1, <2>7 DEF Intraday!Goto, Intraday!TypeOK, RunsOnADay
    <3>3. /\ dayFound' = [dayFound EXCEPT ![r] = {}] /\ dayFresh' = [dayFresh EXCEPT ![r] = mine]
          /\ UNCHANGED dayNow
      BY <2>7
    <3> HIDE DEF mine
    <3>4. /\ dayFound' \in [IntradayConfig.runs -> SUBSET Intraday!Findings]
          /\ dayFresh' \in [IntradayConfig.runs -> SUBSET Intraday!Findings]
      BY <2>3, <3>3 DEF Intraday!TypeOK
    <3> QED BY <2>1, <2>2, <3>1, <3>2, <3>3, <3>4 DEF Intraday!TypeOK, Intraday!market
  <2> QED BY <2>5, <2>6, <2>7
<1>3. ASSUME NEW r \in IntradayConfig.runs, Intraday!Send(r)
      PROVE  Intraday!TypeOK' /\ RunsOnADay'
  <2> PICK m \in dayLeft[r] :
         /\ \/ dayTold' = Intraday!Delivered(r, m) /\ UNCHANGED dayFaults
            \/ Intraday!Faulty /\ UNCHANGED dayTold
         /\ IF dayLeft[r] = {m} THEN Intraday!Idle(r)
            ELSE dayLeft' = [dayLeft EXCEPT ![r] = @ \ {m}]
              /\ UNCHANGED <<pc, dayNow, dayFound, dayFresh>>
    BY <1>3 DEF Intraday!Send
  <2>1. UNCHANGED <<Intraday!market, dayClaimed, daySeen>>
    BY <1>3 DEF Intraday!Send
  <2>2. m \in Intraday!Messages
    BY DEF Intraday!TypeOK
  <2>3. dayTold' \in [Intraday!Days \X Intraday!Findings -> [Intraday!Chats -> 0 .. 2]]
    BY <2>2, DeliveredTyped DEF Intraday!TypeOK
  <2>4. dayFaults' \in 0 .. IntradayConfig.maxFaults
    BY DEF Intraday!Faulty, Intraday!TypeOK, Intraday!ConstantsOK
  <2>5. CASE dayLeft[r] = {m}
    BY <2>1, <2>3, <2>4, <2>5, IdleTyped DEF Intraday!TypeOK, Intraday!market
  <2>6. CASE dayLeft[r] # {m}
    <3>1. UNCHANGED <<pc, dayNow, dayFound, dayFresh>> /\ dayLeft' = [dayLeft EXCEPT ![r] = @ \ {m}]
      BY <2>6
    <3>2. dayLeft' \in [IntradayConfig.runs -> SUBSET Intraday!Messages]
      BY <3>1 DEF Intraday!TypeOK
    <3>3. RunsOnADay'
      BY <3>1 DEF RunsOnADay
    <3> QED BY <2>1, <2>3, <2>4, <3>1, <3>2, <3>3 DEF Intraday!TypeOK, Intraday!market
  <2> QED BY <2>5, <2>6
<1>4. ASSUME NEW r \in IntradayConfig.runs, Intraday!Dies(r)
      PROVE  Intraday!TypeOK' /\ RunsOnADay'
  <2>1. dayFaults' \in 0 .. IntradayConfig.maxFaults
    BY <1>4 DEF Intraday!Dies, Intraday!Faulty, Intraday!TypeOK, Intraday!ConstantsOK
  <2> QED BY <1>4, <2>1, IdleTyped DEF Intraday!Dies, Intraday!TypeOK, Intraday!market
<1>5. CASE Intraday!Moves
  <2>1. dayMoves' \in 0 .. IntradayConfig.maxMoves
    BY <1>5 DEF Intraday!Moves, Intraday!TypeOK, Intraday!ConstantsOK
  <2>2. dayDay' \in Intraday!Days
    BY <1>5 DEF Intraday!Moves, Intraday!TypeOK, Intraday!ConstantsOK, Intraday!Days
  <2>3. /\ dayLevel' \in [IntradayConfig.trades -> Intraday!Kinds \cup {"far"}]
        /\ dayTurned' \in SUBSET IntradayConfig.coins
    BY <1>5 DEF Intraday!Moves, Intraday!TypeOK
  <2> QED BY <1>5, <2>1, <2>2, <2>3 DEF Intraday!Moves, Intraday!TypeOK, RunsOnADay, Intraday!run
<1>6. CASE UNCHANGED Intraday!vars
  BY <1>6 DEF Intraday!vars, Intraday!market, Intraday!run, Intraday!TypeOK, RunsOnADay
<1> QED BY <1>1, <1>2, <1>3, <1>4, <1>5, <1>6 DEF Intraday!Next, Intraday!Step

\* The types hold at the start.
LEMMA IntradayTypeInit == ASSUME Intraday!ConstantsOK, Intraday!Init PROVE Intraday!TypeOK
  /\ RunsOnADay
BY DEF Intraday!Init, Intraday!TypeOK, RunsOnADay, Intraday!ConstantsOK, Intraday!Days,
     Intraday!Kinds

(* Once per day. *)

\* Whether run r still has to tell chat c of finding f.
Owes(r, f, c) ==
  /\ f \in dayFresh[r] /\ c \in Intraday!Recipients(f)
  /\ pc[r] = "claim" \/ <<Intraday!What(f), c>> \in dayLeft[r]

\* What a run has claimed is claimed, and no other run of that day has it.
FreshIsClaimed == \A r \in IntradayConfig.runs : \A f \in dayFresh[r] :
  <<dayNow[r], Intraday!Key(f)>> \in dayClaimed
FreshIsMine    == \A r, o \in IntradayConfig.runs : r # o /\ dayNow[r] = dayNow[o] =>
  dayFresh[r] \cap dayFresh[o] = {}
\* What was told was claimed, and what is still to be told was not told.
ToldIsClaimed  == \A k \in Intraday!Days \X Intraday!Findings, c \in Intraday!Chats :
  dayTold[k][c] > 0 => <<k[1], Intraday!Key(k[2])>> \in dayClaimed
OwedIsUntold   == \A r \in IntradayConfig.runs, f \in Intraday!Findings, c \in Intraday!Chats :
  Owes(r, f, c) => dayTold[<<dayNow[r], f>>][c] = 0

DayInv ==
  /\ Intraday!TypeOK /\ RunsOnADay
  /\ \A r \in IntradayConfig.runs : pc[r] = "idle" => dayFresh[r] = {}
  /\ FreshIsClaimed /\ FreshIsMine
  /\ ToldIsClaimed /\ OwedIsUntold
  /\ Intraday!OncePerDay

\* A run that ends has nothing more to tell.
LEMMA IdleKeeps ==
  ASSUME DayInv, NEW r \in IntradayConfig.runs, Intraday!Idle(r), UNCHANGED dayTold,
           dayClaimed \subseteq dayClaimed', Intraday!TypeOK', RunsOnADay'
  PROVE  DayInv'
<1>1. pc'[r] = "idle" /\ dayFresh'[r] = {}
  BY DEF Intraday!Idle, Intraday!Goto, DayInv, Intraday!TypeOK
<1>2. \A o \in IntradayConfig.runs \ {r} : /\ pc'[o] = pc[o] /\ dayNow'[o] = dayNow[o]
                                           /\ dayFresh'[o] = dayFresh[o] /\ dayLeft'[o] = dayLeft[o]
  BY DEF Intraday!Idle, Intraday!Goto, DayInv, Intraday!TypeOK
<1>3. \A o \in IntradayConfig.runs : pc'[o] = "idle" => dayFresh'[o] = {}
  BY <1>1, <1>2 DEF DayInv
<1>4. FreshIsClaimed'
  BY <1>1, <1>2 DEF DayInv, FreshIsClaimed
<1>5. FreshIsMine'
  BY <1>1, <1>2 DEF DayInv, FreshIsMine
<1>6. ToldIsClaimed'
  BY DEF DayInv, ToldIsClaimed
<1>7. OwedIsUntold'
  <2> SUFFICES ASSUME NEW o \in IntradayConfig.runs, NEW f \in Intraday!Findings,
                        NEW c \in Intraday!Chats, Owes(o, f, c)'
               PROVE  dayTold'[<<dayNow'[o], f>>][c] = 0
    BY DEF OwedIsUntold
  <2>1. o # r
    BY <1>1 DEF Owes
  <2>2. Owes(o, f, c) /\ dayNow'[o] = dayNow[o]
    BY <1>2, <2>1 DEF Owes
  <2> QED BY <2>2 DEF DayInv, OwedIsUntold
<1>8. Intraday!OncePerDay'
  BY DEF DayInv, Intraday!OncePerDay
<1> QED BY <1>3, <1>4, <1>5, <1>6, <1>7, <1>8 DEF DayInv

\* A finding is claimed: the run's own, if the row is new.
LEMMA ClaimKeeps ==
  ASSUME DayInv, Intraday!TypeOK', RunsOnADay', NEW r \in IntradayConfig.runs, Intraday!Claim(r)
  PROVE  DayInv'
<1> PICK f \in dayFound[r] :
       LET mine == dayFresh[r] \cup IF Intraday!IsNew(dayNow[r], f) THEN {f} ELSE {}
       IN  /\ dayClaimed' = dayClaimed \cup {<<dayNow[r], Intraday!Key(f)>>}
           /\ IF dayFound[r] # {f}
                THEN /\ dayFound' = [dayFound EXCEPT ![r] = @ \ {f}]
                     /\ dayFresh' = [dayFresh EXCEPT ![r] = mine]
                     /\ UNCHANGED <<pc, dayNow, dayLeft>>
              ELSE IF Intraday!MessagesFor(mine) = {} THEN Intraday!Idle(r)
              ELSE /\ dayFound' = [dayFound EXCEPT ![r] = {}]
                   /\ dayFresh' = [dayFresh EXCEPT ![r] = mine]
                   /\ dayLeft' = [dayLeft EXCEPT ![r] = Intraday!MessagesFor(mine)]
                   /\ Intraday!Goto(r, "send")
                   /\ UNCHANGED dayNow
  BY DEF Intraday!Claim
<1> DEFINE mine == dayFresh[r] \cup IF Intraday!IsNew(dayNow[r], f) THEN {f} ELSE {}
<1>1. UNCHANGED dayTold /\ pc[r] = "claim" /\ f \in Intraday!Findings /\ dayNow[r] \in Intraday!Days
  BY DEF Intraday!Claim, DayInv, Intraday!TypeOK, RunsOnADay
<1>2. dayClaimed' = dayClaimed \cup {<<dayNow[r], Intraday!Key(f)>>}
  OBVIOUS
<1>3. CASE dayFound[r] = {f} /\ Intraday!MessagesFor(mine) = {}
  BY <1>1, <1>2, <1>3, IdleKeeps
<1>4. CASE ~(dayFound[r] = {f} /\ Intraday!MessagesFor(mine) = {})
  <2>1. dayFresh' = [dayFresh EXCEPT ![r] = mine] /\ UNCHANGED dayNow
    BY <1>4
  <2>2. pc'[r] \in {"claim", "send"} /\ \A o \in IntradayConfig.runs \ {r} : pc'[o] = pc[o]
          /\ dayLeft'[o] = dayLeft[o]
    BY <1>1, <1>4 DEF Intraday!Goto, DayInv, Intraday!TypeOK
  <2>3. \A g \in mine : g \in dayFresh[r]
          \/ (g = f /\ <<dayNow[r], Intraday!Key(f)>> \notin dayClaimed)
    BY DEF Intraday!IsNew
  <2>4. mine \in SUBSET Intraday!Findings
    BY <1>1 DEF DayInv, Intraday!TypeOK
  <2> HIDE DEF mine
  <2>5. dayFresh'[r] = mine /\ \A o \in IntradayConfig.runs \ {r} : dayFresh'[o] = dayFresh[o]
    BY <2>1 DEF DayInv, Intraday!TypeOK
  <2>6. FreshIsClaimed'
    BY <1>2, <2>1, <2>3, <2>5 DEF DayInv, FreshIsClaimed
  <2>7. \A o \in IntradayConfig.runs \ {r} : dayNow[o] = dayNow[r] => mine \cap dayFresh[o] = {}
    BY <2>3 DEF DayInv, FreshIsClaimed, FreshIsMine
  <2>8. FreshIsMine'
    BY <2>1, <2>5, <2>7 DEF DayInv, FreshIsMine
  <2>9. ToldIsClaimed'
    BY <1>1, <1>2 DEF DayInv, ToldIsClaimed
  <2>10. ASSUME NEW g \in mine, NEW c \in Intraday!Chats, c \in Intraday!Recipients(g)
         PROVE  dayTold[<<dayNow[r], g>>][c] = 0
    <3>1. CASE g \in dayFresh[r]
      <4>1. Owes(r, g, c)
        BY <1>1, <2>10, <3>1 DEF Owes
      <4> QED BY <2>4, <4>1 DEF DayInv, OwedIsUntold
    <3>2. CASE g = f /\ <<dayNow[r], Intraday!Key(f)>> \notin dayClaimed
      <4> DEFINE k == <<dayNow[r], g>>
      <4>1. k \in Intraday!Days \X Intraday!Findings /\ k[1] = dayNow[r] /\ k[2] = f
        BY <1>1, <3>2
      <4> HIDE DEF k
      <4>2. ~(dayTold[k][c] > 0)
        BY <3>2, <4>1 DEF DayInv, ToldIsClaimed
      <4>3. dayTold[k][c] \in 0 .. 2
        BY <4>1 DEF DayInv, Intraday!TypeOK
      <4> QED BY <4>2, <4>3 DEF k
    <3> QED BY <2>3, <3>1, <3>2
  <2>11. OwedIsUntold'
    <3> SUFFICES ASSUME NEW o \in IntradayConfig.runs, NEW g \in Intraday!Findings,
                          NEW c \in Intraday!Chats, Owes(o, g, c)'
                 PROVE  dayTold'[<<dayNow'[o], g>>][c] = 0
      BY DEF OwedIsUntold
    <3>1. CASE o = r
      BY <1>1, <2>1, <2>5, <2>10, <3>1 DEF Owes
    <3>2. CASE o # r
      <4>1. Owes(o, g, c)
        BY <2>2, <2>5, <3>2 DEF Owes
      <4> QED BY <1>1, <2>1, <4>1 DEF DayInv, OwedIsUntold
    <3> QED BY <3>1, <3>2
  <2>12. \A o \in IntradayConfig.runs : pc'[o] = "idle" => dayFresh'[o] = {}
    BY <2>2, <2>5 DEF DayInv
  <2> QED BY <1>1, <2>6, <2>8, <2>9, <2>11, <2>12 DEF DayInv, Intraday!OncePerDay
<1> QED BY <1>3, <1>4

\* A message tells what the run owes, and what others owe is not in it.
LEMMA SendKeeps ==
  ASSUME DayInv, Intraday!TypeOK', RunsOnADay', NEW r \in IntradayConfig.runs, Intraday!Send(r)
  PROVE  DayInv'
<1> PICK m \in dayLeft[r] :
       /\ \/ dayTold' = Intraday!Delivered(r, m) /\ UNCHANGED dayFaults
          \/ Intraday!Faulty /\ UNCHANGED dayTold
       /\ IF dayLeft[r] = {m} THEN Intraday!Idle(r)
          ELSE dayLeft' = [dayLeft EXCEPT ![r] = @ \ {m}]
            /\ UNCHANGED <<pc, dayNow, dayFound, dayFresh>>
  BY DEF Intraday!Send
<1>1. UNCHANGED dayClaimed /\ pc[r] = "send" /\ m \in Intraday!Messages /\ dayNow[r] \in Intraday!Days
  BY DEF Intraday!Send, DayInv, Intraday!TypeOK, RunsOnADay
\* Who is told by this message.
<1> DEFINE Told(k, c) == /\ k[1] = dayNow[r] /\ k[2] \in dayFresh[r] /\ Intraday!What(k[2]) = m[1]
                         /\ m[2] \in Intraday!Recipients(k[2]) /\ c = m[2]
<1>2. ASSUME NEW k \in Intraday!Days \X Intraday!Findings, NEW c \in Intraday!Chats
      PROVE  dayTold'[k][c] = dayTold[k][c] \/ (Told(k, c) /\ dayTold[k][c] = 0 /\ dayTold'[k][c] = 1)
  <2>1. CASE UNCHANGED dayTold
    BY <2>1
  <2>2. CASE dayTold' = Intraday!Delivered(r, m)
    <3>1. dayTold[k] \in [Intraday!Chats -> 0 .. 2]
      BY DEF DayInv, Intraday!TypeOK
    <3>2. CASE Told(k, c)
      <4>1. m = <<Intraday!What(k[2]), c>> /\ k = <<dayNow[r], k[2]>> /\ k[2] \in Intraday!Findings
        BY <1>1, <3>2 DEF Intraday!Messages
      <4>2. Owes(r, k[2], c)
        BY <3>2, <4>1 DEF Owes
      <4>3. dayTold[k][c] = 0
        BY <4>1, <4>2 DEF DayInv, OwedIsUntold
      <4>4. dayTold'[k] = [dayTold[k] EXCEPT ![m[2]] = IF @ = 2 THEN 2 ELSE @ + 1]
        BY <2>2, <3>2 DEF Intraday!Delivered
      <4> QED BY <3>1, <3>2, <4>3, <4>4
    <3>3. CASE ~Told(k, c)
      BY <2>2, <3>1, <3>3 DEF Intraday!Delivered
    <3> QED BY <3>2, <3>3
  <2> QED BY <2>1, <2>2
<1>3. \A k \in Intraday!Days \X Intraday!Findings, c \in Intraday!Chats : Told(k, c) =>
        <<k[1], Intraday!Key(k[2])>> \in dayClaimed
  BY DEF DayInv, FreshIsClaimed
<1>4. \A o \in IntradayConfig.runs \ {r} : pc'[o] = pc[o] /\ dayNow'[o] = dayNow[o]
        /\ dayFresh'[o] = dayFresh[o] /\ dayLeft'[o] = dayLeft[o]
  BY DEF Intraday!Idle, Intraday!Goto, DayInv, Intraday!TypeOK
<1>5. \/ pc'[r] = "idle" /\ dayFresh'[r] = {}
      \/ pc'[r] = "send" /\ dayFresh'[r] = dayFresh[r] /\ dayNow'[r] = dayNow[r]
           /\ dayLeft'[r] = dayLeft[r] \ {m}
  BY <1>1 DEF Intraday!Idle, Intraday!Goto, DayInv, Intraday!TypeOK
<1>6. ASSUME NEW o \in IntradayConfig.runs \ {r}, NEW f \in Intraday!Findings,
               NEW c \in Intraday!Chats, Owes(o, f, c)
      PROVE  ~Told(<<dayNow[o], f>>, c)
  BY <1>6 DEF Owes, DayInv, FreshIsMine
<1>7. ASSUME NEW f \in Intraday!Findings, NEW c \in Intraday!Chats, Owes(r, f, c)'
      PROVE  Owes(r, f, c) /\ dayNow'[r] = dayNow[r] /\ ~Told(<<dayNow[r], f>>, c)
  BY <1>1, <1>5, <1>7 DEF Owes, Intraday!Messages
<1> HIDE DEF Told
<1>8. OwedIsUntold'
  <2> SUFFICES ASSUME NEW o \in IntradayConfig.runs, NEW f \in Intraday!Findings,
                        NEW c \in Intraday!Chats, Owes(o, f, c)'
               PROVE  dayTold'[<<dayNow'[o], f>>][c] = 0
    BY DEF OwedIsUntold
  <2>1. Owes(o, f, c) /\ dayNow'[o] = dayNow[o] /\ ~Told(<<dayNow[o], f>>, c)
    <3>1. CASE o = r
      BY <1>7, <3>1
    <3>2. CASE o # r
      <4>1. Owes(o, f, c) /\ dayNow'[o] = dayNow[o]
        BY <1>4, <3>2 DEF Owes
      <4> QED BY <1>6, <3>2, <4>1
    <3> QED BY <3>1, <3>2
  <2>2. dayTold[<<dayNow[o], f>>][c] = 0
    BY <2>1 DEF DayInv, OwedIsUntold
  <2>3. dayNow[o] \in Intraday!Days
    BY <2>1 DEF Owes, DayInv, RunsOnADay
  <2>4. <<dayNow[o], f>> \in Intraday!Days \X Intraday!Findings
    BY <2>3
  <2> QED BY <1>2, <2>1, <2>2, <2>4
<1>9. ToldIsClaimed'
  <2> SUFFICES ASSUME NEW k \in Intraday!Days \X Intraday!Findings, NEW c \in Intraday!Chats,
                        dayTold'[k][c] > 0
               PROVE  <<k[1], Intraday!Key(k[2])>> \in dayClaimed
    BY <1>1 DEF ToldIsClaimed
  <2> QED BY <1>2, <1>3 DEF DayInv, ToldIsClaimed
<1>10. Intraday!OncePerDay'
  <2> SUFFICES ASSUME NEW k \in Intraday!Days \X Intraday!Findings, NEW c \in Intraday!Chats
               PROVE  dayTold'[k][c] <= 1
    BY DEF Intraday!OncePerDay
  <2> QED BY <1>2 DEF DayInv, Intraday!OncePerDay
<1>11. FreshIsClaimed'
  BY <1>1, <1>4, <1>5 DEF DayInv, FreshIsClaimed
<1>12. FreshIsMine'
  BY <1>4, <1>5 DEF DayInv, FreshIsMine
<1>13. \A o \in IntradayConfig.runs : pc'[o] = "idle" => dayFresh'[o] = {}
  BY <1>4, <1>5 DEF DayInv
<1> QED BY <1>8, <1>9, <1>10, <1>11, <1>12, <1>13 DEF DayInv

\* Each step keeps all of it.
LEMMA DayStep ==
  ASSUME Intraday!ConstantsOK, DayInv, Intraday!Next \/ UNCHANGED Intraday!vars
  PROVE  DayInv'
<1>0. Intraday!TypeOK' /\ RunsOnADay'
  BY TypesStay DEF DayInv
<1>1. ASSUME NEW r \in IntradayConfig.runs, Intraday!Begin(r)
      PROVE  DayInv'
  <2>1. UNCHANGED <<dayTold, dayClaimed, dayFresh, dayLeft>> /\ dayFresh[r] = {}
    BY <1>1 DEF Intraday!Begin, DayInv
  <2>2. \A o \in IntradayConfig.runs \ {r} : pc'[o] = pc[o] /\ dayNow'[o] = dayNow[o]
    BY <1>1 DEF Intraday!Begin, Intraday!Goto, DayInv, Intraday!TypeOK
  <2>3. FreshIsClaimed' /\ FreshIsMine'
    BY <2>1, <2>2 DEF DayInv, FreshIsClaimed, FreshIsMine
  <2>4. OwedIsUntold'
    <3> SUFFICES ASSUME NEW o \in IntradayConfig.runs, NEW f \in Intraday!Findings,
                          NEW c \in Intraday!Chats, Owes(o, f, c)'
                 PROVE  dayTold'[<<dayNow'[o], f>>][c] = 0
      BY DEF OwedIsUntold
    <3>1. o # r
      BY <2>1 DEF Owes
    <3>2. Owes(o, f, c) /\ dayNow'[o] = dayNow[o]
      BY <2>1, <2>2, <3>1 DEF Owes
    <3> QED BY <2>1, <3>2 DEF DayInv, OwedIsUntold
  <2>5. \A o \in IntradayConfig.runs : pc'[o] = "idle" => dayFresh'[o] = {}
    BY <2>1, <2>2 DEF DayInv
  <2> QED BY <1>0, <2>1, <2>3, <2>4, <2>5 DEF DayInv, ToldIsClaimed, Intraday!OncePerDay
<1>2. ASSUME NEW r \in IntradayConfig.runs, Intraday!Claim(r)
      PROVE  DayInv'
  BY <1>0, <1>2, ClaimKeeps
<1>3. ASSUME NEW r \in IntradayConfig.runs, Intraday!Send(r)
      PROVE  DayInv'
  BY <1>0, <1>3, SendKeeps
<1>4. ASSUME NEW r \in IntradayConfig.runs, Intraday!Dies(r)
      PROVE  DayInv'
  BY <1>0, <1>4, IdleKeeps DEF Intraday!Dies
<1>5. CASE Intraday!Moves \/ UNCHANGED Intraday!vars
  <2>1. UNCHANGED <<dayTold, dayClaimed, pc, dayNow, dayFresh, dayLeft>>
    BY <1>5 DEF Intraday!Moves, Intraday!vars, Intraday!run
  <2> QED BY <1>0, <2>1 DEF DayInv, FreshIsClaimed, FreshIsMine, ToldIsClaimed, OwedIsUntold,
       Owes, Intraday!OncePerDay
<1> QED BY <1>1, <1>2, <1>3, <1>4, <1>5 DEF Intraday!Next, Intraday!Step

\* As DayInv at the start.
LEMMA DayInit == ASSUME Intraday!ConstantsOK, Intraday!Init PROVE DayInv
<1>1. Intraday!TypeOK /\ RunsOnADay
  BY IntradayTypeInit
<1>2. \A k \in Intraday!Days \X Intraday!Findings, c \in Intraday!Chats : dayTold[k][c] = 0
  BY DEF Intraday!Init
<1>3. \A r \in IntradayConfig.runs : dayFresh[r] = {}
  BY DEF Intraday!Init
<1> QED BY <1>1, <1>2, <1>3
     DEF DayInv, FreshIsClaimed, FreshIsMine, ToldIsClaimed, OwedIsUntold, Owes, Intraday!OncePerDay

\* What was found is claimed, or there is a run that will claim it.
SeenIsClaimed ==
  \A d \in Intraday!Days, f \in Intraday!Findings : <<d, f>> \in daySeen =>
    \/ <<d, Intraday!Key(f)>> \in dayClaimed
    \/ \E r \in IntradayConfig.runs : pc[r] = "claim" /\ dayNow[r] = d /\ f \in dayFound[r]
\* What was claimed was told, or there is a run that owes it.
ClaimedIsTold ==
  \A d \in Intraday!Days, f \in Intraday!Findings, c \in Intraday!Chats :
    <<d, Intraday!Key(f)>> \in dayClaimed /\ c \in Intraday!Recipients(f) =>
      dayTold[<<d, f>>][c] = 1 \/ \E r \in IntradayConfig.runs : dayNow[r] = d /\ Owes(r, f, c)

\* As long as nothing fails.
IntradayInv == DayInv /\ (dayFaults = 0 => SeenIsClaimed /\ ClaimedIsTold)

\* A message goes to a chat it is for.
LEMMA MessageOf ==
  ASSUME NEW fs, NEW f \in fs, NEW c \in Intraday!Recipients(f)
  PROVE  <<Intraday!What(f), c>> \in Intraday!MessagesFor(fs)
BY DEF Intraday!MessagesFor

\* What is found is with the run that found it.
LEMMA BeginTells ==
  ASSUME DayInv, SeenIsClaimed, ClaimedIsTold, NEW r \in IntradayConfig.runs, Intraday!Begin(r)
  PROVE  SeenIsClaimed' /\ ClaimedIsTold'
<1>1. /\ UNCHANGED <<dayTold, dayClaimed, dayFresh, dayLeft>> /\ pc[r] = "idle" /\ dayFresh[r] = {}
      /\ dayDay \in Intraday!Days
  BY DEF Intraday!Begin, DayInv, Intraday!TypeOK
<1>2. \A o \in IntradayConfig.runs \ {r} : pc'[o] = pc[o] /\ dayNow'[o] = dayNow[o]
        /\ dayFound'[o] = dayFound[o]
  BY DEF Intraday!Begin, Intraday!Goto, DayInv, Intraday!TypeOK
<1>3. /\ pc'[r] = "claim" /\ dayNow'[r] = dayDay /\ dayFound'[r] = Intraday!FoundNow
      /\ daySeen' = daySeen \cup ({dayDay} \X Intraday!FoundNow)
  BY DEF Intraday!Begin, Intraday!Goto, DayInv, Intraday!TypeOK
<1>4. SeenIsClaimed'
  <2> SUFFICES ASSUME NEW d \in Intraday!Days, NEW f \in Intraday!Findings, <<d, f>> \in daySeen',
                        <<d, Intraday!Key(f)>> \notin dayClaimed
               PROVE  \E o \in IntradayConfig.runs : pc'[o] = "claim" /\ dayNow'[o] = d
                        /\ f \in dayFound'[o]
    BY <1>1 DEF SeenIsClaimed
  <2>1. CASE <<d, f>> \in daySeen
    <3>1. PICK o \in IntradayConfig.runs : pc[o] = "claim" /\ dayNow[o] = d /\ f \in dayFound[o]
      BY <2>1 DEF SeenIsClaimed
    <3>2. o # r
      BY <1>1, <3>1
    <3> QED BY <1>2, <3>1, <3>2
  <2>2. CASE <<d, f>> \in {dayDay} \X Intraday!FoundNow
    BY <1>3, <2>2
  <2> QED BY <1>3, <2>1, <2>2
<1>5. ClaimedIsTold'
  <2> SUFFICES ASSUME NEW d \in Intraday!Days, NEW f \in Intraday!Findings, NEW c \in Intraday!Chats,
                      <<d, Intraday!Key(f)>> \in dayClaimed, c \in Intraday!Recipients(f),
                        dayTold[<<d, f>>][c] # 1
               PROVE  \E o \in IntradayConfig.runs : dayNow'[o] = d /\ Owes(o, f, c)'
    BY <1>1 DEF ClaimedIsTold
  <2>1. PICK o \in IntradayConfig.runs : dayNow[o] = d /\ Owes(o, f, c)
    BY DEF ClaimedIsTold
  <2>2. o # r
    BY <1>1, <2>1 DEF Owes
  <2> QED BY <1>1, <1>2, <2>1, <2>2 DEF Owes
<1> QED BY <1>4, <1>5

\* Who claims, owes.
LEMMA ClaimTells ==
  ASSUME DayInv, SeenIsClaimed, ClaimedIsTold, NEW r \in IntradayConfig.runs, Intraday!Claim(r)
  PROVE  SeenIsClaimed' /\ ClaimedIsTold'
<1> PICK f \in dayFound[r] :
       LET mine == dayFresh[r] \cup IF Intraday!IsNew(dayNow[r], f) THEN {f} ELSE {}
       IN  /\ dayClaimed' = dayClaimed \cup {<<dayNow[r], Intraday!Key(f)>>}
           /\ IF dayFound[r] # {f}
                THEN /\ dayFound' = [dayFound EXCEPT ![r] = @ \ {f}]
                     /\ dayFresh' = [dayFresh EXCEPT ![r] = mine]
                     /\ UNCHANGED <<pc, dayNow, dayLeft>>
              ELSE IF Intraday!MessagesFor(mine) = {} THEN Intraday!Idle(r)
              ELSE /\ dayFound' = [dayFound EXCEPT ![r] = {}]
                   /\ dayFresh' = [dayFresh EXCEPT ![r] = mine]
                   /\ dayLeft' = [dayLeft EXCEPT ![r] = Intraday!MessagesFor(mine)]
                   /\ Intraday!Goto(r, "send")
                   /\ UNCHANGED dayNow
  BY DEF Intraday!Claim
<1> DEFINE mine == dayFresh[r] \cup IF Intraday!IsNew(dayNow[r], f) THEN {f} ELSE {}
<1>1. /\ UNCHANGED <<dayTold, daySeen>> /\ pc[r] = "claim" /\ f \in Intraday!Findings
      /\ dayNow[r] \in Intraday!Days
  BY DEF Intraday!Claim, DayInv, Intraday!TypeOK, RunsOnADay
<1>2. dayClaimed' = dayClaimed \cup {<<dayNow[r], Intraday!Key(f)>>}
  OBVIOUS
<1>3. dayFresh[r] \subseteq mine /\ (<<dayNow[r], Intraday!Key(f)>> \notin dayClaimed => f \in mine)
  BY DEF Intraday!IsNew
<1>4. \A o \in IntradayConfig.runs \ {r} : /\ pc'[o] = pc[o] /\ dayNow'[o] = dayNow[o]
                                           /\ dayFound'[o] = dayFound[o]
                                           /\ dayFresh'[o] = dayFresh[o] /\ dayLeft'[o] = dayLeft[o]
  BY DEF Intraday!Idle, Intraday!Goto, DayInv, Intraday!TypeOK
<1>5. \A g \in dayFound[r] \ {f} : pc'[r] = "claim" /\ dayNow'[r] = dayNow[r] /\ g \in dayFound'[r]
  BY <1>1 DEF DayInv, Intraday!TypeOK
<1>6. SeenIsClaimed'
  <2> SUFFICES ASSUME NEW d \in Intraday!Days, NEW g \in Intraday!Findings, <<d, g>> \in daySeen,
                        <<d, Intraday!Key(g)>> \notin dayClaimed'
               PROVE  \E o \in IntradayConfig.runs : pc'[o] = "claim" /\ dayNow'[o] = d
                        /\ g \in dayFound'[o]
    BY <1>1 DEF SeenIsClaimed
  <2>1. PICK o \in IntradayConfig.runs : pc[o] = "claim" /\ dayNow[o] = d /\ g \in dayFound[o]
    BY <1>2 DEF SeenIsClaimed
  <2>2. CASE o = r
    <3>1. g # f
      BY <1>2, <2>1, <2>2
    <3> QED BY <1>5, <2>1, <2>2, <3>1
  <2>3. CASE o # r
    BY <1>4, <2>1, <2>3
  <2> QED BY <2>2, <2>3
<1>7. ASSUME NEW g \in mine, NEW c \in Intraday!Recipients(g)
      PROVE  Owes(r, g, c)' /\ dayNow'[r] = dayNow[r]
  <2>1. <<Intraday!What(g), c>> \in Intraday!MessagesFor(mine)
    BY <1>7, MessageOf
  <2>2. /\ dayFresh'[r] = mine /\ dayNow'[r] = dayNow[r]
        /\ (pc'[r] = "claim" \/ dayLeft'[r] = Intraday!MessagesFor(mine))
    BY <1>1, <2>1 DEF Intraday!Goto, DayInv, Intraday!TypeOK
  <2> HIDE DEF mine
  <2> QED BY <1>7, <2>1, <2>2 DEF Owes
<1> HIDE DEF mine
<1>8. ClaimedIsTold'
  <2> SUFFICES ASSUME NEW d \in Intraday!Days, NEW g \in Intraday!Findings, NEW c \in Intraday!Chats,
                      <<d, Intraday!Key(g)>> \in dayClaimed', c \in Intraday!Recipients(g),
                        dayTold[<<d, g>>][c] # 1
               PROVE  \E o \in IntradayConfig.runs : dayNow'[o] = d /\ Owes(o, g, c)'
    BY <1>1 DEF ClaimedIsTold
  <2>1. CASE <<d, Intraday!Key(g)>> \in dayClaimed
    <3>1. PICK o \in IntradayConfig.runs : dayNow[o] = d /\ Owes(o, g, c)
      BY <2>1 DEF ClaimedIsTold
    <3>2. CASE o = r
      <4>1. g \in mine
        BY <1>3, <3>1, <3>2 DEF Owes
      <4> QED BY <1>7, <3>1, <3>2, <4>1
    <3>3. CASE o # r
      BY <1>4, <3>1, <3>3 DEF Owes
    <3> QED BY <3>2, <3>3
  <2>2. CASE <<d, Intraday!Key(g)>> \notin dayClaimed
    <3>1. d = dayNow[r] /\ Intraday!Key(g) = Intraday!Key(f)
      BY <1>2, <2>2
    <3>2. g = f
      BY <1>1, <3>1, KeysDiffer
    <3>3. g \in mine
      BY <1>3, <2>2, <3>1, <3>2
    <3> QED BY <1>7, <3>1, <3>3
  <2> QED BY <2>1, <2>2
<1> QED BY <1>6, <1>8

\* A message that arrives settles what its run owed the chat.
LEMMA SendTells ==
  ASSUME DayInv, SeenIsClaimed, ClaimedIsTold, NEW r \in IntradayConfig.runs, Intraday!Send(r),
           dayFaults \in Nat, dayFaults' = 0
  PROVE  SeenIsClaimed' /\ ClaimedIsTold'
<1> PICK m \in dayLeft[r] :
       /\ \/ dayTold' = Intraday!Delivered(r, m) /\ UNCHANGED dayFaults
          \/ Intraday!Faulty /\ UNCHANGED dayTold
       /\ IF dayLeft[r] = {m} THEN Intraday!Idle(r)
          ELSE dayLeft' = [dayLeft EXCEPT ![r] = @ \ {m}]
            /\ UNCHANGED <<pc, dayNow, dayFound, dayFresh>>
  BY DEF Intraday!Send
<1>1. /\ UNCHANGED <<dayClaimed, daySeen>> /\ pc[r] = "send" /\ m \in Intraday!Messages
      /\ dayNow[r] \in Intraday!Days
  BY DEF Intraday!Send, DayInv, Intraday!TypeOK, RunsOnADay
<1>2. dayTold' = Intraday!Delivered(r, m)
  BY DEF Intraday!Faulty
<1>3. \A o \in IntradayConfig.runs \ {r} : /\ pc'[o] = pc[o] /\ dayNow'[o] = dayNow[o]
                                           /\ dayFound'[o] = dayFound[o]
                                           /\ dayFresh'[o] = dayFresh[o] /\ dayLeft'[o] = dayLeft[o]
  BY DEF Intraday!Idle, Intraday!Goto, DayInv, Intraday!TypeOK
<1>5. SeenIsClaimed'
  <2> SUFFICES ASSUME NEW d \in Intraday!Days, NEW g \in Intraday!Findings, <<d, g>> \in daySeen,
                        <<d, Intraday!Key(g)>> \notin dayClaimed
               PROVE  \E o \in IntradayConfig.runs : pc'[o] = "claim" /\ dayNow'[o] = d
                        /\ g \in dayFound'[o]
    BY <1>1 DEF SeenIsClaimed
  <2>1. PICK o \in IntradayConfig.runs : pc[o] = "claim" /\ dayNow[o] = d /\ g \in dayFound[o]
    BY DEF SeenIsClaimed
  <2>2. o # r
    BY <1>1, <2>1
  <2> QED BY <1>3, <2>1, <2>2
<1>6. ASSUME NEW k \in Intraday!Days \X Intraday!Findings, NEW c \in Intraday!Chats
      PROVE  \/ dayTold'[k][c] = dayTold[k][c]
             \/ dayTold[k][c] = 0 /\ dayTold'[k][c] = 1
  <2>1. dayTold[k] \in [Intraday!Chats -> 0 .. 2]
    BY DEF DayInv, Intraday!TypeOK
  <2>2. CASE k[1] = dayNow[r] /\ k[2] \in dayFresh[r] /\ Intraday!What(k[2]) = m[1]
               /\ m[2] \in Intraday!Recipients(k[2]) /\ c = m[2]
    <3>1. m = <<Intraday!What(k[2]), c>> /\ k = <<dayNow[r], k[2]>> /\ k[2] \in Intraday!Findings
      BY <1>1, <2>2 DEF Intraday!Messages
    <3>2. Owes(r, k[2], c)
      BY <2>2, <3>1 DEF Owes
    <3>3. dayTold[k][c] = 0
      BY <3>1, <3>2 DEF DayInv, OwedIsUntold
    <3>4. dayTold'[k] = [dayTold[k] EXCEPT ![m[2]] = IF @ = 2 THEN 2 ELSE @ + 1]
      BY <1>2, <2>2 DEF Intraday!Delivered
    <3> QED BY <2>1, <2>2, <3>3, <3>4
  <2>3. CASE ~(k[1] = dayNow[r] /\ k[2] \in dayFresh[r] /\ Intraday!What(k[2]) = m[1]
               /\ m[2] \in Intraday!Recipients(k[2]) /\ c = m[2])
    BY <1>2, <2>1, <2>3 DEF Intraday!Delivered
  <2> QED BY <2>2, <2>3
<1>7. ASSUME NEW g \in Intraday!Findings, NEW c \in Intraday!Chats, Owes(r, g, c),
               m = <<Intraday!What(g), c>>
      PROVE  dayTold'[<<dayNow[r], g>>][c] = 1
  <2> DEFINE k == <<dayNow[r], g>>
  <2>1. /\ k \in Intraday!Days \X Intraday!Findings /\ k[1] = dayNow[r] /\ k[2] = g
        /\ m[1] = Intraday!What(g) /\ m[2] = c
    BY <1>1, <1>7
  <2>2. dayTold[k] \in [Intraday!Chats -> 0 .. 2] /\ dayTold[k][c] = 0
    BY <1>7, <2>1 DEF DayInv, Intraday!TypeOK, OwedIsUntold
  <2>3. g \in dayFresh[r] /\ c \in Intraday!Recipients(g)
    BY <1>7 DEF Owes
  <2> HIDE DEF k
  <2>4. dayTold'[k] = [dayTold[k] EXCEPT ![m[2]] = IF @ = 2 THEN 2 ELSE @ + 1]
    BY <1>2, <2>1, <2>3 DEF Intraday!Delivered
  <2>5. dayTold'[k][c] = 1
    BY <2>1, <2>2, <2>4
  <2> QED BY <2>5 DEF k
<1>8. ClaimedIsTold'
  <2> SUFFICES ASSUME NEW d \in Intraday!Days, NEW g \in Intraday!Findings, NEW c \in Intraday!Chats,
                      <<d, Intraday!Key(g)>> \in dayClaimed, c \in Intraday!Recipients(g),
                        dayTold'[<<d, g>>][c] # 1
               PROVE  \E o \in IntradayConfig.runs : dayNow'[o] = d /\ Owes(o, g, c)'
    BY <1>1 DEF ClaimedIsTold
  <2>1. <<d, g>> \in Intraday!Days \X Intraday!Findings
    OBVIOUS
  <2>2. dayTold[<<d, g>>][c] # 1
    BY <1>6, <2>1
  <2>3. PICK o \in IntradayConfig.runs : dayNow[o] = d /\ Owes(o, g, c)
    BY <2>2 DEF ClaimedIsTold
  <2>4. CASE o # r
    BY <1>3, <2>3, <2>4 DEF Owes
  <2>5. CASE o = r
    <3>1. <<Intraday!What(g), c>> \in dayLeft[r] /\ g \in dayFresh[r] /\ m # <<Intraday!What(g), c>>
      BY <1>1, <1>7, <2>3, <2>5 DEF Owes
    <3>2. dayLeft[r] # {m}
      BY <3>1
    <3>3. dayNow'[r] = dayNow[r] /\ dayFresh'[r] = dayFresh[r] /\ dayLeft'[r] = dayLeft[r] \ {m}
      BY <3>2 DEF DayInv, Intraday!TypeOK
    <3> QED BY <2>3, <2>5, <3>1, <3>3 DEF Owes
  <2> QED BY <2>4, <2>5
<1> QED BY <1>5, <1>8

\* Each step keeps both invariants.
LEMMA IntradayStep ==
  ASSUME Intraday!ConstantsOK, IntradayInv, Intraday!Next \/ UNCHANGED Intraday!vars
  PROVE  IntradayInv'
<1>1. DayInv /\ DayInv'
  BY DayStep DEF IntradayInv
<1> SUFFICES ASSUME dayFaults' = 0
             PROVE  SeenIsClaimed' /\ ClaimedIsTold'
  BY <1>1 DEF IntradayInv
<1>2. dayFaults \in Nat
  BY <1>1 DEF DayInv, Intraday!TypeOK, Intraday!ConstantsOK
<1>3. dayFaults = 0
  BY <1>2 DEF Intraday!Next, Intraday!Step, Intraday!Begin, Intraday!Claim, Intraday!Send,
       Intraday!Dies, Intraday!Moves, Intraday!Faulty, Intraday!vars
<1>4. SeenIsClaimed /\ ClaimedIsTold
  BY <1>3 DEF IntradayInv
<1>5. ASSUME NEW r \in IntradayConfig.runs, Intraday!Begin(r) PROVE SeenIsClaimed' /\ ClaimedIsTold'
  BY <1>1, <1>4, <1>5, BeginTells
<1>6. ASSUME NEW r \in IntradayConfig.runs, Intraday!Claim(r) PROVE SeenIsClaimed' /\ ClaimedIsTold'
  BY <1>1, <1>4, <1>6, ClaimTells
<1>7. ASSUME NEW r \in IntradayConfig.runs, Intraday!Send(r) PROVE SeenIsClaimed' /\ ClaimedIsTold'
  BY <1>1, <1>2, <1>4, <1>7, SendTells
<1>8. ASSUME NEW r \in IntradayConfig.runs, Intraday!Dies(r) PROVE FALSE
  BY <1>2, <1>8 DEF Intraday!Dies, Intraday!Faulty
<1>9. CASE Intraday!Moves \/ UNCHANGED Intraday!vars
  <2>1. UNCHANGED <<dayTold, dayClaimed, pc, dayNow, dayFound, dayFresh, dayLeft, daySeen>>
    BY <1>9 DEF Intraday!Moves, Intraday!vars, Intraday!run
  <2> QED BY <1>4, <2>1 DEF SeenIsClaimed, ClaimedIsTold, Owes
<1> QED BY <1>5, <1>6, <1>7, <1>8, <1>9 DEF Intraday!Next, Intraday!Step

\* Nothing is found, claimed or told yet.
LEMMA IntradayInit == ASSUME Intraday!ConstantsOK, Intraday!Init PROVE IntradayInv
<1>1. DayInv
  BY DayInit
<1>2. daySeen = {} /\ dayClaimed = {}
  BY DEF Intraday!Init
<1> QED BY <1>1, <1>2 DEF IntradayInv, SeenIsClaimed, ClaimedIsTold

\* When all runs are over nobody owes anything.
LEMMA IntradayImplies == ASSUME IntradayInv PROVE Intraday!OncePerDay /\ Intraday!FoundIsTold
<1>1. Intraday!OncePerDay
  BY DEF IntradayInv, DayInv
<1>2. ASSUME dayFaults = 0, \A r \in IntradayConfig.runs : pc[r] = "idle", NEW k \in daySeen,
               NEW c \in Intraday!Recipients(k[2])
      PROVE  dayTold[k][c] = 1
  <2>1. k[1] \in Intraday!Days /\ k[2] \in Intraday!Findings /\ k = <<k[1], k[2]>>
    BY DEF IntradayInv, DayInv, Intraday!TypeOK
  <2>2. c \in Intraday!Chats
    BY <2>1 DEF Intraday!Recipients, Intraday!Chats, Intraday!Findings, Intraday!Stops
  <2>3. <<k[1], Intraday!Key(k[2])>> \in dayClaimed
    BY <1>2, <2>1 DEF IntradayInv, SeenIsClaimed
  <2>4. \A r \in IntradayConfig.runs : ~Owes(r, k[2], c)
    BY <1>2 DEF IntradayInv, DayInv, Owes
  <2> QED BY <1>2, <2>1, <2>2, <2>3, <2>4 DEF IntradayInv, ClaimedIsTold
<1> QED BY <1>1, <1>2 DEF Intraday!FoundIsTold

-----------------------------------------------------------------------------
(* The outcomes of gems. *)

outNow == v1
outOpen == v2
outMoves == v3
outRows == v4
outOutcome == v5
outBegun == v6
outHorizon == v7
outLeft == v8
outBatch == v9
outFaults == v10
USE DEF outNow, outOpen, outMoves, outRows, outOutcome, outBegun, outHorizon, outLeft, outBatch,
     outFaults

\* What is to be recorded of row k says "gone" only of a pool that is.
Rightly(k, o) == GemOutcome!OneRequest(GemOutcomeConfig.chainOf[k.token]) /\ o[1] = "pool_gone" =>
  ~o[2]

\* Whatever a pass has still to record, it has from one answer: and what one request
\* for a whole chain answered, it answered of every token.
OutcomeInv ==
  /\ GemOutcome!TypeOK
  /\ outLeft \in [GemOutcomeConfig.runs -> SUBSET GemOutcome!Rows]
  /\ outBatch \in [GemOutcomeConfig.runs -> SUBSET (GemOutcome!Rows \X GemOutcome!Outcomes)]
  /\ outRows \subseteq DOMAIN outOutcome
  /\ \A r \in GemOutcomeConfig.runs : \A b \in outBatch[r] : Rightly(b[1], b[2])
  /\ GemOutcome!GoneIsGone

\* There is a shortest of some horizons.
LEMMA HorizonExists ==
  ASSUME GemOutcome!ConstantsOK, NEW H \in SUBSET GemOutcomeConfig.horizons, H # {}
  PROVE  (CHOOSE h \in H : \A k \in H : h <= k) \in GemOutcomeConfig.horizons
<1>1. \E h \in H : \A k \in H : h <= k
  BY LeastExists DEF GemOutcome!ConstantsOK
<1> QED BY <1>1

\* Where a pass goes on.
LEMMA OutcomeMoves ==
  ASSUME GemOutcome!ConstantsOK, OutcomeInv, NEW r \in GemOutcomeConfig.runs, NEW rest,
           GemOutcome!NextHorizon(r) \/ GemOutcome!NextChain(r, rest)
  PROVE  pc' \in [GemOutcomeConfig.runs -> {"idle", "read", "fetch", "record"}]
           /\ outHorizon' \in [GemOutcomeConfig.runs -> GemOutcomeConfig.horizons]
<1>1. ASSUME GemOutcome!NextHorizon(r)
      PROVE  pc' \in [GemOutcomeConfig.runs -> {"idle", "read", "fetch", "record"}]
               /\ outHorizon' \in [GemOutcomeConfig.runs -> GemOutcomeConfig.horizons]
  <2> DEFINE later == {h \in GemOutcomeConfig.horizons : h > outHorizon[r]}
  <2>1. CASE later = {}
    BY <1>1, <2>1 DEF GemOutcome!NextHorizon, GemOutcome!Goto, OutcomeInv, GemOutcome!TypeOK
  <2>2. CASE later # {}
    <3> DEFINE next == CHOOSE h \in later : \A k \in later : h <= k
    <3>1. next \in GemOutcomeConfig.horizons
      BY <2>2, HorizonExists
    <3>2. outHorizon' = [outHorizon EXCEPT ![r] = next] /\ GemOutcome!Goto(r, "read")
      BY <1>1, <2>2 DEF GemOutcome!NextHorizon
    <3> HIDE DEF next
    <3> QED BY <3>1, <3>2 DEF GemOutcome!Goto, OutcomeInv, GemOutcome!TypeOK
  <2> QED BY <2>1, <2>2
<1> QED BY <1>1 DEF GemOutcome!NextChain, GemOutcome!Goto, OutcomeInv, GemOutcome!TypeOK

\* What a step that leaves rows and outcomes alone has to show.
LEMMA SameOutcomes ==
  ASSUME OutcomeInv, UNCHANGED <<outRows, outOutcome>>, GemOutcome!TypeOK',
         outLeft' \in [GemOutcomeConfig.runs -> SUBSET GemOutcome!Rows],
           outBatch' \in [GemOutcomeConfig.runs -> SUBSET (GemOutcome!Rows \X GemOutcome!Outcomes)],
         \A r \in GemOutcomeConfig.runs : \A b \in outBatch'[r] : Rightly(b[1], b[2])
  PROVE  OutcomeInv'
BY DEF OutcomeInv, GemOutcome!GoneIsGone, GemOutcome!Recorded, Rightly

\* A row comes without an outcome.
LEMMA SurfaceKeeps ==
  ASSUME GemOutcome!ConstantsOK, OutcomeInv, NEW kind \in GemOutcome!Kinds,
           NEW t \in GemOutcomeConfig.tokens, GemOutcome!Surface(kind, t)
  PROVE  OutcomeInv'
<1> DEFINE k == [kind |-> kind, token |-> t, at |-> outNow, pool |-> GemOutcome!Deepest(t)]
<1>1. UNCHANGED <<outNow, outOpen, outMoves, pc, outBegun, outHorizon, outLeft, outBatch, outFaults>>
  BY DEF GemOutcome!Surface, GemOutcome!pass
<1>2. outRows' = outRows \cup {k} /\ \A l \in outRows :
        ~(l.kind = kind /\ l.token = t /\ l.at = outNow)
  BY DEF GemOutcome!Surface
<1>3. k \in GemOutcome!Rows /\ k.kind = kind /\ k.token = t /\ k.at = outNow
  BY DEF GemOutcome!Rows, GemOutcome!Deepest, GemOutcome!Pools, OutcomeInv, GemOutcome!TypeOK
<1>4. outOutcome' = [x \in outRows \cup {k} |-> IF x = k THEN [h \in GemOutcomeConfig.horizons |-> Off]
        ELSE outOutcome[x]]
  BY DEF GemOutcome!Surface
<1> HIDE DEF k
<1>5. k \notin outRows
  BY <1>2, <1>3
<1>6. outOutcome'[k] = [h \in GemOutcomeConfig.horizons |-> Off] /\ \A l \in outRows :
        outOutcome'[l] = outOutcome[l]
  BY <1>4, <1>5
<1>7. outRows' \subseteq DOMAIN outOutcome'
  BY <1>2, <1>4
<1>8. \A l \in outRows' : outOutcome'[l] \in [GemOutcomeConfig.horizons -> GemOutcome!Outcomes \cup {Off}]
  BY <1>2, <1>6 DEF OutcomeInv, GemOutcome!TypeOK
<1>9. \A l, m \in outRows' : l.kind = m.kind /\ l.token = m.token /\ l.at = m.at => l = m
  <2> SUFFICES ASSUME NEW l \in outRows', NEW m \in outRows', l.kind = m.kind, l.token = m.token,
                        l.at = m.at
               PROVE  l = m
    OBVIOUS
  <2>1. CASE l \in outRows /\ m \in outRows
    BY <2>1 DEF OutcomeInv, GemOutcome!TypeOK
  <2>2. CASE l \notin outRows \/ m \notin outRows
    BY <1>2, <1>3, <2>2
  <2> QED BY <2>1, <2>2
<1>10. \A r \in GemOutcomeConfig.runs : outLeft[r] \subseteq outRows'
         /\ outBatch[r] \subseteq outRows' \X GemOutcome!Outcomes
  BY <1>2 DEF OutcomeInv, GemOutcome!TypeOK
<1>11. outRows' \subseteq GemOutcome!Rows
  BY <1>2, <1>3 DEF OutcomeInv, GemOutcome!TypeOK
<1>12. GemOutcome!TypeOK'
  BY <1>1, <1>8, <1>9, <1>10, <1>11 DEF OutcomeInv, GemOutcome!TypeOK
<1>13. GemOutcome!GoneIsGone'
  BY <1>2, <1>6 DEF GemOutcome!GoneIsGone, GemOutcome!Recorded, OutcomeInv
<1> QED BY <1>1, <1>7, <1>12, <1>13 DEF OutcomeInv, Rightly

\* One answer: whom one request for the chain leaves out has no pool.
LEMMA FetchKeeps ==
  ASSUME GemOutcome!ConstantsOK, OutcomeInv, NEW r \in GemOutcomeConfig.runs, GemOutcome!Fetch(r)
  PROVE  OutcomeInv'
<1>1. PICK c \in {GemOutcomeConfig.chainOf[k.token] : k \in outLeft[r]} :
       LET mine   == {k \in outLeft[r] : GemOutcomeConfig.chainOf[k.token] = c}
           asked  == {k.token : k \in mine}
           rest   == outLeft[r] \ mine
       IN  \E failed \in SUBSET {GemOutcomeConfig.batchOf[t] : t \in asked} :
             LET answered ==
                   {t \in asked : GemOutcomeConfig.batchOf[t] \notin failed /\ outOpen[t] # {}}
             IN  \E quote \in [asked -> GemOutcome!Pools \cup {Off}] :
                   LET resolved ==
                         {k \in mine : GemOutcome!Resolved(r, k, quote[k.token], answered) # Off}
                   IN  /\ \A t \in asked : IF t \in answered THEN quote[t] \in outOpen[t] ELSE quote[t] = Off
                       /\ IF failed = {} THEN UNCHANGED outFaults ELSE GemOutcome!Faulty
                       /\ outLeft' = [outLeft EXCEPT ![r] = rest]
                       /\ outBatch' = [outBatch EXCEPT ![r] =
                            {<<k, <<GemOutcome!Resolved(r, k, quote[k.token], answered),
                                    k.pool \in outOpen[k.token]>>>> :
                               k \in resolved}]
                       /\ IF resolved = {} THEN GemOutcome!NextChain(r, rest)
                          ELSE GemOutcome!Goto(r, "record") /\ UNCHANGED outHorizon
  BY DEF GemOutcome!Fetch
<1> DEFINE mine  == {k \in outLeft[r] : GemOutcomeConfig.chainOf[k.token] = c}
           asked == {k.token : k \in mine}
           rest  == outLeft[r] \ mine
<1>2. PICK failed \in SUBSET {GemOutcomeConfig.batchOf[t] : t \in asked} :
        \E quote \in [asked -> GemOutcome!Pools \cup {Off}] :
          LET answered == {t \in asked : GemOutcomeConfig.batchOf[t] \notin failed /\ outOpen[t] # {}}
              resolved == {k \in mine : GemOutcome!Resolved(r, k, quote[k.token], answered) # Off}
          IN  /\ \A t \in asked : IF t \in answered THEN quote[t] \in outOpen[t] ELSE quote[t] = Off
              /\ IF failed = {} THEN UNCHANGED outFaults ELSE GemOutcome!Faulty
              /\ outLeft' = [outLeft EXCEPT ![r] = rest]
              /\ outBatch' = [outBatch EXCEPT ![r] =
                   {<<k, <<GemOutcome!Resolved(r, k, quote[k.token], answered),
                           k.pool \in outOpen[k.token]>>>> :
                      k \in resolved}]
              /\ IF resolved = {} THEN GemOutcome!NextChain(r, rest)
                 ELSE GemOutcome!Goto(r, "record") /\ UNCHANGED outHorizon
  BY <1>1
<1> DEFINE answered == {t \in asked : GemOutcomeConfig.batchOf[t] \notin failed /\ outOpen[t] # {}}
<1>3. PICK quote \in [asked -> GemOutcome!Pools \cup {Off}] :
        LET resolved == {k \in mine : GemOutcome!Resolved(r, k, quote[k.token], answered) # Off}
        IN  /\ \A t \in asked : IF t \in answered THEN quote[t] \in outOpen[t] ELSE quote[t] = Off
            /\ IF failed = {} THEN UNCHANGED outFaults ELSE GemOutcome!Faulty
            /\ outLeft' = [outLeft EXCEPT ![r] = rest]
            /\ outBatch' = [outBatch EXCEPT ![r] =
                 {<<k, <<GemOutcome!Resolved(r, k, quote[k.token], answered),
                         k.pool \in outOpen[k.token]>>>> :
                    k \in resolved}]
            /\ IF resolved = {} THEN GemOutcome!NextChain(r, rest)
               ELSE GemOutcome!Goto(r, "record") /\ UNCHANGED outHorizon
  BY <1>2
<1> DEFINE resolved == {k \in mine : GemOutcome!Resolved(r, k, quote[k.token], answered) # Off}
           Entry(k) ==
             <<k, <<GemOutcome!Resolved(r, k, quote[k.token], answered), k.pool \in outOpen[k.token]>>>>
           fresh    == {Entry(k) : k \in resolved}
<1>4. UNCHANGED <<outNow, outOpen, outMoves, outRows, outOutcome, outBegun>>
  BY DEF GemOutcome!Fetch
<1>5. mine \subseteq outRows /\ mine \subseteq outLeft[r] /\ \A k \in mine :
        k.token \in GemOutcomeConfig.tokens /\ k.token \in asked
  BY DEF OutcomeInv, GemOutcome!TypeOK, GemOutcome!Rows
<1>6. ASSUME NEW k \in resolved
      PROVE  Entry(k) \in outRows \X GemOutcome!Outcomes /\ Rightly(k, Entry(k)[2])
  <2> DEFINE out == GemOutcome!Resolved(r, k, quote[k.token], answered)
  <2>1. out \in GemOutcome!Bases
    BY DEF GemOutcome!Resolved, GemOutcome!Bases
  <2>2. k \in mine /\ k \in outRows
    BY <1>5
  <2>3. (k.pool \in outOpen[k.token]) \in BOOLEAN
    OBVIOUS
  <2>4. ASSUME GemOutcome!OneRequest(GemOutcomeConfig.chainOf[k.token]), out = "pool_gone"
        PROVE  outOpen[k.token] = {}
    <3>1. quote[k.token] = Off /\ answered # {}
      BY <2>4 DEF GemOutcome!Resolved, GemOutcome!Gone, GemOutcome!FeedAnswered
    <3>2. PICK t \in answered : TRUE
      BY <3>1
    <3>3. t \in asked /\ GemOutcomeConfig.batchOf[t] \notin failed
      BY <3>2
    <3>4. PICK l \in mine : t = l.token
      BY <3>3
    <3>5. /\ GemOutcomeConfig.chainOf[t] = c /\ GemOutcomeConfig.chainOf[k.token] = c
          /\ t \in GemOutcomeConfig.tokens /\ k.token \in GemOutcomeConfig.tokens
      BY <1>5, <2>2, <3>4
    <3>6. GemOutcomeConfig.batchOf[k.token] = GemOutcomeConfig.batchOf[t]
      BY <2>4, <3>5 DEF GemOutcome!OneRequest
    <3>7. k.token \in asked
      BY <2>2
    <3>8. CASE k.token \in answered
      <4>1. quote[k.token] \in outOpen[k.token]
        BY <1>3, <3>7, <3>8
      <4>2. outOpen[k.token] \subseteq GemOutcome!Pools
        BY <3>5 DEF OutcomeInv, GemOutcome!TypeOK
      <4> QED BY <3>1, <4>1, <4>2 DEF GemOutcome!ConstantsOK
    <3>9. CASE k.token \notin answered
      BY <3>3, <3>6, <3>7, <3>9
    <3> QED BY <3>8, <3>9
  <2> HIDE DEF out, mine, answered
  <2>5. Entry(k) = <<k, <<out, k.pool \in outOpen[k.token]>>>>
    BY DEF out
  <2> HIDE DEF Entry
  <2>6. Entry(k) \in outRows \X GemOutcome!Outcomes
    <3>1. <<out, k.pool \in outOpen[k.token]>> \in GemOutcome!Outcomes
      BY <2>1, <2>3 DEF GemOutcome!Outcomes
    <3> QED BY <2>2, <2>5, <3>1
  <2>7. Rightly(k, Entry(k)[2])
    <3>1. Entry(k)[2][1] = out /\ Entry(k)[2][2] = (k.pool \in outOpen[k.token])
      BY <2>5
    <3>2. out = "pool_gone" /\ GemOutcome!OneRequest(GemOutcomeConfig.chainOf[k.token]) =>
            k.pool \notin outOpen[k.token]
      BY <2>4
    <3> QED BY <3>1, <3>2 DEF Rightly
  <2> QED BY <2>6, <2>7
<1>7. outLeft' = [outLeft EXCEPT ![r] = rest] /\ outBatch' = [outBatch EXCEPT ![r] = fresh]
  BY <1>3
<1>8. /\ pc' \in [GemOutcomeConfig.runs -> {"idle", "read", "fetch", "record"}]
      /\ outHorizon' \in [GemOutcomeConfig.runs -> GemOutcomeConfig.horizons]
  <2>1. CASE resolved = {}
    <3>1. GemOutcome!NextChain(r, rest)
      BY <1>3, <2>1
    <3> HIDE DEF rest
    <3> QED BY <3>1, OutcomeMoves
  <2>2. CASE resolved # {}
    <3>1. GemOutcome!Goto(r, "record") /\ UNCHANGED outHorizon
      BY <1>3, <2>2
    <3> QED BY <3>1 DEF GemOutcome!Goto, OutcomeInv, GemOutcome!TypeOK
  <2> QED BY <2>1, <2>2
<1>9. outFaults' \in 0 .. GemOutcomeConfig.maxFaults
  BY <1>3 DEF GemOutcome!Faulty, OutcomeInv, GemOutcome!TypeOK, GemOutcome!ConstantsOK
<1>10. fresh \subseteq outRows \X GemOutcome!Outcomes /\ \A b \in fresh : Rightly(b[1], b[2])
  <2>1. \A k \in resolved : Entry(k)[1] = k
    OBVIOUS
  <2> HIDE DEF resolved, Entry
  <2> QED BY <1>6, <2>1
<1>11. rest \subseteq outRows /\ outRows \subseteq GemOutcome!Rows
  BY DEF OutcomeInv, GemOutcome!TypeOK
<1> HIDE DEF fresh, rest
<1>12. /\ outLeft' \in [GemOutcomeConfig.runs -> SUBSET GemOutcome!Rows] /\ outLeft'[r] = rest
       /\ \A o \in GemOutcomeConfig.runs \ {r} : outLeft'[o] = outLeft[o]
  BY <1>7, <1>11 DEF OutcomeInv
<1>13. /\ outBatch' \in [GemOutcomeConfig.runs -> SUBSET (GemOutcome!Rows \X GemOutcome!Outcomes)]
       /\ outBatch'[r] = fresh
     /\ \A o \in GemOutcomeConfig.runs \ {r} : outBatch'[o] = outBatch[o]
  BY <1>7, <1>10, <1>11 DEF OutcomeInv
<1>14. \A o \in GemOutcomeConfig.runs : outLeft'[o] \subseteq outRows
         /\ outBatch'[o] \subseteq outRows \X GemOutcome!Outcomes
  BY <1>10, <1>11, <1>12, <1>13 DEF OutcomeInv, GemOutcome!TypeOK
<1>15. \A o \in GemOutcomeConfig.runs : \A b \in outBatch'[o] : Rightly(b[1], b[2])
  BY <1>10, <1>13 DEF OutcomeInv
<1>16. GemOutcome!TypeOK'
  BY <1>4, <1>8, <1>9, <1>14 DEF OutcomeInv, GemOutcome!TypeOK
<1> QED BY <1>4, <1>12, <1>13, <1>15, <1>16, SameOutcomes

\* What is recorded is what was to be.
LEMMA RecordKeeps ==
  ASSUME GemOutcome!ConstantsOK, OutcomeInv, NEW r \in GemOutcomeConfig.runs, GemOutcome!Record(r)
  PROVE  OutcomeInv'
<1> PICK b \in outBatch[r] :
      /\ outOutcome' = [outOutcome EXCEPT ![b[1]][outHorizon[r]] = b[2]]
      /\ outBatch' = [outBatch EXCEPT ![r] = @ \ {b}]
      /\ IF outBatch[r] = {b} THEN GemOutcome!NextChain(r, outLeft[r])
           ELSE UNCHANGED <<pc, outHorizon>>
  BY DEF GemOutcome!Record
<1>1. UNCHANGED <<outNow, outOpen, outMoves, outRows, outBegun, outLeft, outFaults>>
  BY DEF GemOutcome!Record
<1>2. /\ b[1] \in outRows /\ b[2] \in GemOutcome!Outcomes /\ Rightly(b[1], b[2])
      /\ outHorizon[r] \in GemOutcomeConfig.horizons
  BY DEF OutcomeInv, GemOutcome!TypeOK
<1>3. /\ pc' \in [GemOutcomeConfig.runs -> {"idle", "read", "fetch", "record"}]
      /\ outHorizon' \in [GemOutcomeConfig.runs -> GemOutcomeConfig.horizons]
  <2>1. CASE outBatch[r] = {b}
    BY <2>1, OutcomeMoves
  <2>2. CASE outBatch[r] # {b}
    BY <2>2 DEF OutcomeInv, GemOutcome!TypeOK
  <2> QED BY <2>1, <2>2
<1>4. /\ outBatch' \in [GemOutcomeConfig.runs -> SUBSET (GemOutcome!Rows \X GemOutcome!Outcomes)]
      /\ \A o \in GemOutcomeConfig.runs : outBatch'[o] \subseteq outBatch[o]
  BY DEF OutcomeInv
<1>5. DOMAIN outOutcome' = DOMAIN outOutcome
  OBVIOUS
<1>6. \A k \in outRows : k # b[1] => outOutcome'[k] = outOutcome[k]
  BY DEF OutcomeInv
<1>7. outOutcome'[b[1]] = [outOutcome[b[1]] EXCEPT ![outHorizon[r]] = b[2]]
  BY <1>2 DEF OutcomeInv
<1>8. outOutcome[b[1]] \in [GemOutcomeConfig.horizons -> GemOutcome!Outcomes \cup {Off}]
  BY <1>2 DEF OutcomeInv, GemOutcome!TypeOK
<1>9. \A k \in outRows : outOutcome'[k] \in [GemOutcomeConfig.horizons -> GemOutcome!Outcomes \cup {Off}]
  BY <1>2, <1>6, <1>7, <1>8 DEF OutcomeInv, GemOutcome!TypeOK
<1>10. \A o \in GemOutcomeConfig.runs : outLeft[o] \subseteq outRows
         /\ outBatch'[o] \subseteq outRows \X GemOutcome!Outcomes
  BY <1>4 DEF OutcomeInv, GemOutcome!TypeOK
<1>11. GemOutcome!TypeOK'
  BY <1>1, <1>3, <1>9, <1>10 DEF OutcomeInv, GemOutcome!TypeOK
<1>12. ASSUME NEW k \in outRows, NEW h \in GemOutcomeConfig.horizons,
                GemOutcome!OneRequest(GemOutcomeConfig.chainOf[k.token]), GemOutcome!Recorded(k, h)',
              outOutcome'[k][h][1] = "pool_gone"
       PROVE  ~outOutcome'[k][h][2]
  <2>1. CASE k = b[1] /\ h = outHorizon[r]
    <3>1. outOutcome'[k][h] = b[2]
      BY <1>7, <1>8, <2>1
    <3> QED BY <1>2, <1>12, <2>1, <3>1 DEF Rightly
  <2>2. CASE ~(k = b[1] /\ h = outHorizon[r])
    <3>1. outOutcome'[k][h] = outOutcome[k][h]
      BY <1>6, <1>7, <1>8, <2>2
    <3> QED BY <1>12, <3>1 DEF OutcomeInv, GemOutcome!GoneIsGone, GemOutcome!Recorded
  <2> QED BY <2>1, <2>2
<1>13. GemOutcome!GoneIsGone'
  BY <1>1, <1>12 DEF GemOutcome!GoneIsGone
<1>14. \A o \in GemOutcomeConfig.runs : \A d \in outBatch'[o] : Rightly(d[1], d[2])
  BY <1>4 DEF OutcomeInv
<1> QED BY <1>1, <1>4, <1>5, <1>11, <1>13, <1>14 DEF OutcomeInv, Rightly

\* Each step keeps it.
LEMMA OutcomeStep ==
  ASSUME GemOutcome!ConstantsOK, OutcomeInv, GemOutcome!Next \/ UNCHANGED GemOutcome!vars
  PROVE  OutcomeInv'
<1>1. ASSUME NEW r \in GemOutcomeConfig.runs, GemOutcome!Begin(r)
      PROVE  OutcomeInv'
  <2>1. GemOutcome!First \in GemOutcomeConfig.horizons
    BY HorizonExists DEF GemOutcome!First, GemOutcome!ConstantsOK
  <2>2. /\ pc' \in [GemOutcomeConfig.runs -> {"idle", "read", "fetch", "record"}]
        /\ outBegun' \in [GemOutcomeConfig.runs -> GemOutcome!Times]
    BY <1>1 DEF GemOutcome!Begin, GemOutcome!Goto, OutcomeInv, GemOutcome!TypeOK
  <2>3. outHorizon' \in [GemOutcomeConfig.runs -> GemOutcomeConfig.horizons]
    BY <1>1, <2>1 DEF GemOutcome!Begin, OutcomeInv, GemOutcome!TypeOK
  <2>4. GemOutcome!TypeOK' /\ UNCHANGED <<outRows, outOutcome, outLeft, outBatch>>
    BY <1>1, <2>2, <2>3 DEF GemOutcome!Begin, OutcomeInv, GemOutcome!TypeOK
  <2> QED BY <2>4 DEF OutcomeInv, GemOutcome!GoneIsGone, GemOutcome!Recorded, Rightly
<1>2. ASSUME NEW r \in GemOutcomeConfig.runs, GemOutcome!Read(r)
      PROVE  OutcomeInv'
  <2>1. PICK scans \in GemOutcome!PagesOf(GemOutcome!Due(r, "scan")),
               controls \in GemOutcome!PagesOf(GemOutcome!Due(r, "control")) :
          /\ outLeft' = [outLeft EXCEPT ![r] = scans \cup controls]
          /\ IF scans \cup controls = {} THEN GemOutcome!NextHorizon(r)
               ELSE GemOutcome!Goto(r, "fetch") /\ UNCHANGED outHorizon
    BY <1>2 DEF GemOutcome!Read
  <2>2. scans \cup controls \subseteq outRows /\ outRows \subseteq GemOutcome!Rows
    BY DEF GemOutcome!PagesOf, GemOutcome!Due, OutcomeInv, GemOutcome!TypeOK
  <2>3. UNCHANGED <<outNow, outOpen, outMoves, outRows, outOutcome, outBegun, outBatch, outFaults>>
    BY <1>2 DEF GemOutcome!Read
  <2>4. /\ pc' \in [GemOutcomeConfig.runs -> {"idle", "read", "fetch", "record"}]
        /\ outHorizon' \in [GemOutcomeConfig.runs -> GemOutcomeConfig.horizons]
    <3>1. CASE scans \cup controls = {}
      BY <2>1, <3>1, OutcomeMoves
    <3>2. CASE scans \cup controls # {}
      BY <2>1, <3>2 DEF GemOutcome!Goto, OutcomeInv, GemOutcome!TypeOK
    <3> QED BY <3>1, <3>2
  <2>5. /\ outLeft' \in [GemOutcomeConfig.runs -> SUBSET GemOutcome!Rows]
        /\ \A o \in GemOutcomeConfig.runs : outLeft'[o] \subseteq outRows
    BY <2>1, <2>2 DEF OutcomeInv, GemOutcome!TypeOK
  <2>6. GemOutcome!TypeOK'
    BY <2>3, <2>4, <2>5 DEF OutcomeInv, GemOutcome!TypeOK
  <2> QED BY <2>3, <2>5, <2>6 DEF OutcomeInv, GemOutcome!GoneIsGone, GemOutcome!Recorded, Rightly
<1>3. ASSUME NEW r \in GemOutcomeConfig.runs, GemOutcome!Fetch(r)
      PROVE  OutcomeInv'
  BY <1>3, FetchKeeps
<1>4. ASSUME NEW r \in GemOutcomeConfig.runs, GemOutcome!Record(r)
      PROVE  OutcomeInv'
  BY <1>4, RecordKeeps
<1>5. ASSUME NEW r \in GemOutcomeConfig.runs, GemOutcome!ChainFails(r) \/ GemOutcome!PassFails(r)
      PROVE  OutcomeInv'
  <2>1. UNCHANGED <<outNow, outOpen, outMoves, outRows, outOutcome, outBegun>>
    BY <1>5 DEF GemOutcome!ChainFails, GemOutcome!PassFails
  <2>2. outFaults' \in 0 .. GemOutcomeConfig.maxFaults
    BY <1>5 DEF GemOutcome!ChainFails, GemOutcome!PassFails, GemOutcome!Faulty, OutcomeInv,
         GemOutcome!TypeOK, GemOutcome!ConstantsOK
  <2>3. /\ pc' \in [GemOutcomeConfig.runs -> {"idle", "read", "fetch", "record"}]
        /\ outHorizon' \in [GemOutcomeConfig.runs -> GemOutcomeConfig.horizons]
    <3>1. CASE GemOutcome!ChainFails(r)
      BY <3>1, OutcomeMoves DEF GemOutcome!ChainFails
    <3>2. CASE GemOutcome!PassFails(r)
      BY <3>2 DEF GemOutcome!PassFails, GemOutcome!Goto, OutcomeInv, GemOutcome!TypeOK
    <3> QED BY <1>5, <3>1, <3>2
  <2>4. /\ outLeft' \in [GemOutcomeConfig.runs -> SUBSET GemOutcome!Rows]
        /\ outBatch' \in [GemOutcomeConfig.runs -> SUBSET (GemOutcome!Rows \X GemOutcome!Outcomes)]
    BY <1>5 DEF GemOutcome!ChainFails, GemOutcome!PassFails, OutcomeInv
  <2>5. \A o \in GemOutcomeConfig.runs : outLeft'[o] \subseteq outLeft[o]
          /\ outBatch'[o] \subseteq outBatch[o]
    BY <1>5 DEF GemOutcome!ChainFails, GemOutcome!PassFails, OutcomeInv
  <2>6. \A o \in GemOutcomeConfig.runs : outLeft'[o] \subseteq outRows
          /\ outBatch'[o] \subseteq outRows \X GemOutcome!Outcomes
    BY <2>5 DEF OutcomeInv, GemOutcome!TypeOK
  <2>7. GemOutcome!TypeOK'
    BY <2>1, <2>2, <2>3, <2>6 DEF OutcomeInv, GemOutcome!TypeOK
  <2>8. \A o \in GemOutcomeConfig.runs : \A b \in outBatch'[o] : Rightly(b[1], b[2])
    BY <2>5 DEF OutcomeInv
  <2> QED BY <2>1, <2>4, <2>7, <2>8, SameOutcomes
<1>6. ASSUME NEW kind \in GemOutcome!Kinds, NEW t \in GemOutcomeConfig.tokens,
               GemOutcome!Surface(kind, t)
      PROVE  OutcomeInv'
  BY <1>6, SurfaceKeeps
<1>7. ASSUME NEW t \in GemOutcomeConfig.tokens, NEW p \in GemOutcome!Pools, GemOutcome!Closes(t, p)
      PROVE  OutcomeInv'
  <2>1. /\ outOpen' \in [GemOutcomeConfig.tokens -> SUBSET GemOutcome!Pools]
        /\ outMoves' \in 0 .. GemOutcomeConfig.maxMoves
    BY <1>7 DEF GemOutcome!Closes, OutcomeInv, GemOutcome!TypeOK, GemOutcome!ConstantsOK
  <2>2. GemOutcome!TypeOK' /\ UNCHANGED <<outRows, outOutcome, outLeft, outBatch>>
    BY <1>7, <2>1 DEF GemOutcome!Closes, GemOutcome!pass, OutcomeInv, GemOutcome!TypeOK
  <2> QED BY <2>2 DEF OutcomeInv, GemOutcome!GoneIsGone, GemOutcome!Recorded, Rightly
<1>8. CASE GemOutcome!Tick \/ UNCHANGED GemOutcome!vars
  <2>1. outNow' \in GemOutcome!Times
    BY <1>8 DEF GemOutcome!Tick, GemOutcome!vars, GemOutcome!Times, OutcomeInv, GemOutcome!TypeOK,
         GemOutcome!ConstantsOK
  <2>2. GemOutcome!TypeOK' /\ UNCHANGED <<outRows, outOutcome, outLeft, outBatch>>
    BY <1>8, <2>1 DEF GemOutcome!Tick, GemOutcome!vars, GemOutcome!pass, OutcomeInv,
         GemOutcome!TypeOK
  <2> QED BY <2>2 DEF OutcomeInv, GemOutcome!GoneIsGone, GemOutcome!Recorded, Rightly
<1> QED BY <1>1, <1>2, <1>3, <1>4, <1>5, <1>6, <1>7, <1>8 DEF GemOutcome!Next, GemOutcome!Step

\* There are no rows yet.
LEMMA OutcomeInit == ASSUME GemOutcome!ConstantsOK, GemOutcome!Init PROVE OutcomeInv
<1>1. GemOutcome!First \in GemOutcomeConfig.horizons
  BY HorizonExists DEF GemOutcome!First, GemOutcome!ConstantsOK
<1>2. GemOutcome!TypeOK
  BY <1>1 DEF GemOutcome!Init, GemOutcome!TypeOK, GemOutcome!ConstantsOK, GemOutcome!Times,
       GemOutcome!Pools
<1> QED BY <1>2 DEF GemOutcome!Init, OutcomeInv, GemOutcome!GoneIsGone

-----------------------------------------------------------------------------
(* The gem scan, on any constants. *)

lookMarket == v1
lookOpted == v2
lookCooling == v3
lookSeen == v4
lookScanned == v22
lookLooked == v5
lookEmpty == v6
lookLeft == v7
lookChain == v8
lookFound == v9
lookAnswer == v10
lookScreened == v11
lookListed == v12
lookControls == v13
lookMissing == v14
lookTodo == v15
lookGem == v16
lookStored == v17
lookTracked == v18
lookChats == v19
lookMoves == v20
lookFaults == v21
USE DEF lookMarket, lookOpted, lookCooling, lookSeen, lookScanned, lookLooked, lookEmpty,
     lookLeft, lookChain, lookFound, lookAnswer, lookScreened, lookListed, lookControls,
     lookMissing, lookTodo, lookGem, lookStored, lookTracked, lookChats, lookMoves, lookFaults

\* Where a run is on no chain yet, and where the gem it is on has its row.
Before(cfg) == {"idle", "discover"}
Saved(cfg)  == {"outcome"} \cup AnyScan(cfg)!Alerting

\* What a run holds is of the right kind.
HoldsTyped(cfg) ==
  /\ lookMarket \in [cfg.tokens -> cfg.markets]
  /\ pc \in [cfg.runs -> AnyScan(cfg)!Places]
  /\ lookLeft \in [cfg.runs -> SUBSET cfg.chains] /\ lookChain \in [cfg.runs -> cfg.chains \cup {Off}]
  /\ lookFound \in [cfg.runs -> SUBSET cfg.tokens]
  /\ lookAnswer \in [cfg.runs -> SUBSET (cfg.tokens \X AnyScan(cfg)!Pools)]
  /\ lookScreened \in [cfg.runs -> SUBSET cfg.tokens]
  /\ lookListed \in [cfg.runs -> SUBSET AnyScan(cfg)!Gems]
  /\ DOMAIN lookControls = cfg.runs /\ DOMAIN lookTodo = cfg.runs /\ DOMAIN lookGem = cfg.runs
  /\ DOMAIN lookStored = cfg.runs /\ DOMAIN lookTracked = cfg.runs

\* A gem that no longer waits for its row has it.
Kept(cfg, r, g) ==
  pc[r] # "screen" /\ (g \in lookTodo[r] => g = lookGem[r] /\ pc[r] \in AnyScan(cfg)!Alerting)
    => g.token \in lookStored[r] /\ (g.pool.priced => g.token \in lookTracked[r])

\* A run lists nothing before it has an answer, a token once, and of the chain it
\* is on; and the gem it is on has its row before the rest follows.
ListInv(cfg, r) ==
  /\ pc[r] \in Before(cfg) \cup {"fetch"} => lookListed[r] = {}
  /\ pc[r] \notin Before(cfg) => lookChain[r] \in cfg.chains
  /\ \A g, h \in lookListed[r] : g.token = h.token => g = h
  /\ pc[r] \in Saved(cfg) => lookGem[r].token \in lookStored[r]
  /\ \A g \in lookListed[r] : AnyScan(cfg)!Best(r, g)
       /\ (g.token \notin lookScreened[r] => AnyScan(cfg)!Judged(r, g))
  /\ \A g \in lookListed[r] : Kept(cfg, r, g)
  /\ {g.token : g \in lookListed[r]} \cap lookControls[r] = {}

ScanInv(cfg) == HoldsTyped(cfg) /\ \A r \in cfg.runs : ListInv(cfg, r)

\* Of run r all that ListInv reads but its place, as it was.
SameList(cfg, r) ==
  /\ lookChain'[r] = lookChain[r] /\ lookAnswer'[r] = lookAnswer[r]
  /\ lookScreened'[r] = lookScreened[r]
  /\ lookListed'[r] = lookListed[r] /\ lookControls'[r] = lookControls[r]

\* A step of run r leaves the other runs alone.
OnlyScan(cfg, r) ==
  \A o \in cfg.runs \ {r} :
    /\ pc'[o] = pc[o] /\ SameList(cfg, o) /\ lookTodo'[o] = lookTodo[o] /\ lookGem'[o] = lookGem[o]
    /\ lookStored'[o] = lookStored[o] /\ lookTracked'[o] = lookTracked[o]

\* So only the invariant of r is at stake.
LEMMA OneScan ==
  ASSUME NEW CONSTANT cfg, ScanInv(cfg), NEW r \in cfg.runs, HoldsTyped(cfg)', OnlyScan(cfg, r),
           ListInv(cfg, r)'
  PROVE  ScanInv(cfg)'
<1>1. ASSUME NEW o \in cfg.runs \ {r}
      PROVE  ListInv(cfg, o)'
  <2>1. /\ pc'[o] = pc[o] /\ SameList(cfg, o) /\ lookTodo'[o] = lookTodo[o]
        /\ lookGem'[o] = lookGem[o]
        /\ lookStored'[o] = lookStored[o] /\ lookTracked'[o] = lookTracked[o]
    BY DEF OnlyScan
  <2>2. ListInv(cfg, o)
    BY DEF ScanInv
  <2> QED BY <2>1, <2>2 DEF SameList, ListInv, AnyScan!Best, AnyScan!Judged, Kept
<1> QED BY <1>1 DEF ScanInv

\* What a screen may say: a danger or not, safe only without a fault, and nothing
\* at all only where there is none.
LEMMA ScreenSays ==
  ASSUME NEW CONSTANT cfg, AnyScan(cfg)!ConstantsOK, NEW c \in cfg.chains,
           NEW s \in AnyScan(cfg)!Screens(c)
  PROVE  /\ s.verdict \in AnyScan(cfg)!Verdicts \cup {Off} /\ s.fault \in BOOLEAN
         /\ s.read \in BOOLEAN
         /\ s.verdict = "safe" => ~s.fault
         /\ s.verdict = Off <=> cfg.screenOf[c] = Off
<1>1. ASSUME NEW critical, NEW wanted, NEW flagged
      PROVE  /\ AnyScan(cfg)!Verdict(critical, wanted, flagged) \in AnyScan(cfg)!Verdicts
             /\ AnyScan(cfg)!Verdict(critical, wanted, flagged) = "safe" =>
                  FALSE \notin critical /\ FALSE \notin wanted /\ ~flagged
  <2>1. CASE FALSE \in critical
    BY <2>1 DEF AnyScan!Verdict, AnyScan!Verdicts
  <2>2. CASE FALSE \notin critical /\ wanted \subseteq {Off}
    BY <2>2 DEF AnyScan!Verdict, AnyScan!Verdicts
  <2>3. CASE FALSE \notin critical /\ ~(wanted \subseteq {Off})
    BY <2>3 DEF AnyScan!Verdict, AnyScan!Verdicts
  <2> QED BY <2>1, <2>2, <2>3
<1>2. \A v \in AnyScan(cfg)!Verdicts : v # Off
  BY DEF AnyScan!Verdicts, AnyScan!ConstantsOK
<1>3. ASSUME NEW report \in AnyScan(cfg)!RugReports, s = AnyScan(cfg)!RugCheck(report)
      PROVE  /\ s.verdict \in AnyScan(cfg)!Verdicts /\ s.fault \in BOOLEAN /\ s.read \in BOOLEAN
             /\ s.verdict = "safe" => ~s.fault
  <2> DEFINE checks == {AnyScan(cfg)!Revoked(report, "mint"), AnyScan(cfg)!Revoked(report, "freeze"),
               report.locked}
  <2>1. /\ s.verdict = AnyScan(cfg)!Verdict(checks, checks, report.flagged)
        /\ s.read = AnyScan(cfg)!Reads(report)
        /\ s.fault = (report.flagged \/ FALSE \in checks)
    BY <1>3 DEF AnyScan!RugCheck
  <2> HIDE DEF checks
  <2>2. AnyScan(cfg)!Reads(report) \in BOOLEAN
    BY DEF AnyScan!Reads
  <2>3. (report.flagged \/ FALSE \in checks) \in BOOLEAN
    OBVIOUS
  <2>4. s.verdict = "safe" => FALSE \notin checks /\ ~report.flagged
    BY <1>1, <2>1
  <2>5. s.verdict \in AnyScan(cfg)!Verdicts
    <3>1. AnyScan(cfg)!Verdict(checks, checks, report.flagged) \in AnyScan(cfg)!Verdicts
      BY <1>1
    <3> QED BY <2>1, <3>1
  <2>6. s.verdict = "safe" => ~s.fault
    BY <2>1, <2>4, Zenon
  <2>7. s.fault \in BOOLEAN /\ s.read \in BOOLEAN
    BY <2>1, <2>2, <2>3, Zenon
  <2> QED BY <2>5, <2>6, <2>7
<1>4. ASSUME NEW report \in AnyScan(cfg)!GoReports, s = AnyScan(cfg)!GoPlus(report)
      PROVE  /\ s.verdict \in AnyScan(cfg)!Verdicts /\ s.fault \in BOOLEAN /\ s.read \in BOOLEAN
             /\ s.verdict = "safe" => ~s.fault
  <2> DEFINE critical == {report.honeypot, report.trap, report.locked}
             wanted   == {report.honeypot, report.locked, report.open}
  <2>1. /\ s.verdict = AnyScan(cfg)!Verdict(critical, wanted, report.flagged)
        /\ s.read = (wanted # {Off})
        /\ s.fault = (report.flagged \/ FALSE \in critical \cup wanted)
    BY <1>4 DEF AnyScan!GoPlus
  <2> HIDE DEF critical, wanted
  <2>2. (report.flagged \/ FALSE \in critical \cup wanted) \in BOOLEAN /\ (wanted # {Off}) \in BOOLEAN
    OBVIOUS
  <2>3. s.verdict = "safe" => FALSE \notin critical /\ FALSE \notin wanted /\ ~report.flagged
    BY <1>1, <2>1
  <2>4. s.verdict \in AnyScan(cfg)!Verdicts
    <3>1. AnyScan(cfg)!Verdict(critical, wanted, report.flagged) \in AnyScan(cfg)!Verdicts
      BY <1>1
    <3> QED BY <2>1, <3>1
  <2>5. s.verdict = "safe" => ~s.fault
    BY <2>1, <2>3, Zenon
  <2>6. s.fault \in BOOLEAN /\ s.read \in BOOLEAN
    BY <2>1, <2>2, Zenon
  <2> QED BY <2>4, <2>5, <2>6
<1>5. ASSUME s = AnyScan(cfg)!Failed
      PROVE  /\ s.verdict \in AnyScan(cfg)!Verdicts /\ s.fault \in BOOLEAN /\ s.read \in BOOLEAN
             /\ s.verdict = "safe" => ~s.fault
  BY <1>5 DEF AnyScan!Failed, AnyScan!Verdicts
<1>6. cfg.screenOf[c] \in {"rugcheck", "goplus", Off} /\ Off \notin {"rugcheck", "goplus"}
  BY DEF AnyScan!ConstantsOK
<1>7. CASE cfg.screenOf[c] = "rugcheck"
  <2>1. s = AnyScan(cfg)!Failed \/ \E report \in AnyScan(cfg)!RugReports :
          s = AnyScan(cfg)!RugCheck(report)
    BY <1>7 DEF AnyScan!Screens
  <2> QED BY <1>2, <1>3, <1>5, <1>6, <1>7, <2>1
<1>8. CASE cfg.screenOf[c] = "goplus"
  <2>1. s = AnyScan(cfg)!Failed \/ \E report \in AnyScan(cfg)!GoReports :
          s = AnyScan(cfg)!GoPlus(report)
    BY <1>8 DEF AnyScan!Screens
  <2> QED BY <1>2, <1>4, <1>5, <1>6, <1>8, <2>1
<1>9. CASE cfg.screenOf[c] = Off
  <2>1. s = AnyScan(cfg)!NotScreened
    BY <1>6, <1>9 DEF AnyScan!Screens
  <2> QED BY <1>9, <2>1, <1>6 DEF AnyScan!NotScreened, AnyScan!ConstantsOK
<1> QED BY <1>6, <1>7, <1>8, <1>9

\* A run that is done with a chain, or altogether, lists nothing.
LEMMA EndsKeeps ==
  ASSUME NEW CONSTANT cfg, ScanInv(cfg), NEW r \in cfg.runs, AnyScan(cfg)!Ends(r),
           UNCHANGED lookMarket,
         lookLeft' \in [cfg.runs -> SUBSET cfg.chains],
         AnyScan(cfg)!Goto(r, "idle") \/ AnyScan(cfg)!Goto(r, "discover")
  PROVE  ScanInv(cfg)'
<1>1. HoldsTyped(cfg)'
  <2>1. /\ pc' \in [cfg.runs -> AnyScan(cfg)!Places]
        /\ lookChain' \in [cfg.runs -> cfg.chains \cup {Off}]
    BY DEF AnyScan!Goto, AnyScan!Places, AnyScan!Ends, ScanInv, HoldsTyped
  <2>2. /\ lookFound' \in [cfg.runs -> SUBSET cfg.tokens]
        /\ lookAnswer' \in [cfg.runs -> SUBSET (cfg.tokens \X AnyScan(cfg)!Pools)]
        /\ lookScreened' \in [cfg.runs -> SUBSET cfg.tokens]
        /\ lookListed' \in [cfg.runs -> SUBSET AnyScan(cfg)!Gems]
    BY DEF AnyScan!Ends, ScanInv, HoldsTyped
  <2>3. /\ DOMAIN lookControls' = cfg.runs /\ DOMAIN lookTodo' = cfg.runs
        /\ DOMAIN lookGem' = cfg.runs
        /\ DOMAIN lookStored' = cfg.runs /\ DOMAIN lookTracked' = cfg.runs
    BY DEF AnyScan!Ends, ScanInv, HoldsTyped
  <2> QED BY <2>1, <2>2, <2>3 DEF ScanInv, HoldsTyped
<1>2. OnlyScan(cfg, r)
  BY DEF OnlyScan, SameList, AnyScan!Ends, AnyScan!Goto, ScanInv, HoldsTyped
<1>3. pc'[r] \in Before(cfg) /\ lookListed'[r] = {}
  BY DEF AnyScan!Goto, Before, AnyScan!Ends, ScanInv, HoldsTyped
<1>4. pc'[r] \notin Saved(cfg)
  BY <1>3 DEF Before, Saved, AnyScan!Alerting
<1>5. ListInv(cfg, r)'
  BY <1>3, <1>4 DEF ListInv
<1> QED BY <1>1, <1>2, <1>5, OneScan

\* The gem in hand is dealt with, and has its rows: the next follows.
LEMMA NextGemKeeps ==
  ASSUME NEW CONSTANT cfg, ScanInv(cfg), NEW r \in cfg.runs, AnyScan(cfg)!NextGem(r),
           pc[r] \in Saved(cfg),
         UNCHANGED <<lookMarket, lookLeft, lookChain, lookFound, lookAnswer, lookScreened,
           lookListed, lookControls, lookStored>>,
         DOMAIN lookTracked' = cfg.runs, \A o \in cfg.runs \ {r} : lookTracked'[o] = lookTracked[o],
         lookTracked[r] \subseteq lookTracked'[r],
         \A g \in lookListed[r] : g = lookGem[r] => (g.pool.priced => g.token \in lookTracked'[r])
  PROVE  ScanInv(cfg)'
<1>1. pc' \in [cfg.runs -> AnyScan(cfg)!Places] /\ pc'[r] \in {"control", "token"}
  BY DEF AnyScan!NextGem, AnyScan!Goto, AnyScan!Places, ScanInv, HoldsTyped
<1>2. /\ DOMAIN lookTodo' = cfg.runs /\ lookTodo'[r] = lookTodo[r] \ {lookGem[r]}
      /\ DOMAIN lookGem' = cfg.runs
  BY DEF AnyScan!NextGem, ScanInv, HoldsTyped
<1>3. HoldsTyped(cfg)'
  BY <1>1, <1>2 DEF ScanInv, HoldsTyped
<1>4. OnlyScan(cfg, r)
  BY DEF OnlyScan, SameList, AnyScan!NextGem, AnyScan!Goto, ScanInv, HoldsTyped
<1>5. ASSUME NEW g \in lookListed[r]
      PROVE  Kept(cfg, r, g)'
  <2> SUFFICES ASSUME g \notin lookTodo'[r]
               PROVE  g.token \in lookStored[r] /\ (g.pool.priced => g.token \in lookTracked'[r])
    BY <1>1 DEF Kept, AnyScan!Alerting
  <2>1. CASE g = lookGem[r]
    BY <2>1 DEF ScanInv, ListInv
  <2>2. CASE g # lookGem[r]
    <3>1. g \notin lookTodo[r]
      BY <1>2, <2>2
    <3>2. Kept(cfg, r, g) /\ pc[r] # "screen"
      BY DEF ScanInv, ListInv, Saved, AnyScan!Alerting
    <3> QED BY <3>1, <3>2 DEF Kept
  <2> QED BY <2>1, <2>2
<1>6. ListInv(cfg, r)'
  <2>1. /\ pc'[r] \notin Before(cfg) \cup {"fetch"} /\ pc'[r] \notin Saved(cfg)
        /\ pc[r] \notin Before(cfg)
    BY <1>1 DEF Before, Saved, AnyScan!Alerting
  <2>2. \A g \in lookListed[r] : AnyScan(cfg)!Best(r, g)' <=> AnyScan(cfg)!Best(r, g)
    BY DEF AnyScan!Best
  <2>3. \A g \in lookListed[r] : AnyScan(cfg)!Judged(r, g)' <=> AnyScan(cfg)!Judged(r, g)
    BY DEF AnyScan!Judged
  <2>4. ListInv(cfg, r)
    BY DEF ScanInv
  <2> QED BY <1>5, <2>1, <2>2, <2>3, <2>4 DEF ListInv
<1> QED BY <1>3, <1>4, <1>6, OneScan

\* A run goes on with its gem, or with its chain when no gem is left.
LEMMA GoesOnKeeps ==
  ASSUME NEW CONSTANT cfg, ScanInv(cfg), NEW r \in cfg.runs, NEW place \in AnyScan(cfg)!Places,
           AnyScan(cfg)!Goto(r, place),
         UNCHANGED <<lookMarket, lookLeft, lookChain, lookFound, lookAnswer, lookScreened,
           lookListed, lookControls, lookTodo, lookGem>>,
         UNCHANGED <<lookStored, lookTracked>>,
         \/ pc[r] \in AnyScan(cfg)!Alerting /\ place \in AnyScan(cfg)!Alerting
         \/ pc[r] \in {"control", "observe", "price"} /\ place \in {"observe", "price", "health"}
  PROVE  ScanInv(cfg)'
<1>1. pc' \in [cfg.runs -> AnyScan(cfg)!Places] /\ pc'[r] = place
  BY DEF AnyScan!Goto, ScanInv, HoldsTyped
<1>2. HoldsTyped(cfg)'
  BY <1>1 DEF ScanInv, HoldsTyped
<1>3. OnlyScan(cfg, r)
  BY DEF OnlyScan, SameList, AnyScan!Goto, ScanInv, HoldsTyped
<1>4. /\ pc[r] \notin Before(cfg) \cup {"fetch", "screen"}
      /\ place \notin Before(cfg) \cup {"fetch", "screen"}
      /\ place \in Saved(cfg) <=> place \in AnyScan(cfg)!Alerting
      /\ pc[r] \in AnyScan(cfg)!Alerting <=> place \in AnyScan(cfg)!Alerting
  BY DEF Before, Saved, AnyScan!Alerting
<1>5. ListInv(cfg, r)
  BY DEF ScanInv
<1>6. ListInv(cfg, r)'
  BY <1>1, <1>4, <1>5 DEF ListInv, AnyScan!Best, AnyScan!Judged, Kept, Saved
<1> QED BY <1>2, <1>3, <1>6, OneScan

\* What passes the gate is on the deepest pool there is, and no reject.
LEMMA FetchLists ==
  ASSUME NEW CONSTANT cfg, AnyScan(cfg)!ConstantsOK, ScanInv(cfg), NEW r \in cfg.runs,
           AnyScan(cfg)!Fetch(r)
  PROVE  ScanInv(cfg)'
<1>1. PICK ans \in AnyScan(cfg)!Responses(lookFound[r]) :
        /\ lookAnswer' = [lookAnswer EXCEPT ![r] = ans]
        /\ \E best \in [{x[1] : x \in ans} -> {x[2] : x \in ans}] :
             /\ \A t \in DOMAIN best : best[t] \in AnyScan(cfg)!Deepest(AnyScan(cfg)!PoolsIn(ans, t))
             /\ LET passed  == {t \in DOMAIN best : AnyScan(cfg)!Failures(best[t]) = {}}
                    rejects == {t \in DOMAIN best : AnyScan(cfg)!IsControl(best[t])}
                IN  /\ lookScreened' = [lookScreened EXCEPT ![r] = passed]
                    /\ lookListed' = [lookListed EXCEPT ![r] = {AnyScan(cfg)!Unscreened(t, best[t]) :
                         t \in passed}]
                    /\ \E kept \in AnyScan(cfg)!Samples(rejects) :
                         lookControls' = [lookControls EXCEPT ![r] = kept]
                    /\ AnyScan(cfg)!Goto(r, IF passed = {} THEN "control" ELSE "screen")
  BY DEF AnyScan!Fetch
<1>2. PICK best \in [{x[1] : x \in ans} -> {x[2] : x \in ans}] :
        /\ \A t \in DOMAIN best : best[t] \in AnyScan(cfg)!Deepest(AnyScan(cfg)!PoolsIn(ans, t))
        /\ LET passed  == {t \in DOMAIN best : AnyScan(cfg)!Failures(best[t]) = {}}
               rejects == {t \in DOMAIN best : AnyScan(cfg)!IsControl(best[t])}
           IN  /\ lookScreened' = [lookScreened EXCEPT ![r] = passed]
               /\ lookListed' = [lookListed EXCEPT ![r] = {AnyScan(cfg)!Unscreened(t, best[t]) :
                    t \in passed}]
               /\ \E kept \in AnyScan(cfg)!Samples(rejects) :
                    lookControls' = [lookControls EXCEPT ![r] = kept]
               /\ AnyScan(cfg)!Goto(r, IF passed = {} THEN "control" ELSE "screen")
  BY <1>1
<1> DEFINE passed  == {t \in DOMAIN best : AnyScan(cfg)!Failures(best[t]) = {}}
           rejects == {t \in DOMAIN best : AnyScan(cfg)!IsControl(best[t])}
           Entrant(t)  == AnyScan(cfg)!Unscreened(t, best[t])
           gems    == {Entrant(t) : t \in passed}
<1>3. PICK kept \in AnyScan(cfg)!Samples(rejects) : lookControls' = [lookControls EXCEPT ![r] = kept]
  BY <1>2
<1>4. /\ UNCHANGED <<lookMarket, lookLeft, lookChain, lookFound, lookTodo, lookGem, lookStored,
           lookTracked>>
      /\ pc[r] = "fetch" /\ lookChain[r] \in cfg.chains
  BY DEF AnyScan!Fetch, AnyScan!world, AnyScan!saving, ScanInv, ListInv, Before
<1>5. ans \subseteq cfg.tokens \X AnyScan(cfg)!Pools
  <2>1. \A t \in cfg.tokens : lookMarket[t] \subseteq AnyScan(cfg)!Pools
    BY DEF AnyScan!ConstantsOK, ScanInv, HoldsTyped
  <2>2. lookFound[r] \subseteq cfg.tokens
    BY DEF ScanInv, HoldsTyped
  <2> QED BY <2>1, <2>2 DEF AnyScan!Responses, AnyScan!Answers
<1>6. ASSUME NEW t \in passed
      PROVE  /\ t \in cfg.tokens /\ best[t] \in AnyScan(cfg)!Pools
             /\ AnyScan(cfg)!Failures(best[t]) = {} /\ t \notin kept
             /\ \A x \in ans : x[1] = t => AnyScan(cfg)!Depth(x[2]) <= AnyScan(cfg)!Depth(best[t])
  <2>1. /\ t \in DOMAIN best /\ AnyScan(cfg)!Failures(best[t]) = {}
        /\ best[t] \in AnyScan(cfg)!Deepest(AnyScan(cfg)!PoolsIn(ans, t))
    BY <1>2
  <2>2. t \in cfg.tokens /\ best[t] \in AnyScan(cfg)!Pools
    BY <1>2, <1>5, <2>1
  <2>3. t \notin rejects
    BY <2>1 DEF AnyScan!IsControl
  <2>4. kept \subseteq rejects
    BY <1>3 DEF AnyScan!Samples
  <2>5. ASSUME NEW x \in ans, x[1] = t
        PROVE  AnyScan(cfg)!Depth(x[2]) <= AnyScan(cfg)!Depth(best[t])
    <3>1. x[2] \in AnyScan(cfg)!PoolsIn(ans, t)
      BY <2>5 DEF AnyScan!PoolsIn
    <3> QED BY <2>1, <3>1 DEF AnyScan!Deepest
  <2> QED BY <2>1, <2>2, <2>3, <2>4, <2>5
<1>7. /\ lookAnswer' = [lookAnswer EXCEPT ![r] = ans]
      /\ lookScreened' = [lookScreened EXCEPT ![r] = passed]
      /\ lookListed' = [lookListed EXCEPT ![r] = gems]
      /\ lookControls' = [lookControls EXCEPT ![r] = kept]
      /\ pc' = [pc EXCEPT ![r] = IF passed = {} THEN "control" ELSE "screen"]
  BY <1>1, <1>2, <1>3 DEF AnyScan!Goto
<1>8. \A t \in passed : /\ Entrant(t).token = t /\ Entrant(t).pool = best[t]
                        /\ Entrant(t) \in AnyScan(cfg)!Gems
  BY <1>6 DEF AnyScan!Unscreened, AnyScan!Gems
<1> HIDE DEF Entrant
<1>9. ASSUME NEW g \in gems
      PROVE  /\ g \in AnyScan(cfg)!Gems /\ g.token \in passed /\ g = Entrant(g.token)
             /\ AnyScan(cfg)!Failures(g.pool) = {}
             /\ \A x \in ans : x[1] = g.token =>
                  AnyScan(cfg)!Depth(x[2]) <= AnyScan(cfg)!Depth(g.pool)
  <2>1. PICK t \in passed : g = Entrant(t)
    OBVIOUS
  <2>2. g.token = t /\ g.pool = best[t] /\ g \in AnyScan(cfg)!Gems
    BY <1>8, <2>1
  <2> HIDE DEF passed
  <2> QED BY <1>6, <2>1, <2>2
<1>10. passed = {} => gems = {}
  OBVIOUS
<1>11. passed \subseteq cfg.tokens /\ gems \subseteq AnyScan(cfg)!Gems /\ \A t \in passed :
         t \notin kept
  BY <1>6, <1>9
<1> HIDE DEF gems, passed
<1>12. /\ lookAnswer'[r] = ans /\ lookScreened'[r] = passed /\ lookListed'[r] = gems
       /\ lookControls'[r] = kept
       /\ pc'[r] = IF passed = {} THEN "control" ELSE "screen"
  BY <1>7 DEF ScanInv, HoldsTyped
<1>13. HoldsTyped(cfg)'
  <2>1. pc' \in [cfg.runs -> AnyScan(cfg)!Places]
    <3>1. (IF passed = {} THEN "control" ELSE "screen") \in AnyScan(cfg)!Places
      BY DEF AnyScan!Places
    <3> QED BY <1>7, <3>1 DEF ScanInv, HoldsTyped
  <2>2. lookAnswer' \in [cfg.runs -> SUBSET (cfg.tokens \X AnyScan(cfg)!Pools)]
    BY <1>5, <1>7 DEF ScanInv, HoldsTyped
  <2>3. lookScreened' \in [cfg.runs -> SUBSET cfg.tokens]
    BY <1>7, <1>11 DEF ScanInv, HoldsTyped
  <2>4. lookListed' \in [cfg.runs -> SUBSET AnyScan(cfg)!Gems]
    BY <1>7, <1>11 DEF ScanInv, HoldsTyped
  <2>5. DOMAIN lookControls' = cfg.runs
    BY <1>7 DEF ScanInv, HoldsTyped
  <2> QED BY <1>4, <2>1, <2>2, <2>3, <2>4, <2>5 DEF ScanInv, HoldsTyped
<1>14. OnlyScan(cfg, r)
  BY <1>4, <1>7 DEF OnlyScan, SameList, ScanInv, HoldsTyped
<1>15. ListInv(cfg, r)'
  <2>1. pc'[r] \in {"control", "screen"} /\ (pc'[r] = "control" => lookListed'[r] = {})
    BY <1>10, <1>12
  <2>2. pc'[r] \notin Before(cfg) \cup {"fetch"} /\ pc'[r] \notin Saved(cfg)
    BY <2>1 DEF Before, Saved, AnyScan!Alerting
  <2>3. \A g \in lookListed'[r] : AnyScan(cfg)!Best(r, g)' /\ g.token \in lookScreened'[r]
    BY <1>9, <1>12 DEF AnyScan!Best
  <2>4. \A g \in lookListed'[r] : Kept(cfg, r, g)'
    BY <2>1 DEF Kept
  <2>5. \A g, h \in lookListed'[r] : g.token = h.token => g = h
    BY <1>9, <1>12
  <2>6. {g.token : g \in lookListed'[r]} \cap lookControls'[r] = {}
    BY <1>9, <1>11, <1>12
  <2>7. lookChain'[r] \in cfg.chains
    BY <1>4
  <2> QED BY <2>2, <2>3, <2>4, <2>5, <2>6, <2>7 DEF ListInv
<1> QED BY <1>13, <1>14, <1>15, OneScan

\* Once its token is screened, a gem that stays has been judged.
LEMMA ScreenJudges ==
  ASSUME NEW CONSTANT cfg, AnyScan(cfg)!ConstantsOK, ScanInv(cfg), NEW r \in cfg.runs,
           AnyScan(cfg)!Screen(r)
  PROVE  ScanInv(cfg)'
<1>1. PICK g \in lookListed[r], s \in AnyScan(cfg)!Screens(lookChain[r]) :
        /\ g.token \in lookScreened[r]
        /\ LET now  == [g EXCEPT !.verdict = s.verdict, !.read = s.read, !.fault = s.fault]
               rest == (lookListed[r] \ {g}) \cup IF AnyScan(cfg)!Disqualifies(s.verdict) THEN {}
                 ELSE {now}
           IN  /\ lookListed' = [lookListed EXCEPT ![r] = rest]
               /\ lookScreened' = [lookScreened EXCEPT ![r] = @ \ {g.token}]
               /\ IF lookScreened[r] # {g.token} THEN UNCHANGED <<pc, lookTodo>>
                  ELSE /\ lookTodo' = [lookTodo EXCEPT ![r] = rest]
                       /\ AnyScan(cfg)!Goto(r, IF rest = {} THEN "control" ELSE "token")
  BY DEF AnyScan!Screen
<1> DEFINE now  == [g EXCEPT !.verdict = s.verdict, !.read = s.read, !.fault = s.fault]
           rest == (lookListed[r] \ {g}) \cup IF AnyScan(cfg)!Disqualifies(s.verdict) THEN {}
             ELSE {now}
<1>2. /\ UNCHANGED <<lookMarket, lookLeft, lookChain, lookFound, lookAnswer, lookControls, lookGem,
           lookStored, lookTracked>>
      /\ pc[r] = "screen" /\ lookChain[r] \in cfg.chains
  BY DEF AnyScan!Screen, AnyScan!world, ScanInv, ListInv, Before
<1>3. ListInv(cfg, r) /\ g \in AnyScan(cfg)!Gems /\ lookListed[r] \subseteq AnyScan(cfg)!Gems
  BY DEF ScanInv, HoldsTyped
<1>4. /\ s.verdict \in AnyScan(cfg)!Verdicts \cup {Off} /\ s.fault \in BOOLEAN /\ s.read \in BOOLEAN
      /\ s.verdict = "safe" => ~s.fault
      /\ s.verdict = Off <=> cfg.screenOf[lookChain[r]] = Off
  BY <1>2, ScreenSays
<1>5. /\ now \in AnyScan(cfg)!Gems /\ now.token = g.token /\ now.pool = g.pool
      /\ now.verdict = s.verdict /\ now.fault = s.fault
  BY <1>3, <1>4 DEF AnyScan!Gems
<1>6. /\ lookListed' = [lookListed EXCEPT ![r] = rest]
      /\ lookScreened' = [lookScreened EXCEPT ![r] = @ \ {g.token}]
      /\ \/ UNCHANGED <<pc, lookTodo>>
         \/ /\ lookTodo' = [lookTodo EXCEPT ![r] = rest]
            /\ AnyScan(cfg)!Goto(r, IF rest = {} THEN "control" ELSE "token")
  BY <1>1
<1> HIDE DEF now
<1>7. /\ rest \subseteq AnyScan(cfg)!Gems
      /\ \A h \in rest : (h \in lookListed[r] /\ h # g) \/ (h = now /\ s.verdict # "danger")
  BY <1>3, <1>5 DEF AnyScan!Disqualifies
<1> HIDE DEF rest
<1>8. \/ pc' = pc /\ lookTodo' = lookTodo
      \/ pc' = [pc EXCEPT ![r] = "control"] /\ lookTodo' = [lookTodo EXCEPT ![r] = rest]
      \/ pc' = [pc EXCEPT ![r] = "token"] /\ lookTodo' = [lookTodo EXCEPT ![r] = rest]
  BY <1>6 DEF AnyScan!Goto
<1>9. lookListed'[r] = rest /\ lookScreened'[r] = lookScreened[r] \ {g.token}
  BY <1>6 DEF ScanInv, HoldsTyped
<1>10. \/ pc'[r] = "screen"
       \/ pc'[r] \in {"control", "token"} /\ lookTodo'[r] = rest
  BY <1>2, <1>8 DEF ScanInv, HoldsTyped
<1>11. HoldsTyped(cfg)'
  <2>1. pc' \in [cfg.runs -> AnyScan(cfg)!Places] /\ DOMAIN lookTodo' = cfg.runs
    BY <1>8 DEF AnyScan!Places, ScanInv, HoldsTyped
  <2>2. lookScreened' \in [cfg.runs -> SUBSET cfg.tokens]
    BY <1>6 DEF ScanInv, HoldsTyped
  <2>3. lookListed' \in [cfg.runs -> SUBSET AnyScan(cfg)!Gems]
    BY <1>7, <1>6 DEF ScanInv, HoldsTyped
  <2> QED BY <1>2, <2>1, <2>2, <2>3 DEF ScanInv, HoldsTyped
<1>12. OnlyScan(cfg, r)
  BY <1>2, <1>6, <1>8 DEF OnlyScan, SameList, ScanInv, HoldsTyped
<1>13. ListInv(cfg, r)'
  <2>1. pc'[r] \notin Before(cfg) \cup {"fetch"} /\ pc'[r] \notin Saved(cfg)
    BY <1>10 DEF Before, Saved, AnyScan!Alerting
  <2>2. \A h \in rest : h.token = g.token => h = now
    BY <1>3, <1>7 DEF ListInv
  <2>3. \A h, i \in rest : h.token = i.token => h = i
    BY <1>3, <1>5, <1>7, <2>2 DEF ListInv
  <2>4. ASSUME NEW h \in rest
        PROVE  AnyScan(cfg)!Best(r, h)' /\ (h.token \notin lookScreened'[r] => AnyScan(cfg)!Judged(r,
                 h)')
    <3>1. CASE h = now
      <4>1. AnyScan(cfg)!Best(r, g)
        BY <1>3 DEF ListInv
      <4>2. s.verdict # "danger"
        BY <1>5, <1>7, <1>3, <3>1 DEF ListInv
      <4> QED BY <1>2, <1>4, <1>5, <3>1, <4>1, <4>2 DEF AnyScan!Best, AnyScan!Judged
    <3>2. CASE h # now
      <4>1. h \in lookListed[r] /\ h.token # g.token
        BY <1>7, <2>2, <3>2
      <4>2. AnyScan(cfg)!Best(r, h) /\ (h.token \notin lookScreened[r] => AnyScan(cfg)!Judged(r, h))
        BY <1>3, <4>1 DEF ListInv
      <4> QED BY <1>2, <1>9, <4>1, <4>2 DEF AnyScan!Best, AnyScan!Judged
    <3> QED BY <3>1, <3>2
  <2>5. ASSUME NEW h \in rest
        PROVE  Kept(cfg, r, h)'
    BY <1>10 DEF Kept, AnyScan!Alerting
  <2>6. {h.token : h \in rest} \cap lookControls[r] = {}
    <3>1. \A h \in rest : \E i \in lookListed[r] : h.token = i.token
      BY <1>5, <1>7
    <3> QED BY <1>3, <3>1 DEF ListInv
  <2> QED BY <1>2, <1>9, <2>1, <2>3, <2>4, <2>5, <2>6 DEF ListInv
<1> QED BY <1>11, <1>12, <1>13, OneScan

\* Each step of a run keeps it.
LEMMA RunKeepsList ==
  ASSUME NEW CONSTANT cfg, AnyScan(cfg)!ConstantsOK, ScanInv(cfg), NEW r \in cfg.runs,
           AnyScan(cfg)!Step(r) \/ AnyScan(cfg)!ChainFails(r) \/ AnyScan(cfg)!ObserveFails(r)
             \/ AnyScan(cfg)!Dies(r)
  PROVE  ScanInv(cfg)'
<1>0. ListInv(cfg, r) /\ HoldsTyped(cfg)
  BY DEF ScanInv
<1>1. CASE AnyScan(cfg)!Begin(r)
  <2>1. UNCHANGED <<lookMarket, lookChain, lookFound, lookAnswer, lookScreened, lookListed,
          lookControls, lookTodo, lookGem, lookStored, lookTracked>>
    BY <1>1 DEF AnyScan!Begin, AnyScan!world, AnyScan!saving
  <2>2. lookLeft' \in [cfg.runs -> SUBSET cfg.chains] /\ pc' = [pc EXCEPT ![r] = "discover"]
    BY <1>0, <1>1 DEF AnyScan!Begin, AnyScan!Goto, HoldsTyped
  <2>3. HoldsTyped(cfg)'
    BY <1>0, <2>1, <2>2 DEF HoldsTyped, AnyScan!Places
  <2>4. OnlyScan(cfg, r) /\ pc'[r] = "discover" /\ lookListed[r] = {}
    BY <1>0, <1>1, <2>1, <2>2 DEF AnyScan!Begin, OnlyScan, SameList, HoldsTyped, ListInv, Before
  <2>5. ListInv(cfg, r)'
    BY <2>1, <2>4 DEF ListInv, Before, Saved, AnyScan!Alerting
  <2> QED BY <2>3, <2>4, <2>5, OneScan
<1>2. CASE AnyScan(cfg)!Discover(r)
  <2>0. PICK c \in lookLeft[r] :
          /\ lookChain' = [lookChain EXCEPT ![r] = c]
          /\ \E some \in SUBSET AnyScan(cfg)!OnChain(c) :
               /\ lookFound' = [lookFound EXCEPT ![r] = some]
               /\ AnyScan(cfg)!Goto(r, IF some = {} THEN "control" ELSE "fetch")
    BY <1>2 DEF AnyScan!Discover
  <2>1. PICK some \in SUBSET AnyScan(cfg)!OnChain(c) :
          /\ lookChain' = [lookChain EXCEPT ![r] = c] /\ lookFound' = [lookFound EXCEPT ![r] = some]
          /\ AnyScan(cfg)!Goto(r, IF some = {} THEN "control" ELSE "fetch")
    BY <2>0
  <2>2. /\ UNCHANGED <<lookMarket, lookLeft, lookAnswer, lookScreened, lookListed, lookControls,
             lookTodo, lookGem, lookStored, lookTracked>>
        /\ lookListed[r] = {}
    BY <1>0, <1>2 DEF AnyScan!Discover, AnyScan!world, AnyScan!saving, ListInv, Before
  <2>3. c \in cfg.chains /\ some \in SUBSET cfg.tokens
    BY <1>0 DEF HoldsTyped, AnyScan!OnChain
  <2>4. pc' = [pc EXCEPT ![r] = "control"] \/ pc' = [pc EXCEPT ![r] = "fetch"]
    BY <2>1 DEF AnyScan!Goto
  <2>5. HoldsTyped(cfg)'
    <3>1. pc' \in [cfg.runs -> AnyScan(cfg)!Places]
      BY <1>0, <2>4 DEF HoldsTyped, AnyScan!Places
    <3>2. /\ lookChain' \in [cfg.runs -> cfg.chains \cup {Off}]
          /\ lookFound' \in [cfg.runs -> SUBSET cfg.tokens]
      BY <1>0, <2>1, <2>3 DEF HoldsTyped
    <3> QED BY <1>0, <2>2, <3>1, <3>2 DEF HoldsTyped
  <2>6. OnlyScan(cfg, r) /\ pc'[r] \in {"control", "fetch"} /\ lookChain'[r] = c
    BY <1>0, <2>1, <2>2, <2>4 DEF OnlyScan, SameList, HoldsTyped
  <2>7. ListInv(cfg, r)'
    BY <2>2, <2>3, <2>6 DEF ListInv, Before, Saved, AnyScan!Alerting
  <2> QED BY <2>5, <2>6, <2>7, OneScan
<1>3. CASE AnyScan(cfg)!Fetch(r)
  BY <1>3, FetchLists
<1>4. CASE AnyScan(cfg)!Screen(r)
  BY <1>4, ScreenJudges
<1>5. CASE AnyScan(cfg)!SaveToken(r)
  <2>1. PICK g \in lookTodo[r] : lookGem' = [lookGem EXCEPT ![r] = g]
    BY <1>5 DEF AnyScan!SaveToken
  <2>2. /\ UNCHANGED <<lookMarket, lookLeft, lookChain, lookFound, lookAnswer, lookScreened,
             lookListed, lookControls, lookTodo, lookStored, lookTracked>>
        /\ pc[r] = "token" /\ pc' = [pc EXCEPT ![r] = "scan"]
    BY <1>5 DEF AnyScan!SaveToken, AnyScan!world, AnyScan!scan, AnyScan!Goto
  <2>3. HoldsTyped(cfg)'
    BY <1>0, <2>1, <2>2 DEF HoldsTyped, AnyScan!Places
  <2>4. OnlyScan(cfg, r) /\ pc'[r] = "scan"
    BY <1>0, <2>1, <2>2 DEF OnlyScan, SameList, HoldsTyped
  <2>5. ListInv(cfg, r)'
    BY <1>0, <2>2, <2>4 DEF ListInv, AnyScan!Best, AnyScan!Judged, Kept, Before, Saved,
         AnyScan!Alerting
  <2> QED BY <2>3, <2>4, <2>5, OneScan
<1>6. CASE AnyScan(cfg)!SaveScan(r)
  <2>1. /\ UNCHANGED <<lookMarket, lookLeft, lookChain, lookFound, lookAnswer, lookScreened,
             lookListed, lookControls, lookTodo, lookGem, lookTracked>>
        /\ pc[r] = "scan" /\ pc' = [pc EXCEPT ![r] = "outcome"]
        /\ lookStored' = [lookStored EXCEPT ![r] = @ \cup {lookGem[r].token}]
    BY <1>6 DEF AnyScan!SaveScan, AnyScan!world, AnyScan!scan, AnyScan!Goto
  <2>2. HoldsTyped(cfg)'
    BY <1>0, <2>1 DEF HoldsTyped, AnyScan!Places
  <2>3. /\ OnlyScan(cfg, r) /\ pc'[r] = "outcome"
        /\ lookStored'[r] = lookStored[r] \cup {lookGem[r].token}
    BY <1>0, <2>1 DEF OnlyScan, SameList, HoldsTyped
  <2>4. ListInv(cfg, r)'
    BY <1>0, <2>1, <2>3 DEF ListInv, AnyScan!Best, AnyScan!Judged, Kept, Before, Saved,
         AnyScan!Alerting
  <2> QED BY <2>2, <2>3, <2>4, OneScan
<1>7. CASE AnyScan(cfg)!SaveOutcome(r)
  <2>1. /\ UNCHANGED <<lookMarket, lookLeft, lookChain, lookFound, lookAnswer, lookScreened,
             lookListed, lookControls, lookStored>>
        /\ pc[r] = "outcome"
        /\ lookTracked' = IF AnyScan(cfg)!HasOutcome(lookGem[r]) THEN [lookTracked EXCEPT ![r] = @ \cup {lookGem[r].token}]
             ELSE lookTracked
    BY <1>7 DEF AnyScan!SaveOutcome, AnyScan!world, AnyScan!scan
  <2>2. DOMAIN lookTracked' = cfg.runs /\ \A o \in cfg.runs \ {r} : lookTracked'[o] = lookTracked[o]
    BY <1>0, <2>1 DEF HoldsTyped
  <2>3. /\ lookTracked[r] \subseteq lookTracked'[r]
        /\ (lookGem[r].pool.priced => lookGem[r].token \in lookTracked'[r])
    BY <1>0, <2>1 DEF HoldsTyped, AnyScan!HasOutcome
  <2>4. pc[r] \in Saved(cfg)
    BY <2>1 DEF Saved
  <2>5. CASE AnyScan(cfg)!NextGem(r)
    BY <2>1, <2>2, <2>3, <2>4, <2>5, NextGemKeeps
  <2>6. CASE AnyScan(cfg)!Goto(r, "cooldown") /\ UNCHANGED <<lookTodo, lookGem>>
    <3>1. HoldsTyped(cfg)'
      BY <1>0, <2>1, <2>2, <2>6 DEF AnyScan!Goto, HoldsTyped, AnyScan!Places
    <3>2. OnlyScan(cfg, r) /\ pc'[r] = "cooldown"
      BY <1>0, <2>1, <2>2, <2>6 DEF AnyScan!Goto, OnlyScan, SameList, HoldsTyped
    <3>3. \A g \in lookListed[r] : Kept(cfg, r, g)'
      <4> SUFFICES ASSUME NEW g \in lookListed[r], g \in lookTodo[r] => g = lookGem[r]
                   PROVE  g.token \in lookStored[r] /\ (g.pool.priced => g.token \in lookTracked'[r])
        BY <2>1, <2>6 DEF Kept
      <4>1. CASE g = lookGem[r]
        BY <1>0, <2>3, <2>4, <4>1 DEF ListInv
      <4>2. CASE g \notin lookTodo[r]
        <5>1. Kept(cfg, r, g)
          BY <1>0 DEF ListInv
        <5> QED BY <2>1, <2>3, <4>2, <5>1 DEF Kept
      <4> QED BY <4>1, <4>2
    <3>4. ListInv(cfg, r)'
      BY <1>0, <2>1, <2>4, <2>6, <3>2, <3>3
           DEF ListInv, AnyScan!Best, AnyScan!Judged, Before, Saved, AnyScan!Alerting
    <3> QED BY <3>1, <3>2, <3>4, OneScan
  <2> QED BY <1>7, <2>5, <2>6 DEF AnyScan!SaveOutcome
<1>8. CASE AnyScan(cfg)!CheckCooldown(r) \/ AnyScan(cfg)!Recipients(r) \/ AnyScan(cfg)!Send(r)
             \/ AnyScan(cfg)!SaveEvent(r)
  <2>1. /\ UNCHANGED <<lookMarket, lookLeft, lookChain, lookFound, lookAnswer, lookScreened,
             lookListed, lookControls, lookStored, lookTracked>>
        /\ pc[r] \in AnyScan(cfg)!Alerting /\ pc[r] \in Saved(cfg)
    BY <1>8 DEF AnyScan!CheckCooldown, AnyScan!Recipients, AnyScan!Send, AnyScan!SaveEvent,
         AnyScan!world, AnyScan!scan, AnyScan!saving, AnyScan!Alerting, Saved
  <2>2. \/ AnyScan(cfg)!NextGem(r)
        \/ AnyScan(cfg)!Goto(r, "chats") /\ UNCHANGED <<lookTodo, lookGem>>
        \/ AnyScan(cfg)!Goto(r, "event") /\ UNCHANGED <<lookTodo, lookGem>>
        \/ AnyScan(cfg)!Goto(r, "send") /\ UNCHANGED <<lookTodo, lookGem>>
    BY <1>8 DEF AnyScan!CheckCooldown, AnyScan!Recipients, AnyScan!Send, AnyScan!SaveEvent,
         AnyScan!saving
  <2>3. CASE AnyScan(cfg)!NextGem(r)
    <3>1. \A g \in lookListed[r] : g = lookGem[r] => (g.pool.priced => g.token \in lookTracked[r])
      <4> SUFFICES ASSUME NEW g \in lookListed[r], g = lookGem[r]
                   PROVE  g.pool.priced => g.token \in lookTracked[r]
        OBVIOUS
      <4>1. Kept(cfg, r, g) /\ pc[r] # "screen"
        BY <1>0, <2>1 DEF ListInv, AnyScan!Alerting
      <4> QED BY <2>1, <4>1 DEF Kept
    <3>2. DOMAIN lookTracked = cfg.runs
      BY <1>0 DEF HoldsTyped
    <3> QED BY <2>1, <2>3, <3>1, <3>2, NextGemKeeps
  <2>4. ASSUME NEW place \in {"chats", "event", "send"}, AnyScan(cfg)!Goto(r, place),
                 UNCHANGED <<lookTodo, lookGem>>
        PROVE  ScanInv(cfg)'
    <3>1. place \in AnyScan(cfg)!Alerting /\ place \in AnyScan(cfg)!Places
      BY DEF AnyScan!Alerting, AnyScan!Places
    <3> QED BY <2>1, <2>4, <3>1, GoesOnKeeps
  <2> QED BY <2>2, <2>3, <2>4
<1>9. CASE AnyScan(cfg)!SaveControls(r) \/ AnyScan(cfg)!ReadTracked(r) \/ AnyScan(cfg)!Observe(r)
             \/ AnyScan(cfg)!ObserveFails(r)
  <2>1. /\ UNCHANGED <<lookMarket, lookLeft, lookChain, lookFound, lookAnswer, lookScreened,
             lookListed, lookControls, lookTodo, lookGem>>
        /\ UNCHANGED <<lookStored, lookTracked>>
    BY <1>9 DEF AnyScan!SaveControls, AnyScan!ReadTracked, AnyScan!Observe, AnyScan!ObserveFails,
         AnyScan!world, AnyScan!scan, AnyScan!saving
  <2>2. /\ pc[r] \in {"control", "observe", "price"}
        /\ AnyScan(cfg)!Goto(r, "observe") \/ AnyScan(cfg)!Goto(r, "price")
             \/ AnyScan(cfg)!Goto(r, "health")
    BY <1>9 DEF AnyScan!SaveControls, AnyScan!ReadTracked, AnyScan!Observe, AnyScan!ObserveFails
  <2>3. ASSUME NEW place \in {"observe", "price", "health"}, AnyScan(cfg)!Goto(r, place)
        PROVE  ScanInv(cfg)'
    <3>1. place \in AnyScan(cfg)!Places
      BY DEF AnyScan!Places
    <3> QED BY <2>1, <2>2, <2>3, <3>1, GoesOnKeeps
  <2> QED BY <2>2, <2>3
<1>10. CASE AnyScan(cfg)!SaveHealth(r) \/ AnyScan(cfg)!ChainFails(r) \/ AnyScan(cfg)!Dies(r)
  <2>1. UNCHANGED lookMarket /\ AnyScan(cfg)!Ends(r)
    BY <1>10 DEF AnyScan!SaveHealth, AnyScan!ChainFails, AnyScan!Dies, AnyScan!NextChain,
         AnyScan!world
  <2>2. lookLeft' \in [cfg.runs -> SUBSET cfg.chains]
    <3>1. lookLeft' = [lookLeft EXCEPT ![r] = @ \ {lookChain[r]}]
            \/ lookLeft' = [lookLeft EXCEPT ![r] = {}]
      BY <1>10 DEF AnyScan!SaveHealth, AnyScan!ChainFails, AnyScan!Dies, AnyScan!NextChain
    <3> QED BY <1>0, <3>1 DEF HoldsTyped
  <2>3. AnyScan(cfg)!Goto(r, "idle") \/ AnyScan(cfg)!Goto(r, "discover")
    BY <1>10 DEF AnyScan!SaveHealth, AnyScan!ChainFails, AnyScan!Dies, AnyScan!NextChain
  <2> QED BY <2>1, <2>2, <2>3, EndsKeeps
<1> QED BY <1>1, <1>2, <1>3, <1>4, <1>5, <1>6, <1>7, <1>8, <1>9, <1>10 DEF AnyScan!Step

\* Each step keeps it.
LEMMA ScanStep ==
  ASSUME NEW CONSTANT cfg, AnyScan(cfg)!ConstantsOK, ScanInv(cfg), AnyScan(cfg)!Next
           \/ UNCHANGED AnyScan(cfg)!vars
  PROVE  ScanInv(cfg)'
<1>1. ASSUME NEW r \in cfg.runs, AnyScan(cfg)!Step(r) \/ AnyScan(cfg)!ChainFails(r)
               \/ AnyScan(cfg)!ObserveFails(r) \/ AnyScan(cfg)!Dies(r)
      PROVE  ScanInv(cfg)'
  BY <1>1, RunKeepsList
<1>2. CASE \/ \E t \in cfg.tokens : AnyScan(cfg)!Trades(t) \/ AnyScan(cfg)!Cools(t)
           \/ \E c \in cfg.users : AnyScan(cfg)!Opts(c)
           \/ UNCHANGED AnyScan(cfg)!vars
  <2>1. UNCHANGED <<pc, lookLeft, lookChain, lookFound, lookAnswer, lookScreened, lookListed,
          lookControls, lookTodo, lookGem, lookStored, lookTracked>>
    BY <1>2 DEF AnyScan!Trades, AnyScan!Cools, AnyScan!Opts, AnyScan!vars, AnyScan!scan,
         AnyScan!saving
  <2>2. lookMarket' \in [cfg.tokens -> cfg.markets]
    <3>1. UNCHANGED lookMarket \/ \E t \in cfg.tokens, m \in cfg.markets :
            lookMarket' = [lookMarket EXCEPT ![t] = m]
      BY <1>2 DEF AnyScan!Trades, AnyScan!Cools, AnyScan!Opts, AnyScan!vars, AnyScan!world
    <3> QED BY <3>1 DEF ScanInv, HoldsTyped
  <2>3. HoldsTyped(cfg)'
    BY <2>1, <2>2 DEF ScanInv, HoldsTyped
  <2>4. ASSUME NEW r \in cfg.runs
        PROVE  ListInv(cfg, r)'
    <3>1. ListInv(cfg, r)
      BY DEF ScanInv
    <3> QED BY <2>1, <3>1 DEF ListInv, AnyScan!Best, AnyScan!Judged, Kept
  <2> QED BY <2>3, <2>4 DEF ScanInv
<1> QED BY <1>1, <1>2 DEF AnyScan!Next

\* Nothing is listed yet.
LEMMA ScanInit == ASSUME NEW CONSTANT cfg, AnyScan(cfg)!ConstantsOK,
  AnyScan(cfg)!Init PROVE ScanInv(cfg)
<1>1. HoldsTyped(cfg)
  BY DEF AnyScan!Init, HoldsTyped, AnyScan!Empty, AnyScan!Nobody, AnyScan!Places
<1>2. ASSUME NEW r \in cfg.runs
      PROVE  ListInv(cfg, r)
  BY DEF AnyScan!Init, ListInv, AnyScan!Empty, Before, Saved, AnyScan!Alerting
<1> QED BY <1>1, <1>2 DEF ScanInv

\* What it says of what is listed.
LEMMA ScanImplies == ASSUME NEW CONSTANT cfg, ScanInv(cfg) PROVE AnyScan(cfg)!ListedIsVetted
BY DEF ScanInv, ListInv, AnyScan!ListedIsVetted, Kept

\* Where a run has no gem in hand nor any in view, and where the one in hand is stored.
NoGem(cfg) == {"idle", "discover", "fetch", "screen"}
AtGem(cfg) == {"scan", "outcome"} \cup AnyScan(cfg)!Alerting

\* The tables are of the right kind, and what is scanned is stored.
TablesTyped(cfg) ==
  /\ lookOpted \subseteq cfg.users /\ lookCooling \subseteq cfg.tokens
  /\ lookSeen \in [cfg.tokens -> SUBSET cfg.tokens] /\ AnyScan(cfg)!InARow
  /\ lookScanned \subseteq AnyScan(cfg)!Stored
  /\ lookLooked \in [cfg.tokens -> {Off, TRUE, FALSE}]
  /\ lookEmpty \in [cfg.chains -> 0 .. 2]
  /\ lookMoves \in 0 .. cfg.maxMoves /\ lookFaults \in 0 .. cfg.maxFaults

\* So is what a run keeps beside its gems.
KeptTyped(cfg) ==
  /\ lookControls \in [cfg.runs -> SUBSET cfg.tokens]
  /\ lookMissing \in [cfg.runs -> SUBSET cfg.tokens]
  /\ lookStored \in [cfg.runs -> SUBSET cfg.tokens]
  /\ lookTracked \in [cfg.runs -> SUBSET cfg.tokens]
  /\ lookChats \in [cfg.runs -> SUBSET (cfg.configured \cup cfg.users \cup {Off})]

\* The gems a run still has to store are listed, the one in hand is stored.
RowInv(cfg, r) ==
  /\ lookTodo[r] \subseteq lookListed[r] /\ lookGem[r] \in lookListed[r] \cup {Off}
  /\ pc[r] \in NoGem(cfg) => lookTodo[r] = {} /\ lookGem[r] = Off
  /\ pc[r] \in AtGem(cfg) => /\ lookGem[r] \in lookListed[r]
                             /\ lookGem[r].token \in AnyScan(cfg)!Stored

LookInv(cfg) ==
  ScanInv(cfg) /\ TablesTyped(cfg) /\ KeptTyped(cfg) /\ \A r \in cfg.runs : RowInv(cfg, r)

\* A step of a run: its own, or one of its failures.
LookStep(cfg, r) ==
  \/ AnyScan(cfg)!Step(r) \/ AnyScan(cfg)!ChainFails(r)
  \/ AnyScan(cfg)!ObserveFails(r) \/ AnyScan(cfg)!Dies(r)

\* Which of them writes which table.
LEMMA WhoWrites ==
  ASSUME NEW CONSTANT cfg, NEW r \in cfg.runs, LookStep(cfg, r)
  PROVE  /\ UNCHANGED <<lookOpted, lookMoves>>
         /\ UNCHANGED lookCooling \/ AnyScan(cfg)!SaveEvent(r)
         /\ UNCHANGED lookSeen \/ AnyScan(cfg)!SaveToken(r)
         /\ UNCHANGED lookScanned \/ AnyScan(cfg)!SaveScan(r)
         /\ UNCHANGED lookLooked \/ AnyScan(cfg)!Observe(r)
         /\ UNCHANGED lookEmpty \/ AnyScan(cfg)!SaveHealth(r)
         /\ UNCHANGED lookFaults \/ AnyScan(cfg)!Faulty
<1> USE DEF AnyScan!world, AnyScan!tables, AnyScan!scan, AnyScan!saving
<1>1. CASE AnyScan(cfg)!Begin(r) \/ AnyScan(cfg)!Discover(r)
  BY <1>1 DEF AnyScan!Begin, AnyScan!Discover
<1>2. CASE AnyScan(cfg)!Fetch(r)
  BY <1>2 DEF AnyScan!Fetch
<1>3. CASE AnyScan(cfg)!Screen(r)
  BY <1>3 DEF AnyScan!Screen
<1>4. CASE AnyScan(cfg)!SaveToken(r) \/ AnyScan(cfg)!SaveScan(r) \/ AnyScan(cfg)!SaveOutcome(r)
  BY <1>4 DEF AnyScan!SaveToken, AnyScan!SaveScan, AnyScan!SaveOutcome
<1>5. CASE AnyScan(cfg)!CheckCooldown(r) \/ AnyScan(cfg)!Recipients(r) \/ AnyScan(cfg)!Send(r)
             \/ AnyScan(cfg)!SaveEvent(r)
  BY <1>5 DEF AnyScan!CheckCooldown, AnyScan!Recipients, AnyScan!Send, AnyScan!SaveEvent
<1>6. CASE AnyScan(cfg)!SaveControls(r) \/ AnyScan(cfg)!ReadTracked(r)
  BY <1>6 DEF AnyScan!SaveControls, AnyScan!ReadTracked
<1>7. CASE AnyScan(cfg)!Observe(r)
  BY <1>7 DEF AnyScan!Observe
<1>8. CASE AnyScan(cfg)!SaveHealth(r)
  BY <1>8 DEF AnyScan!SaveHealth
<1>9. CASE AnyScan(cfg)!ChainFails(r) \/ AnyScan(cfg)!ObserveFails(r) \/ AnyScan(cfg)!Dies(r)
  BY <1>9 DEF AnyScan!ChainFails, AnyScan!ObserveFails, AnyScan!Dies
<1> QED BY <1>1, <1>2, <1>3, <1>4, <1>5, <1>6, <1>7, <1>8, <1>9 DEF LookStep, AnyScan!Step

\* What is stored stays stored, and is in a row by when it was seen.
LEMMA StaysStored ==
  ASSUME NEW CONSTANT cfg, LookInv(cfg), NEW r \in cfg.runs,
           UNCHANGED lookSeen \/ AnyScan(cfg)!SaveToken(r)
  PROVE  /\ lookSeen' \in [cfg.tokens -> SUBSET cfg.tokens] /\ AnyScan(cfg)!InARow'
         /\ AnyScan(cfg)!Stored \subseteq AnyScan(cfg)!Stored'
<1>0. lookSeen \in [cfg.tokens -> SUBSET cfg.tokens] /\ AnyScan(cfg)!InARow
  BY DEF LookInv, TablesTyped
<1>1. CASE UNCHANGED lookSeen
  BY <1>0, <1>1 DEF AnyScan!InARow, AnyScan!Stored
<1>2. CASE AnyScan(cfg)!SaveToken(r)
  <2>1. PICK g \in lookTodo[r] :
          lookSeen' = [t \in cfg.tokens |-> IF t = g.token THEN AnyScan(cfg)!Stored \cup {t}
                                            ELSE lookSeen[t] \ {g.token}]
    BY <1>2 DEF AnyScan!SaveToken
  <2>2. g.token \in cfg.tokens
    BY DEF LookInv, RowInv, ScanInv, HoldsTyped, AnyScan!Gems
  <2> DEFINE x == g.token
             was == AnyScan(cfg)!Stored
  <2>3. /\ was \subseteq cfg.tokens
        /\ \A t \in cfg.tokens : t \in was <=> lookSeen[t] # {}
    BY DEF AnyScan!Stored
  <2>4. /\ \A t \in was : t \in lookSeen[t] /\ lookSeen[t] \subseteq was
        /\ \A t, u \in was : t # u => (t \in lookSeen[u] <=> u \notin lookSeen[t])
    BY <1>0 DEF AnyScan!InARow
  <2>5. x \in cfg.tokens
    BY <2>2
  <2>6. lookSeen' = [t \in cfg.tokens |-> IF t = x THEN was \cup {t} ELSE lookSeen[t] \ {x}]
    BY <2>1
  <2> HIDE DEF x, was
  <2>7. AnyScan(cfg)!Stored' = was \cup {x}
    <3>1. \A t \in cfg.tokens : lookSeen'[t] # {} <=> t \in was \cup {x}
      BY <1>0, <2>3, <2>4, <2>5, <2>6
    <3>2. AnyScan(cfg)!Stored' = {t \in cfg.tokens : lookSeen'[t] # {}}
      BY DEF AnyScan!Stored
    <3> QED BY <2>3, <2>5, <3>1, <3>2
  <2>8. lookSeen' \in [cfg.tokens -> SUBSET cfg.tokens]
    BY <1>0, <2>3, <2>5, <2>6
  <2>9. \A t \in was \cup {x} : t \in lookSeen'[t] /\ lookSeen'[t] \subseteq was \cup {x}
    BY <1>0, <2>3, <2>4, <2>5, <2>6
  <2>10. ASSUME NEW t \in was \cup {x}, NEW u \in was \cup {x}, t # u
         PROVE  t \in lookSeen'[u] <=> u \notin lookSeen'[t]
    <3>1. CASE t = x
      BY <2>3, <2>5, <2>6, <2>10, <3>1
    <3>2. CASE u = x
      BY <2>3, <2>5, <2>6, <2>10, <3>2
    <3>3. CASE t # x /\ u # x
      BY <2>3, <2>4, <2>5, <2>6, <2>10, <3>3
    <3> QED BY <3>1, <3>2, <3>3
  <2>11. AnyScan(cfg)!InARow'
    BY <2>7, <2>9, <2>10 DEF AnyScan!InARow
  <2> QED BY <2>7, <2>8, <2>11 DEF was
<1> QED BY <1>1, <1>2

\* The tables stay of the right kind.
LEMMA TablesKept ==
  ASSUME NEW CONSTANT cfg, AnyScan(cfg)!ConstantsOK, LookInv(cfg), NEW r \in cfg.runs,
           LookStep(cfg, r)
  PROVE  TablesTyped(cfg)' /\ AnyScan(cfg)!Stored \subseteq AnyScan(cfg)!Stored'
<1>1. /\ UNCHANGED <<lookOpted, lookMoves>>
      /\ UNCHANGED lookCooling \/ AnyScan(cfg)!SaveEvent(r)
      /\ UNCHANGED lookSeen \/ AnyScan(cfg)!SaveToken(r)
      /\ UNCHANGED lookScanned \/ AnyScan(cfg)!SaveScan(r)
      /\ UNCHANGED lookLooked \/ AnyScan(cfg)!Observe(r)
      /\ UNCHANGED lookEmpty \/ AnyScan(cfg)!SaveHealth(r)
      /\ UNCHANGED lookFaults \/ AnyScan(cfg)!Faulty
  BY WhoWrites
<1>2. TablesTyped(cfg) /\ RowInv(cfg, r) /\ lookListed[r] \subseteq AnyScan(cfg)!Gems
  BY DEF LookInv, ScanInv, HoldsTyped
<1>3. /\ lookSeen' \in [cfg.tokens -> SUBSET cfg.tokens] /\ AnyScan(cfg)!InARow'
      /\ AnyScan(cfg)!Stored \subseteq AnyScan(cfg)!Stored'
  BY <1>1, StaysStored
<1>4. lookCooling' \subseteq cfg.tokens
  <2>1. CASE AnyScan(cfg)!SaveEvent(r)
    <3>1. pc[r] \in AtGem(cfg) /\ lookCooling' = lookCooling \cup {lookGem[r].token}
      BY <2>1 DEF AnyScan!SaveEvent, AtGem, AnyScan!Alerting
    <3> QED BY <1>2, <3>1 DEF TablesTyped, RowInv, AnyScan!Stored
  <2> QED BY <1>1, <1>2, <2>1 DEF TablesTyped
<1>5. lookScanned' \subseteq AnyScan(cfg)!Stored'
  <2>1. CASE AnyScan(cfg)!SaveScan(r)
    <3>1. pc[r] \in AtGem(cfg) /\ lookScanned' = lookScanned \cup {lookGem[r].token}
      BY <2>1 DEF AnyScan!SaveScan, AtGem
    <3> QED BY <1>2, <1>3, <3>1 DEF TablesTyped, RowInv
  <2> QED BY <1>1, <1>2, <1>3, <2>1 DEF TablesTyped
<1>6. lookLooked' \in [cfg.tokens -> {Off, TRUE, FALSE}]
  <2>1. CASE AnyScan(cfg)!Observe(r)
    <3>1. \E now \in [cfg.tokens -> {TRUE, FALSE, Off}] : lookLooked' = now
      BY <2>1 DEF AnyScan!Observe
    <3> QED BY <3>1
  <2> QED BY <1>1, <1>2, <2>1 DEF TablesTyped
<1>7. lookEmpty' \in [cfg.chains -> 0 .. 2]
  <2>1. CASE AnyScan(cfg)!SaveHealth(r)
    <3> DEFINE c == lookChain[r]
    <3>1. /\ lookEmpty' = [lookEmpty EXCEPT ![c] = CASE lookFound[r] # {} -> 0 [] @ = 2 -> 2
                                                     [] OTHER -> @ + 1]
          /\ pc[r] = "health"
      BY <2>1 DEF AnyScan!SaveHealth
    <3>2. c \in cfg.chains
      BY <3>1 DEF LookInv, ScanInv, ListInv, Before
    <3>3. lookEmpty \in [cfg.chains -> 0 .. 2]
      BY <1>2 DEF TablesTyped
    <3> HIDE DEF c
    <3>4. lookEmpty[c] \in 0 .. 2
      BY <3>2, <3>3
    <3>5. (CASE lookFound[r] # {} -> 0 [] lookEmpty[c] = 2 -> 2 [] OTHER -> lookEmpty[c] + 1)
            \in 0 .. 2
      BY <3>4
    <3> QED BY <3>1, <3>2, <3>3, <3>5
  <2> QED BY <1>1, <1>2, <2>1 DEF TablesTyped
<1>8. lookFaults' \in 0 .. cfg.maxFaults
  BY <1>1, <1>2 DEF TablesTyped, AnyScan!Faulty, AnyScan!ConstantsOK
<1> QED BY <1>1, <1>2, <1>3, <1>4, <1>5, <1>6, <1>7, <1>8 DEF TablesTyped

\* What run r keeps of its gems, and where it is.
SameRow(cfg, r) ==
  /\ pc'[r] = pc[r] /\ lookListed'[r] = lookListed[r]
  /\ lookTodo'[r] = lookTodo[r] /\ lookGem'[r] = lookGem[r]

\* What is left of a run that ends on its chain.
LEMMA EndsRow ==
  ASSUME NEW CONSTANT cfg, LookInv(cfg), NEW r \in cfg.runs, AnyScan(cfg)!Ends(r),
         AnyScan(cfg)!Goto(r, "idle") \/ AnyScan(cfg)!Goto(r, "discover")
  PROVE  /\ KeptTyped(cfg)' /\ RowInv(cfg, r)'
         /\ \A o \in cfg.runs \ {r} : SameRow(cfg, o)
<1>1. KeptTyped(cfg) /\ HoldsTyped(cfg)
  BY DEF LookInv, ScanInv
<1>2. KeptTyped(cfg)'
  BY <1>1 DEF KeptTyped, AnyScan!Ends
<1>3. /\ lookTodo'[r] = {} /\ lookListed'[r] = {} /\ lookGem'[r] = Off
      /\ pc'[r] \in {"idle", "discover"}
  BY <1>1 DEF HoldsTyped, AnyScan!Ends, AnyScan!Goto
<1>4. pc'[r] \notin AtGem(cfg)
  BY <1>3 DEF AtGem, AnyScan!Alerting
<1>5. \A o \in cfg.runs \ {r} : SameRow(cfg, o)
  BY <1>1 DEF HoldsTyped, SameRow, AnyScan!Ends, AnyScan!Goto
<1> QED BY <1>2, <1>3, <1>4, <1>5 DEF RowInv

\* What is left of a gem that is dealt with.
LEMMA NextGemRow ==
  ASSUME NEW CONSTANT cfg, LookInv(cfg), NEW r \in cfg.runs, AnyScan(cfg)!NextGem(r),
         UNCHANGED <<lookListed, lookControls, lookMissing, lookStored>>,
         lookTracked' \in [cfg.runs -> SUBSET cfg.tokens]
  PROVE  /\ KeptTyped(cfg)' /\ RowInv(cfg, r)'
         /\ \A o \in cfg.runs \ {r} : SameRow(cfg, o)
<1>1. KeptTyped(cfg) /\ HoldsTyped(cfg) /\ RowInv(cfg, r)
  BY DEF LookInv, ScanInv
<1>2. KeptTyped(cfg)'
  BY <1>1 DEF KeptTyped, AnyScan!NextGem
<1>3. /\ lookTodo'[r] = lookTodo[r] \ {lookGem[r]} /\ lookGem'[r] = Off
      /\ pc'[r] \in {"control", "token"}
  BY <1>1 DEF HoldsTyped, AnyScan!NextGem, AnyScan!Goto
<1>4. pc'[r] \notin AtGem(cfg) /\ pc'[r] \notin NoGem(cfg)
  BY <1>3 DEF AtGem, NoGem, AnyScan!Alerting
<1>5. \A o \in cfg.runs \ {r} : SameRow(cfg, o)
  BY <1>1 DEF HoldsTyped, SameRow, AnyScan!NextGem, AnyScan!Goto
<1> QED BY <1>1, <1>2, <1>3, <1>4, <1>5 DEF RowInv

\* A run that goes on with what it has.
LEMMA GoesOnRow ==
  ASSUME NEW CONSTANT cfg, LookInv(cfg), NEW r \in cfg.runs, NEW place,
         AnyScan(cfg)!Goto(r, place), UNCHANGED <<lookListed, lookTodo, lookGem>>,
         place \notin NoGem(cfg), place \in AtGem(cfg) => pc[r] \in AtGem(cfg),
         AnyScan(cfg)!Stored \subseteq AnyScan(cfg)!Stored'
  PROVE  RowInv(cfg, r)' /\ \A o \in cfg.runs \ {r} : SameRow(cfg, o)
<1>1. HoldsTyped(cfg) /\ RowInv(cfg, r)
  BY DEF LookInv, ScanInv
<1>2. pc'[r] = place /\ \A o \in cfg.runs \ {r} : pc'[o] = pc[o]
  BY <1>1 DEF HoldsTyped, AnyScan!Goto
<1> QED BY <1>1, <1>2 DEF RowInv, SameRow, NoGem, AtGem

\* The gate fills the list of a run that has nothing to store.
LEMMA FetchRow ==
  ASSUME NEW CONSTANT cfg, LookInv(cfg), HoldsTyped(cfg)', NEW r \in cfg.runs, AnyScan(cfg)!Fetch(r)
  PROVE  /\ KeptTyped(cfg)' /\ RowInv(cfg, r)'
         /\ \A o \in cfg.runs \ {r} : SameRow(cfg, o)
<1>1. KeptTyped(cfg) /\ HoldsTyped(cfg) /\ RowInv(cfg, r)
  BY DEF LookInv, ScanInv
<1>2. PICK ans \in AnyScan(cfg)!Responses(lookFound[r]) :
        /\ lookAnswer' = [lookAnswer EXCEPT ![r] = ans]
        /\ \E best \in [{x[1] : x \in ans} -> {x[2] : x \in ans}] :
             LET passed  == {t \in DOMAIN best : AnyScan(cfg)!Failures(best[t]) = {}}
                 rejects == {t \in DOMAIN best : AnyScan(cfg)!IsControl(best[t])}
             IN  /\ lookListed' = [lookListed EXCEPT ![r] = {AnyScan(cfg)!Unscreened(t, best[t]) :
                      t \in passed}]
                 /\ \E kept \in AnyScan(cfg)!Samples(rejects) :
                      lookControls' = [lookControls EXCEPT ![r] = kept]
                 /\ AnyScan(cfg)!Goto(r, IF passed = {} THEN "control" ELSE "screen")
  BY DEF AnyScan!Fetch
<1>3. PICK best \in [{x[1] : x \in ans} -> {x[2] : x \in ans}] :
        LET passed  == {t \in DOMAIN best : AnyScan(cfg)!Failures(best[t]) = {}}
            rejects == {t \in DOMAIN best : AnyScan(cfg)!IsControl(best[t])}
        IN  /\ lookListed' = [lookListed EXCEPT ![r] = {AnyScan(cfg)!Unscreened(t, best[t]) :
                 t \in passed}]
            /\ \E kept \in AnyScan(cfg)!Samples(rejects) :
                 lookControls' = [lookControls EXCEPT ![r] = kept]
            /\ AnyScan(cfg)!Goto(r, IF passed = {} THEN "control" ELSE "screen")
  BY <1>2
<1> DEFINE passed  == {t \in DOMAIN best : AnyScan(cfg)!Failures(best[t]) = {}}
           rejects == {t \in DOMAIN best : AnyScan(cfg)!IsControl(best[t])}
           gems    == {AnyScan(cfg)!Unscreened(t, best[t]) : t \in passed}
<1>4. PICK kept \in AnyScan(cfg)!Samples(rejects) : lookControls' = [lookControls EXCEPT ![r] = kept]
  BY <1>3
<1>5. lookAnswer'[r] = ans /\ lookAnswer'[r] \subseteq cfg.tokens \X AnyScan(cfg)!Pools
  BY <1>1, <1>2 DEF HoldsTyped
<1>6. kept \subseteq cfg.tokens
  <2>1. kept \subseteq {x[1] : x \in ans}
    BY <1>4 DEF AnyScan!Samples
  <2> QED BY <1>5, <2>1
<1>7. /\ lookListed' = [lookListed EXCEPT ![r] = gems]
      /\ pc' = [pc EXCEPT ![r] = "control"] \/ pc' = [pc EXCEPT ![r] = "screen"]
  BY <1>3 DEF AnyScan!Goto
<1>8. /\ UNCHANGED <<lookMissing, lookStored, lookTracked, lookChats, lookTodo, lookGem>>
      /\ pc[r] = "fetch"
  BY DEF AnyScan!Fetch, AnyScan!saving
<1> HIDE DEF gems
<1>9. KeptTyped(cfg)'
  BY <1>1, <1>4, <1>6, <1>8 DEF KeptTyped
<1>10. lookTodo'[r] = {} /\ lookGem'[r] = Off /\ pc'[r] \in {"control", "screen"}
  BY <1>1, <1>7, <1>8 DEF HoldsTyped, RowInv, NoGem
<1>11. pc'[r] \notin AtGem(cfg)
  BY <1>10 DEF AtGem, AnyScan!Alerting
<1>12. \A o \in cfg.runs \ {r} : SameRow(cfg, o)
  BY <1>1, <1>7, <1>8 DEF HoldsTyped, SameRow
<1> QED BY <1>9, <1>10, <1>11, <1>12 DEF RowInv

\* The list that is left when the last is screened is what there is to store.
LEMMA ScreenRow ==
  ASSUME NEW CONSTANT cfg, LookInv(cfg), NEW r \in cfg.runs, AnyScan(cfg)!Screen(r)
  PROVE  /\ KeptTyped(cfg)' /\ RowInv(cfg, r)'
         /\ \A o \in cfg.runs \ {r} : SameRow(cfg, o)
<1>1. KeptTyped(cfg) /\ HoldsTyped(cfg) /\ RowInv(cfg, r)
  BY DEF LookInv, ScanInv
<1>2. \E rest : /\ lookListed' = [lookListed EXCEPT ![r] = rest]
                /\ \/ UNCHANGED <<pc, lookTodo>>
                   \/ /\ lookTodo' = [lookTodo EXCEPT ![r] = rest]
                      /\ AnyScan(cfg)!Goto(r, "control") \/ AnyScan(cfg)!Goto(r, "token")
  <2>1. PICK g \in lookListed[r], s \in AnyScan(cfg)!Screens(lookChain[r]) :
          LET now  == [g EXCEPT !.verdict = s.verdict, !.read = s.read, !.fault = s.fault]
              rest == (lookListed[r] \ {g}) \cup IF AnyScan(cfg)!Disqualifies(s.verdict) THEN {}
                ELSE {now}
          IN  /\ lookListed' = [lookListed EXCEPT ![r] = rest]
              /\ IF lookScreened[r] # {g.token} THEN UNCHANGED <<pc, lookTodo>>
                 ELSE /\ lookTodo' = [lookTodo EXCEPT ![r] = rest]
                      /\ AnyScan(cfg)!Goto(r, IF rest = {} THEN "control" ELSE "token")
    BY DEF AnyScan!Screen
  <2> DEFINE now  == [g EXCEPT !.verdict = s.verdict, !.read = s.read, !.fault = s.fault]
             rest == (lookListed[r] \ {g}) \cup IF AnyScan(cfg)!Disqualifies(s.verdict) THEN {}
               ELSE {now}
  <2>2. /\ lookListed' = [lookListed EXCEPT ![r] = rest]
        /\ \/ UNCHANGED <<pc, lookTodo>>
           \/ /\ lookTodo' = [lookTodo EXCEPT ![r] = rest]
              /\ AnyScan(cfg)!Goto(r, IF rest = {} THEN "control" ELSE "token")
    BY <2>1
  <2> HIDE DEF rest
  <2> QED BY <2>2
<1>3. PICK rest : /\ lookListed' = [lookListed EXCEPT ![r] = rest]
                  /\ \/ UNCHANGED <<pc, lookTodo>>
                     \/ /\ lookTodo' = [lookTodo EXCEPT ![r] = rest]
                        /\ AnyScan(cfg)!Goto(r, "control") \/ AnyScan(cfg)!Goto(r, "token")
  BY <1>2
<1>4. /\ UNCHANGED <<lookControls, lookMissing, lookStored, lookTracked, lookChats, lookGem>>
      /\ pc[r] = "screen"
  BY DEF AnyScan!Screen
<1>5. KeptTyped(cfg)'
  BY <1>1, <1>4 DEF KeptTyped
<1>6. /\ lookListed'[r] = rest /\ lookTodo'[r] \in {{}, rest} /\ lookGem'[r] = Off
      /\ pc'[r] \in {"control", "token"} \/ (pc'[r] = "screen" /\ lookTodo'[r] = {})
  BY <1>1, <1>3, <1>4 DEF HoldsTyped, RowInv, NoGem, AnyScan!Goto
<1>7. pc'[r] \notin AtGem(cfg) /\ (pc'[r] \in NoGem(cfg) => lookTodo'[r] = {})
  BY <1>6 DEF AtGem, NoGem, AnyScan!Alerting
<1>8. \A o \in cfg.runs \ {r} : SameRow(cfg, o)
  BY <1>1, <1>3, <1>4 DEF HoldsTyped, SameRow, AnyScan!Goto
<1> QED BY <1>5, <1>6, <1>7, <1>8 DEF RowInv

\* Each step of a run keeps what it has in order.
LEMMA RowKept ==
  ASSUME NEW CONSTANT cfg, LookInv(cfg), HoldsTyped(cfg)', NEW r \in cfg.runs, LookStep(cfg, r),
         AnyScan(cfg)!Stored \subseteq AnyScan(cfg)!Stored'
  PROVE  /\ KeptTyped(cfg)' /\ RowInv(cfg, r)'
         /\ \A o \in cfg.runs \ {r} : SameRow(cfg, o)
<1>0. KeptTyped(cfg) /\ HoldsTyped(cfg) /\ RowInv(cfg, r) /\ ListInv(cfg, r)
  BY DEF LookInv, ScanInv
<1>1. CASE AnyScan(cfg)!Begin(r) \/ AnyScan(cfg)!Discover(r)
  <2>1. /\ UNCHANGED <<lookControls, lookMissing, lookStored, lookTracked, lookChats>>
        /\ UNCHANGED <<lookListed, lookTodo, lookGem>> /\ pc[r] \in NoGem(cfg)
    BY <1>1 DEF AnyScan!Begin, AnyScan!Discover, AnyScan!saving, NoGem
  <2>2. \E place \in {"discover", "control", "fetch"} : AnyScan(cfg)!Goto(r, place)
    BY <1>1 DEF AnyScan!Begin, AnyScan!Discover
  <2>3. pc'[r] \in {"discover", "control", "fetch"} /\ \A o \in cfg.runs \ {r} : pc'[o] = pc[o]
    BY <1>0, <2>2 DEF HoldsTyped, AnyScan!Goto
  <2>4. pc'[r] \notin AtGem(cfg)
    BY <2>3 DEF AtGem, AnyScan!Alerting
  <2> QED BY <1>0, <2>1, <2>3, <2>4 DEF KeptTyped, RowInv, SameRow
<1>2. CASE AnyScan(cfg)!Fetch(r)
  BY <1>2, FetchRow
<1>3. CASE AnyScan(cfg)!Screen(r)
  BY <1>3, ScreenRow
<1>4. CASE AnyScan(cfg)!SaveToken(r)
  <2>1. PICK g \in lookTodo[r] :
          /\ lookGem' = [lookGem EXCEPT ![r] = g]
          /\ lookSeen' = [t \in cfg.tokens |-> IF t = g.token THEN AnyScan(cfg)!Stored \cup {t}
                                               ELSE lookSeen[t] \ {g.token}]
    BY <1>4 DEF AnyScan!SaveToken
  <2>2. /\ UNCHANGED <<lookControls, lookMissing, lookStored, lookTracked, lookChats>>
        /\ UNCHANGED <<lookListed, lookTodo>> /\ pc' = [pc EXCEPT ![r] = "scan"]
    BY <1>4 DEF AnyScan!SaveToken, AnyScan!scan, AnyScan!Goto
  <2>3. KeptTyped(cfg)'
    BY <1>0, <2>2 DEF KeptTyped
  <2>4. lookGem'[r] = g /\ g \in lookListed[r] /\ pc'[r] = "scan"
    BY <1>0, <2>1, <2>2 DEF HoldsTyped, RowInv
  <2>5. g.token \in cfg.tokens
    BY <1>0, <2>4 DEF HoldsTyped, AnyScan!Gems
  <2>6. g.token \in AnyScan(cfg)!Stored'
    BY <2>1, <2>5 DEF AnyScan!Stored
  <2>7. \A o \in cfg.runs \ {r} : SameRow(cfg, o)
    BY <1>0, <2>1, <2>2 DEF HoldsTyped, SameRow
  <2> QED BY <1>0, <2>2, <2>3, <2>4, <2>6, <2>7 DEF RowInv, NoGem
<1>5. CASE AnyScan(cfg)!SaveScan(r)
  <2>1. /\ UNCHANGED <<lookControls, lookMissing, lookTracked, lookChats>>
        /\ UNCHANGED <<lookListed, lookTodo, lookGem>> /\ AnyScan(cfg)!Goto(r, "outcome")
        /\ lookStored' = [lookStored EXCEPT ![r] = @ \cup {lookGem[r].token}] /\ pc[r] = "scan"
    BY <1>5 DEF AnyScan!SaveScan, AnyScan!scan
  <2>2. lookGem[r].token \in cfg.tokens
    BY <1>0, <2>1 DEF RowInv, AtGem, AnyScan!Stored
  <2>3. KeptTyped(cfg)'
    BY <1>0, <2>1, <2>2 DEF KeptTyped
  <2>4. "outcome" \notin NoGem(cfg) /\ pc[r] \in AtGem(cfg)
    BY <2>1 DEF NoGem, AtGem
  <2> QED BY <2>1, <2>3, <2>4, GoesOnRow
<1>6. CASE AnyScan(cfg)!SaveOutcome(r)
  <2>1. /\ UNCHANGED <<lookControls, lookMissing, lookStored, lookListed>> /\ pc[r] = "outcome"
        /\ \/ lookTracked' = [lookTracked EXCEPT ![r] = @ \cup {lookGem[r].token}]
           \/ lookTracked' = lookTracked
        /\ \/ AnyScan(cfg)!Goto(r, "cooldown") /\ UNCHANGED <<lookTodo, lookGem, lookChats>>
           \/ AnyScan(cfg)!NextGem(r)
    BY <1>6 DEF AnyScan!SaveOutcome, AnyScan!scan
  <2>2. lookGem[r].token \in cfg.tokens
    BY <1>0, <2>1 DEF RowInv, AtGem, AnyScan!Stored
  <2>3. lookTracked' \in [cfg.runs -> SUBSET cfg.tokens]
    BY <1>0, <2>1, <2>2 DEF KeptTyped
  <2>4. CASE AnyScan(cfg)!NextGem(r)
    BY <2>1, <2>3, <2>4, NextGemRow
  <2>5. CASE AnyScan(cfg)!Goto(r, "cooldown") /\ UNCHANGED <<lookTodo, lookGem, lookChats>>
    <3>1. KeptTyped(cfg)'
      BY <1>0, <2>1, <2>3, <2>5 DEF KeptTyped
    <3>2. "cooldown" \notin NoGem(cfg) /\ pc[r] \in AtGem(cfg)
      BY <2>1 DEF NoGem, AtGem
    <3> QED BY <2>1, <2>5, <3>1, <3>2, GoesOnRow
  <2> QED BY <2>1, <2>4, <2>5
<1>7. CASE AnyScan(cfg)!CheckCooldown(r) \/ AnyScan(cfg)!Recipients(r) \/ AnyScan(cfg)!Send(r)
             \/ AnyScan(cfg)!SaveEvent(r)
  <2>1. /\ UNCHANGED <<lookControls, lookMissing, lookStored, lookTracked, lookListed>>
        /\ pc[r] \in AtGem(cfg)
    BY <1>7 DEF AnyScan!CheckCooldown, AnyScan!Recipients, AnyScan!Send, AnyScan!SaveEvent,
         AnyScan!scan, AnyScan!saving, AtGem, AnyScan!Alerting
  <2>2. \/ AnyScan(cfg)!NextGem(r)
        \/ /\ UNCHANGED <<lookTodo, lookGem>>
           /\ \E place \in {"chats", "event", "send"} : AnyScan(cfg)!Goto(r, place)
           /\ \/ UNCHANGED lookChats \/ AnyScan(cfg)!Recipients(r)
              \/ \E c \in lookChats[r] : lookChats' = [lookChats EXCEPT ![r] = @ \ {c}]
    <3>1. CASE AnyScan(cfg)!CheckCooldown(r) \/ AnyScan(cfg)!Send(r)
      BY <3>1 DEF AnyScan!CheckCooldown, AnyScan!Send, AnyScan!saving
    <3>2. CASE AnyScan(cfg)!Recipients(r)
      BY <3>2 DEF AnyScan!Recipients
    <3>3. CASE AnyScan(cfg)!SaveEvent(r)
      BY <3>3 DEF AnyScan!SaveEvent
    <3> QED BY <1>7, <3>1, <3>2, <3>3
  <2>3. CASE AnyScan(cfg)!NextGem(r)
    <3>1. lookTracked' \in [cfg.runs -> SUBSET cfg.tokens]
      BY <1>0, <2>1 DEF KeptTyped
    <3> QED BY <2>1, <2>3, <3>1, NextGemRow
  <2>4. ASSUME UNCHANGED <<lookTodo, lookGem>>, NEW place \in {"chats", "event", "send"},
               AnyScan(cfg)!Goto(r, place),
               \/ UNCHANGED lookChats \/ AnyScan(cfg)!Recipients(r)
               \/ \E c \in lookChats[r] : lookChats' = [lookChats EXCEPT ![r] = @ \ {c}]
        PROVE  /\ KeptTyped(cfg)' /\ RowInv(cfg, r)'
               /\ \A o \in cfg.runs \ {r} : SameRow(cfg, o)
    <3>1. lookChats' \in [cfg.runs -> SUBSET (cfg.configured \cup cfg.users \cup {Off})]
      <4>1. CASE AnyScan(cfg)!Recipients(r)
        <5>1. lookOpted \subseteq cfg.users
          BY DEF LookInv, TablesTyped
        <5>2. \E all \in SUBSET (cfg.configured \cup cfg.users) :
                lookChats' = [lookChats EXCEPT ![r] = IF all = {} THEN {Off} ELSE all]
          BY <4>1, <5>1 DEF AnyScan!Recipients
        <5> QED BY <1>0, <5>2 DEF KeptTyped
      <4> QED BY <1>0, <2>4, <4>1 DEF KeptTyped
    <3>2. KeptTyped(cfg)'
      BY <1>0, <2>1, <3>1 DEF KeptTyped
    <3>3. place \notin NoGem(cfg)
      BY DEF NoGem
    <3> QED BY <2>1, <2>4, <3>2, <3>3, GoesOnRow
  <2> QED BY <2>2, <2>3, <2>4
<1>8. CASE AnyScan(cfg)!SaveControls(r) \/ AnyScan(cfg)!ReadTracked(r) \/ AnyScan(cfg)!Observe(r)
             \/ AnyScan(cfg)!ObserveFails(r)
  <2>1. /\ UNCHANGED <<lookControls, lookStored, lookTracked, lookChats>>
        /\ UNCHANGED <<lookListed, lookTodo, lookGem>>
        /\ UNCHANGED lookMissing \/ AnyScan(cfg)!ReadTracked(r)
    BY <1>8 DEF AnyScan!SaveControls, AnyScan!ReadTracked, AnyScan!Observe, AnyScan!ObserveFails,
         AnyScan!scan, AnyScan!saving
  <2>2. \E place \in {"observe", "price", "health"} : AnyScan(cfg)!Goto(r, place)
    BY <1>8 DEF AnyScan!SaveControls, AnyScan!ReadTracked, AnyScan!Observe, AnyScan!ObserveFails
  <2>3. PICK place \in {"observe", "price", "health"} : AnyScan(cfg)!Goto(r, place)
    BY <2>2
  <2>4. lookMissing' \in [cfg.runs -> SUBSET cfg.tokens]
    <3>1. CASE AnyScan(cfg)!ReadTracked(r)
      <4>1. lookMissing' = [lookMissing EXCEPT ![r] = AnyScan(cfg)!Missing(r)]
        BY <3>1 DEF AnyScan!ReadTracked
      <4>2. AnyScan(cfg)!Missing(r) \subseteq lookScanned
        BY DEF AnyScan!Missing, AnyScan!Watched
      <4>3. lookScanned \subseteq cfg.tokens
        BY DEF LookInv, TablesTyped, AnyScan!Stored
      <4> QED BY <1>0, <4>1, <4>2, <4>3 DEF KeptTyped
    <3> QED BY <1>0, <2>1, <3>1 DEF KeptTyped
  <2>5. KeptTyped(cfg)'
    BY <1>0, <2>1, <2>4 DEF KeptTyped
  <2>6. place \notin NoGem(cfg) /\ place \notin AtGem(cfg)
    BY DEF NoGem, AtGem, AnyScan!Alerting
  <2> QED BY <2>1, <2>3, <2>5, <2>6, GoesOnRow
<1>9. CASE AnyScan(cfg)!SaveHealth(r) \/ AnyScan(cfg)!ChainFails(r) \/ AnyScan(cfg)!Dies(r)
  <2>1. /\ AnyScan(cfg)!Ends(r)
        /\ AnyScan(cfg)!Goto(r, "idle") \/ AnyScan(cfg)!Goto(r, "discover")
    BY <1>9 DEF AnyScan!SaveHealth, AnyScan!ChainFails, AnyScan!Dies, AnyScan!NextChain
  <2> QED BY <2>1, EndsRow
<1> QED BY <1>1, <1>2, <1>3, <1>4, <1>5, <1>6, <1>7, <1>8, <1>9 DEF LookStep, AnyScan!Step

\* Each step keeps it.
LEMMA LookKept ==
  ASSUME NEW CONSTANT cfg, AnyScan(cfg)!ConstantsOK, LookInv(cfg),
         AnyScan(cfg)!Next \/ UNCHANGED AnyScan(cfg)!vars
  PROVE  LookInv(cfg)'
<1>1. ScanInv(cfg)'
  <2>1. ScanInv(cfg)
    BY DEF LookInv
  <2> QED BY <2>1, ScanStep
<1>2. ASSUME NEW r \in cfg.runs, LookStep(cfg, r)
      PROVE  LookInv(cfg)'
  <2>1. TablesTyped(cfg)' /\ AnyScan(cfg)!Stored \subseteq AnyScan(cfg)!Stored'
    BY <1>2, TablesKept
  <2>2. HoldsTyped(cfg)'
    BY <1>1 DEF ScanInv
  <2>3. /\ KeptTyped(cfg)' /\ RowInv(cfg, r)'
        /\ \A o \in cfg.runs \ {r} : SameRow(cfg, o)
    BY <1>2, <2>1, <2>2, RowKept
  <2>4. ASSUME NEW o \in cfg.runs \ {r}
        PROVE  RowInv(cfg, o)'
    <3>1. RowInv(cfg, o) /\ SameRow(cfg, o)
      BY <2>3 DEF LookInv
    <3> QED BY <2>1, <3>1 DEF RowInv, SameRow
  <2> QED BY <1>1, <2>1, <2>3, <2>4 DEF LookInv
<1>3. CASE \/ \E t \in cfg.tokens : AnyScan(cfg)!Trades(t) \/ AnyScan(cfg)!Cools(t)
           \/ \E c \in cfg.users : AnyScan(cfg)!Opts(c)
           \/ UNCHANGED AnyScan(cfg)!vars
  <2>1. /\ UNCHANGED <<pc, lookListed, lookTodo, lookGem>>
        /\ UNCHANGED <<lookControls, lookMissing, lookStored, lookTracked, lookChats>>
        /\ UNCHANGED <<lookSeen, lookScanned, lookLooked, lookEmpty, lookFaults>>
    BY <1>3 DEF AnyScan!Trades, AnyScan!Cools, AnyScan!Opts, AnyScan!vars, AnyScan!tables,
         AnyScan!scan, AnyScan!saving
  <2>2. TablesTyped(cfg)
    BY DEF LookInv
  <2>3. /\ lookOpted' = lookOpted \/ \E c \in cfg.users : lookOpted' \in {lookOpted \ {c},
             lookOpted \cup {c}}
        /\ lookCooling' = lookCooling \/ \E t \in cfg.tokens : lookCooling' = lookCooling \ {t}
        /\ lookMoves' = lookMoves \/ AnyScan(cfg)!Move
    BY <1>3 DEF AnyScan!Trades, AnyScan!Cools, AnyScan!Opts, AnyScan!vars, AnyScan!tables,
         AnyScan!world
  <2>4. lookMoves' \in 0 .. cfg.maxMoves
    BY <2>2, <2>3 DEF TablesTyped, AnyScan!Move, AnyScan!ConstantsOK
  <2>5. AnyScan(cfg)!Stored' = AnyScan(cfg)!Stored /\ (AnyScan(cfg)!InARow <=> AnyScan(cfg)!InARow')
    BY <2>1 DEF AnyScan!Stored, AnyScan!InARow
  <2>6. TablesTyped(cfg)'
    BY <2>1, <2>2, <2>3, <2>4, <2>5 DEF TablesTyped
  <2>7. KeptTyped(cfg)'
    BY <2>1 DEF LookInv, KeptTyped
  <2>8. \A r \in cfg.runs : RowInv(cfg, r)'
    BY <2>1, <2>5 DEF LookInv, RowInv
  <2> QED BY <1>1, <2>6, <2>7, <2>8 DEF LookInv
<1> QED BY <1>2, <1>3 DEF AnyScan!Next, LookStep

\* Nothing is stored yet.
LEMMA LookInit ==
  ASSUME NEW CONSTANT cfg, AnyScan(cfg)!ConstantsOK, AnyScan(cfg)!Init
  PROVE  LookInv(cfg)
<1>1. ScanInv(cfg)
  BY ScanInit
<1>2. AnyScan(cfg)!Stored = {}
  BY DEF AnyScan!Init, AnyScan!Stored
<1>3. TablesTyped(cfg)
  BY <1>2 DEF AnyScan!Init, AnyScan!ConstantsOK, AnyScan!InARow, TablesTyped
<1>4. KeptTyped(cfg)
  BY DEF AnyScan!Init, AnyScan!Empty, KeptTyped
<1>5. \A r \in cfg.runs : RowInv(cfg, r)
  <2> SUFFICES ASSUME NEW r \in cfg.runs PROVE RowInv(cfg, r)
    OBVIOUS
  <2>1. lookTodo[r] = {} /\ lookListed[r] = {} /\ lookGem[r] = Off /\ pc[r] = "idle"
    BY DEF AnyScan!Init, AnyScan!Empty, AnyScan!Nobody
  <2> QED BY <2>1 DEF RowInv, AtGem, AnyScan!Alerting
<1> QED BY <1>1, <1>3, <1>4, <1>5 DEF LookInv

\* What it says of the types.
LEMMA LookImplies == ASSUME NEW CONSTANT cfg, LookInv(cfg) PROVE AnyScan(cfg)!TypeOK
BY DEF LookInv, ScanInv, HoldsTyped, TablesTyped, KeptTyped, RowInv, AnyScan!TypeOK


-----------------------------------------------------------------------------
(* The announcement of the baseline: its variables are v1 .. v7. *)

\* Its types hold at first.
LEMMA BaselineInit == ASSUME Baseline!ConstantsOK, Baseline!Init PROVE Baseline!TypeOK
BY DEF Baseline!Init, Baseline!TypeOK, Baseline!ConstantsOK, Baseline!Maybe

\* Each step of a run keeps the types: the verdict it is about to tell is news.
LEMMA BaselineRun ==
  ASSUME Baseline!ConstantsOK, Baseline!TypeOK, NEW r \in BaselineConfig.runs,
         Baseline!Step(r) \/ Baseline!Fails(r)
  PROVE  Baseline!TypeOK'
<1>1. ASSUME Baseline!End(r), UNCHANGED <<v1, v2, v6>>, v3' \in Baseline!Maybe,
             v7' \in 0 .. BaselineConfig.maxFaults
      PROVE  Baseline!TypeOK'
  <2>1. /\ pc' \in [BaselineConfig.runs -> {"idle", "last", "recipients", "send"}]
        /\ v4' \in [BaselineConfig.runs -> Baseline!Maybe]
        /\ v5' \in [BaselineConfig.runs -> SUBSET Baseline!Chats]
    BY <1>1 DEF Baseline!End, Baseline!Goto, Baseline!TypeOK, Baseline!Maybe
  <2>2. ASSUME NEW o \in BaselineConfig.runs, pc'[o] \in {"recipients", "send"}
        PROVE  v4'[o] \in BaselineConfig.verdicts
    <3>1. o # r
      BY <1>1, <2>2 DEF Baseline!End, Baseline!Goto, Baseline!TypeOK
    <3> QED BY <1>1, <2>2, <3>1 DEF Baseline!End, Baseline!Goto, Baseline!TypeOK
  <2> QED BY <1>1, <2>1, <2>2 DEF Baseline!TypeOK
<1>2. ASSUME NEW place \in {"last", "recipients", "send"}, Baseline!Goto(r, place),
             UNCHANGED <<v1, v2, v3, v6, v7>>,
             v4' \in [BaselineConfig.runs -> Baseline!Maybe],
             v5' \in [BaselineConfig.runs -> SUBSET Baseline!Chats],
             \A o \in BaselineConfig.runs \ {r} : v4'[o] = v4[o],
             place # "last" => v4'[r] \in BaselineConfig.verdicts
      PROVE  Baseline!TypeOK'
  <2>1. pc' \in [BaselineConfig.runs -> {"idle", "last", "recipients", "send"}]
    BY <1>2 DEF Baseline!Goto, Baseline!TypeOK
  <2>2. ASSUME NEW o \in BaselineConfig.runs, pc'[o] \in {"recipients", "send"}
        PROVE  v4'[o] \in BaselineConfig.verdicts
    BY <1>2, <2>2 DEF Baseline!Goto, Baseline!TypeOK
  <2> QED BY <1>2, <2>1, <2>2 DEF Baseline!TypeOK
<1>3. CASE Baseline!Begin(r)
  BY <1>2, <1>3 DEF Baseline!Begin, Baseline!TypeOK
<1>4. CASE Baseline!Decide(r)
  <2>1. CASE Baseline!IsNews(v4[r], v3)
    <3>1. v4[r] \in BaselineConfig.verdicts
      BY <2>1 DEF Baseline!IsNews, Baseline!TypeOK, Baseline!Maybe
    <3> QED BY <1>2, <1>4, <2>1, <3>1 DEF Baseline!Decide, Baseline!TypeOK
  <2>2. CASE ~Baseline!IsNews(v4[r], v3)
    BY <1>1, <1>4, <2>2 DEF Baseline!Decide, Baseline!TypeOK
  <2> QED BY <2>1, <2>2
<1>5. CASE Baseline!Address(r)
  <2>1. CASE Baseline!Recipients = {}
    BY <1>1, <1>5, <2>1 DEF Baseline!Address, Baseline!TypeOK
  <2>2. CASE Baseline!Recipients # {}
    <3>1. /\ v5' \in [BaselineConfig.runs -> SUBSET Baseline!Chats]
          /\ v4[r] \in BaselineConfig.verdicts
      BY <1>5, <2>2 DEF Baseline!Address, Baseline!Recipients, Baseline!Chats, Baseline!TypeOK
    <3> QED BY <1>2, <1>5, <2>2, <3>1 DEF Baseline!Address, Baseline!TypeOK
  <2> QED BY <2>1, <2>2
<1>6. CASE Baseline!Send(r)
  BY <1>6 DEF Baseline!Send, Baseline!TypeOK
<1>7. CASE Baseline!Record(r)
  <2>1. v4[r] \in Baseline!Maybe
    BY DEF Baseline!TypeOK
  <2> QED BY <1>1, <1>7, <2>1 DEF Baseline!Record, Baseline!TypeOK
<1>8. CASE Baseline!Fails(r)
  <2>1. v7' \in 0 .. BaselineConfig.maxFaults
    BY <1>8 DEF Baseline!Fails, Baseline!TypeOK, Baseline!ConstantsOK
  <2> QED BY <1>1, <1>8, <2>1 DEF Baseline!Fails, Baseline!TypeOK
<1> QED BY <1>3, <1>4, <1>5, <1>6, <1>7, <1>8 DEF Baseline!Step

\* So does every step.
LEMMA BaselineStep ==
  ASSUME Baseline!ConstantsOK, Baseline!TypeOK, Baseline!Next \/ UNCHANGED Baseline!vars
  PROVE  Baseline!TypeOK'
<1>1. CASE Baseline!Turns
  BY <1>1 DEF Baseline!Turns, Baseline!TypeOK, Baseline!ConstantsOK
<1>2. ASSUME NEW c \in BaselineConfig.subscribers, Baseline!Opts(c) PROVE Baseline!TypeOK'
  BY <1>2 DEF Baseline!Opts, Baseline!TypeOK, Baseline!ConstantsOK
<1>3. CASE UNCHANGED Baseline!vars
  BY <1>3 DEF Baseline!vars, Baseline!TypeOK
<1> QED BY <1>1, <1>2, <1>3, BaselineRun DEF Baseline!Next

-----------------------------------------------------------------------------
(* The alerts on the system: their variables are v1 .. v7. *)

\* Its types hold at first.
LEMMA HealthInit == ASSUME Health!ConstantsOK, Health!Init PROVE Health!TypeOK
BY DEF Health!Init, Health!TypeOK, Health!ConstantsOK

\* Each step keeps them.
LEMMA HealthStep ==
  ASSUME Health!ConstantsOK, Health!TypeOK, Health!Next \/ UNCHANGED Health!vars
  PROVE  Health!TypeOK'
<1>1. ASSUME NEW r \in HealthConfig.cycles, Health!ReadRuntime(r) \/ Health!ReadTables(r)
      PROVE  Health!TypeOK'
  BY <1>1 DEF Health!ReadRuntime, Health!ReadTables, Health!Goto, Health!TypeOK, Health!Keys,
       Health!Issues
<1>2. ASSUME NEW r \in HealthConfig.cycles, Health!Compare(r)
      PROVE  Health!TypeOK'
  <2>1. /\ UNCHANGED <<v1, v6, v7>>
        /\ v2' \subseteq Health!Keys
        /\ v3' \in [Health!Keys -> {"nothing", "opened", "closed"}]
    BY <1>2 DEF Health!Compare, Health!Remembered, Health!TypeOK
  <2>2. /\ pc' \in [HealthConfig.cycles -> {"idle", "tables", "compare", "send"}]
        /\ v4' \in [HealthConfig.cycles -> SUBSET Health!Keys]
    BY <1>2 DEF Health!Compare, Health!Goto, Health!TypeOK
  <2>3. v5' \in [HealthConfig.cycles -> SUBSET Health!Messages]
    BY <1>2 DEF Health!Compare, Health!Messages, Health!TypeOK
  <2> QED BY <2>1, <2>2, <2>3 DEF Health!TypeOK
<1>3. ASSUME NEW r \in HealthConfig.cycles, Health!Send(r) \/ Health!Done(r)
      PROVE  Health!TypeOK'
  BY <1>3 DEF Health!Send, Health!Done, Health!Goto, Health!TypeOK
<1>4. ASSUME NEW r \in HealthConfig.cycles, Health!Fails(r)
      PROVE  Health!TypeOK'
  BY <1>4 DEF Health!Fails, Health!Goto, Health!TypeOK, Health!ConstantsOK
<1>5. CASE Health!Restart
  BY <1>5 DEF Health!Restart, Health!TypeOK, Health!ConstantsOK
<1>6. ASSUME NEW k \in Health!Keys, Health!Changes(k)
      PROVE  Health!TypeOK'
  BY <1>6 DEF Health!Changes, Health!TypeOK, Health!ConstantsOK
<1>7. CASE UNCHANGED Health!vars
  BY <1>7 DEF Health!vars, Health!TypeOK
<1> QED BY <1>1, <1>2, <1>3, <1>4, <1>5, <1>6, <1>7 DEF Health!Next, Health!Step

-----------------------------------------------------------------------------
(* The outcomes of signals, proved in a module of their own. *)

OutcomeLemmas == INSTANCE SignalOutcomesProofs WITH
  Runs <- OutcomeConfig.runs, Drains <- OutcomeConfig.drains, Signals <- OutcomeConfig.signals,
  TypeOf <- OutcomeConfig.typeOf, FrameOf <- OutcomeConfig.frameOf,
  SourceOf <- OutcomeConfig.sourceOf, Horizons <- OutcomeConfig.horizons,
  Look <- OutcomeConfig.look, Limit <- OutcomeConfig.limit, MaxTime <- OutcomeConfig.maxTime,
  MaxFaults <- OutcomeConfig.maxFaults, None <- Off,
  now <- v1, at <- v2, row <- v3, price <- v4, candles <- v5, begun <- v6, horizon <- v7,
  batch <- v8, faults <- v9

\* Those proofs are about the outcomes that Trackers plays.
LEMMA SameOutcome ==
  /\ Outcome!ConstantsOK <=> OutcomeLemmas!ConstantsOK
  /\ Outcome!Init <=> OutcomeLemmas!Init
  /\ Outcome!Next <=> OutcomeLemmas!Next
  /\ UNCHANGED Outcome!vars <=> UNCHANGED OutcomeLemmas!vars
  /\ Outcome!TypeOK <=> OutcomeLemmas!TypeOK
<1>1. Outcome!ConstantsOK <=> OutcomeLemmas!ConstantsOK
  BY DEF Outcome!ConstantsOK, Outcome!Times, OutcomeLemmas!ConstantsOK, OutcomeLemmas!Times
<1>2. Outcome!Init <=> OutcomeLemmas!Init
  BY DEF Outcome!Init, Outcome!Shortest, OutcomeLemmas!Init, OutcomeLemmas!Shortest
<1>3. ASSUME NEW r
      PROVE  /\ Outcome!Begin(r) <=> OutcomeLemmas!Begin(r)
             /\ Outcome!Fails(r) <=> OutcomeLemmas!Fails(r)
  BY DEF Outcome!Begin, Outcome!Fails, Outcome!Faulty, Outcome!Shortest, Outcome!tables,
       OutcomeLemmas!Begin, OutcomeLemmas!Fails, OutcomeLemmas!Faulty, OutcomeLemmas!Shortest,
       OutcomeLemmas!tables
<1>4. ASSUME NEW r PROVE Outcome!Read(r) <=> OutcomeLemmas!Read(r)
  <2>1. ASSUME NEW s, NEW h PROVE Outcome!Answers(s, h) = OutcomeLemmas!Answers(s, h)
    BY DEF Outcome!Answers, OutcomeLemmas!Answers
  <2>2. ASSUME NEW s, NEW h PROVE Outcome!Answer(s, h) = OutcomeLemmas!Answer(s, h)
    BY <2>1 DEF Outcome!Answer, OutcomeLemmas!Answer
  <2>3. Outcome!Due(r) = OutcomeLemmas!Due(r)
    BY DEF Outcome!Due, OutcomeLemmas!Due
  <2>4. ASSUME NEW S, NEW h PROVE Outcome!Priceable(S, h) = OutcomeLemmas!Priceable(S, h)
    BY <2>1 DEF Outcome!Priceable, OutcomeLemmas!Priceable
  <2>5. ASSUME NEW S PROVE Outcome!PagesOf(S) = OutcomeLemmas!PagesOf(S)
    <3>1. ASSUME NEW T PROVE Outcome!Cardinality(T) = OutcomeLemmas!Cardinality(T)
      BY DEF Outcome!Cardinality, OutcomeLemmas!Cardinality
    <3> QED BY <3>1 DEF Outcome!PagesOf, OutcomeLemmas!PagesOf
  <2>6. Outcome!Pages(r) = OutcomeLemmas!Pages(r)
    BY <2>3, <2>4, <2>5 DEF Outcome!Pages, OutcomeLemmas!Pages
  <2>7. Outcome!NextHorizon(r) <=> OutcomeLemmas!NextHorizon(r)
    BY DEF Outcome!NextHorizon, OutcomeLemmas!NextHorizon
  <2> QED BY <2>2, <2>6, <2>7 DEF Outcome!Read, Outcome!tables, OutcomeLemmas!Read,
             OutcomeLemmas!tables
<1>5. ASSUME NEW r PROVE Outcome!Record(r) <=> OutcomeLemmas!Record(r)
  BY DEF Outcome!Record, Outcome!NextHorizon, OutcomeLemmas!Record, OutcomeLemmas!NextHorizon
<1>6. /\ \A s : Outcome!Fire(s) <=> OutcomeLemmas!Fire(s)
      /\ \A t : Outcome!Store(t) <=> OutcomeLemmas!Store(t)
      /\ Outcome!Tick <=> OutcomeLemmas!Tick
      /\ Outcome!Times = OutcomeLemmas!Times
  BY DEF Outcome!Fire, Outcome!Store, Outcome!Tick, Outcome!Faulty, Outcome!Times, Outcome!tables,
       OutcomeLemmas!Fire, OutcomeLemmas!Store, OutcomeLemmas!Tick, OutcomeLemmas!Faulty,
       OutcomeLemmas!Times, OutcomeLemmas!tables
<1>7. Outcome!Next <=> OutcomeLemmas!Next
  BY <1>3, <1>4, <1>5, <1>6 DEF Outcome!Next, Outcome!Step, OutcomeLemmas!Next, OutcomeLemmas!Step
<1>8. UNCHANGED Outcome!vars <=> UNCHANGED OutcomeLemmas!vars
  BY DEF Outcome!vars, Outcome!tables, OutcomeLemmas!vars, OutcomeLemmas!tables
<1>9. Outcome!TypeOK <=> OutcomeLemmas!TypeOK
  BY <1>6 DEF Outcome!TypeOK, OutcomeLemmas!TypeOK
<1> QED BY <1>1, <1>2, <1>7, <1>8, <1>9

\* So its invariant holds at first,
LEMMA SignalsInit ==
  ASSUME Outcome!ConstantsOK, Outcome!Init
  PROVE  OutcomeLemmas!WindowInv
BY SameOutcome, OutcomeLemmas!WindowInit

\* stands over each step,
LEMMA SignalsStep ==
  ASSUME OutcomeLemmas!WindowInv, Outcome!Next \/ UNCHANGED Outcome!vars
  PROVE  OutcomeLemmas!WindowInv'
BY SameOutcome, OutcomeLemmas!WindowStep

\* and has the types in it.
LEMMA SignalsImplies == ASSUME OutcomeLemmas!WindowInv PROVE Outcome!TypeOK
BY SameOutcome DEF OutcomeLemmas!WindowInv

-----------------------------------------------------------------------------
(* The daily scan, proved in a module of its own. *)

DailyLemmas == INSTANCE CoinScanProofs WITH
  Runs <- ScanConfig.runs, Btc <- ScanConfig.btc, Alts <- ScanConfig.alts,
  LastDay <- ScanConfig.lastDay, HasOkx <- ScanConfig.hasOkx, MaxFaults <- ScanConfig.maxFaults,
  MaxOverlaps <- ScanConfig.maxOverlaps,
  day <- v1, rows <- v2, now <- v3, asked <- v4, got <- v5, seen <- v6, dropped <- v7,
  added <- v8, job <- v9, told <- v10, faults <- v11, overlaps <- v12

\* Those proofs are about the scan that Trackers plays.
LEMMA SameScan ==
  /\ Scan!ConstantsOK <=> DailyLemmas!ConstantsOK
  /\ Scan!Init <=> DailyLemmas!Init
  /\ Scan!Next <=> DailyLemmas!Next
  /\ UNCHANGED Scan!vars => UNCHANGED DailyLemmas!vars
  /\ DailyLemmas!TypeOK => Scan!TypeOK
<1>1. Scan!ConstantsOK <=> DailyLemmas!ConstantsOK
  BY DEF Scan!ConstantsOK, DailyLemmas!ConstantsOK
<1>2. UNCHANGED Scan!vars => UNCHANGED DailyLemmas!vars
  BY DEF Scan!vars, Scan!store, DailyLemmas!vars, DailyLemmas!store
<1>3. /\ Scan!NoScan = DailyLemmas!NoScan /\ Scan!Unasked = DailyLemmas!Unasked
      /\ Scan!Days = DailyLemmas!Days /\ Scan!Answers = DailyLemmas!Answers
  BY DEF Scan!NoScan, Scan!Unasked, Scan!Silence, Scan!Days, Scan!Answers, Scan!Universes, Scan!Coins,
       DailyLemmas!NoScan, DailyLemmas!Unasked, DailyLemmas!Silence, DailyLemmas!Days,
       DailyLemmas!Answers, DailyLemmas!Universes, DailyLemmas!Coins
<1>4. Scan!Init <=> DailyLemmas!Init
  BY <1>3 DEF Scan!Init, DailyLemmas!Init
<1>5. ASSUME NEW r
      PROVE  /\ Scan!Tick(r) <=> DailyLemmas!Tick(r)
             /\ Scan!AskBinance(r) <=> DailyLemmas!AskBinance(r)
             /\ Scan!AskOkx(r) <=> DailyLemmas!AskOkx(r)
  BY <1>3 DEF Scan!Tick, Scan!Due, Scan!Stored, Scan!Goto, Scan!store, Scan!AskBinance, Scan!AskOkx,
       Scan!Keep, Scan!Better, DailyLemmas!Tick, DailyLemmas!Due, DailyLemmas!Stored,
       DailyLemmas!Goto, DailyLemmas!store, DailyLemmas!AskBinance, DailyLemmas!AskOkx,
       DailyLemmas!Keep, DailyLemmas!Better
<1>6. ASSUME NEW r PROVE Scan!Ends(r) <=> DailyLemmas!Ends(r)
  BY <1>3 DEF Scan!Ends, Scan!Goto, DailyLemmas!Ends, DailyLemmas!Goto
<1>7. ASSUME NEW r, NEW row
      PROVE  /\ Scan!Held(r, row) <=> DailyLemmas!Held(r, row)
             /\ Scan!Taken(r, row) <=> DailyLemmas!Taken(r, row)
  BY DEF Scan!Held, Scan!Taken, Scan!SameKey, DailyLemmas!Held, DailyLemmas!Taken, DailyLemmas!SameKey
<1>8. ASSUME NEW r
      PROVE  /\ Scan!Missing(r) = DailyLemmas!Missing(r)
             /\ \A c : Scan!Inserted(r, c) = DailyLemmas!Inserted(r, c)
  BY DEF Scan!Missing, Scan!Inserted, DailyLemmas!Missing, DailyLemmas!Inserted
<1>9. ASSUME NEW r
      PROVE  /\ Scan!LookForRows(r) <=> DailyLemmas!LookForRows(r)
             /\ Scan!DeleteRows(r) <=> DailyLemmas!DeleteRows(r)
             /\ Scan!Insert(r) <=> DailyLemmas!Insert(r)
             /\ Scan!Commit(r) <=> DailyLemmas!Commit(r)
  BY <1>3, <1>7, <1>8 DEF Scan!LookForRows, Scan!DeleteRows, Scan!Insert, Scan!Commit, Scan!Goto,
       DailyLemmas!LookForRows, DailyLemmas!DeleteRows, DailyLemmas!Insert, DailyLemmas!Commit,
       DailyLemmas!Goto
<1>10. ASSUME NEW r
       PROVE  /\ Scan!Conflict(r) <=> DailyLemmas!Conflict(r)
              /\ Scan!Deadlock(r) <=> DailyLemmas!Deadlock(r)
              /\ Scan!ScanFails(r) <=> DailyLemmas!ScanFails(r)
              /\ Scan!QueryFails(r) <=> DailyLemmas!QueryFails(r)
              /\ Scan!Dies(r) <=> DailyLemmas!Dies(r)
  BY <1>6, <1>7, <1>8 DEF Scan!Conflict, Scan!Deadlock, Scan!ScanFails, Scan!QueryFails, Scan!Dies,
       Scan!GiveUp, Scan!Faulty, Scan!SameKey, DailyLemmas!Conflict, DailyLemmas!Deadlock,
       DailyLemmas!ScanFails, DailyLemmas!QueryFails, DailyLemmas!Dies, DailyLemmas!GiveUp,
       DailyLemmas!Faulty, DailyLemmas!SameKey
<1>11. ASSUME NEW d PROVE Scan!ExchangesOf(d) = DailyLemmas!ExchangesOf(d)
  BY DEF Scan!ExchangesOf, DailyLemmas!ExchangesOf
<1>12. ASSUME NEW r
       PROVE  /\ Scan!Record(r) <=> DailyLemmas!Record(r)
              /\ Scan!Watch(r) <=> DailyLemmas!Watch(r)
              /\ Scan!Send(r) <=> DailyLemmas!Send(r)
  BY <1>6, <1>11 DEF Scan!Record, Scan!Watch, Scan!Send, Scan!Goto, Scan!store,
       DailyLemmas!Record, DailyLemmas!Watch, DailyLemmas!Send, DailyLemmas!Goto, DailyLemmas!store
<1>13. Scan!DayCloses <=> DailyLemmas!DayCloses
  BY DEF Scan!DayCloses, Scan!store, DailyLemmas!DayCloses, DailyLemmas!store
<1>14. DailyLemmas!TypeOK => Scan!TypeOK
  <2>1. Scan!Scans = DailyLemmas!Scans /\ Scan!Rows = DailyLemmas!Rows
    BY <1>3 DEF Scan!Scans, Scan!Rows, Scan!Universes, Scan!Coins, DailyLemmas!Scans,
         DailyLemmas!Rows, DailyLemmas!Universes, DailyLemmas!Coins
  <2> QED BY <1>3, <2>1 DEF Scan!TypeOK, Scan!Silence, Scan!SameKey, Scan!Writing,
             DailyLemmas!TypeOK, DailyLemmas!Silence, DailyLemmas!SameKey, DailyLemmas!Writing
<1> QED BY <1>1, <1>2, <1>4, <1>5, <1>9, <1>10, <1>12, <1>13, <1>14 DEF Scan!Next, Scan!Step,
           DailyLemmas!Next, DailyLemmas!Step

\* So its invariant holds at first,
LEMMA DailyInit == ASSUME Scan!ConstantsOK, Scan!Init PROVE DailyLemmas!IInv
BY SameScan, DailyLemmas!InitHolds

\* stands over each step,
LEMMA DailyStep ==
  ASSUME Scan!ConstantsOK, DailyLemmas!IInv, Scan!Next \/ UNCHANGED Scan!vars
  PROVE  DailyLemmas!IInv'
<1>1. DailyLemmas!Next \/ UNCHANGED DailyLemmas!vars
  BY SameScan
<1> QED BY <1>1, SameScan, DailyLemmas!NextKeeps, DailyLemmas!RestKeeps

\* and has the types in it.
LEMMA DailyImplies == ASSUME DailyLemmas!IInv PROVE Scan!TypeOK
BY SameScan DEF DailyLemmas!IInv

-----------------------------------------------------------------------------
(* The setups of the scanned coins, proved in a module of their own. *)

SetupLemmas == INSTANCE SetupTrackerProofs WITH
  Runs <- SetupConfig.runs, Coins <- SetupConfig.coins, Watchlist <- SetupConfig.watchlist,
  LastBar <- SetupConfig.lastBar, Window <- SetupConfig.window, Expiry <- SetupConfig.expiry,
  MaxTouches <- SetupConfig.maxTouches, MaxSetups <- SetupConfig.maxSetups,
  MaxFaults <- SetupConfig.maxFaults, None <- Off,
  bar <- v1, touch <- v2, refusing <- v3, scanned <- v4, setups <- v5, alerted <- v6,
  targets <- v7, fresh <- v8, off <- v9, cache <- v10, oldDay <- v11, upto <- v12, coin <- v13,
  open <- v14, faults <- v15

\* Those proofs are about the setups that Trackers plays.
LEMMA SameSetups ==
  /\ Setup!ConstantsOK <=> SetupLemmas!ConstantsOK
  /\ Setup!Init <=> SetupLemmas!Init
  /\ Setup!Next <=> SetupLemmas!Next
  /\ UNCHANGED Setup!vars => UNCHANGED SetupLemmas!vars
  /\ SetupLemmas!TypeOK => Setup!TypeOK
<1>1. Setup!ConstantsOK <=> SetupLemmas!ConstantsOK
  BY DEF Setup!ConstantsOK, SetupLemmas!ConstantsOK
<1>2. UNCHANGED Setup!vars => UNCHANGED SetupLemmas!vars
  BY DEF Setup!vars, Setup!market, Setup!tables, Setup!plan, Setup!days, Setup!read,
       SetupLemmas!vars, SetupLemmas!market, SetupLemmas!tables, SetupLemmas!plan,
       SetupLemmas!days, SetupLemmas!read
<1>3. /\ Setup!Bars = SetupLemmas!Bars /\ Setup!Exchanges = SetupLemmas!Exchanges
      /\ Setup!Keys = SetupLemmas!Keys /\ Setup!Setups = SetupLemmas!Setups
      /\ Setup!NoCache = SetupLemmas!NoCache
  BY DEF Setup!Bars, Setup!Exchanges, Setup!Keys, Setup!Setups, Setup!Statuses, Setup!NoCache,
       SetupLemmas!Bars, SetupLemmas!Exchanges, SetupLemmas!Keys, SetupLemmas!Setups,
       SetupLemmas!Statuses, SetupLemmas!NoCache
<1>4. Setup!Init <=> SetupLemmas!Init
  BY <1>3 DEF Setup!Init, SetupLemmas!Init
<1>5. SetupLemmas!TypeOK => Setup!TypeOK
  BY <1>3 DEF Setup!TypeOK, Setup!Key, SetupLemmas!TypeOK, SetupLemmas!Key
<1>6. /\ Setup!Open = SetupLemmas!Open /\ Setup!Targets = SetupLemmas!Targets
      /\ \A s : Setup!Key(s) = SetupLemmas!Key(s)
      /\ \A r : Setup!Source(r) = SetupLemmas!Source(r)
      /\ \A r : Setup!Found(r) = SetupLemmas!Found(r)
      /\ \A k : Setup!Clash(k) <=> SetupLemmas!Clash(k)
  BY DEF Setup!Open, Setup!Targets, Setup!Key, Setup!Source, Setup!Found, Setup!Clash,
       SetupLemmas!Open, SetupLemmas!Targets, SetupLemmas!Key, SetupLemmas!Source,
       SetupLemmas!Found, SetupLemmas!Clash
<1>7. ASSUME NEW r, NEW refused
      PROVE  Setup!NextCoin(r, refused) <=> SetupLemmas!NextCoin(r, refused)
  BY <1>3 DEF Setup!NextCoin, Setup!Forget, Setup!Ends, Setup!Goto, Setup!days,
       SetupLemmas!NextCoin, SetupLemmas!Forget, SetupLemmas!Ends, SetupLemmas!Goto,
       SetupLemmas!days
<1>8. ASSUME NEW r
      PROVE  /\ Setup!Begin(r) <=> SetupLemmas!Begin(r)
             /\ Setup!ReadDaily(r) <=> SetupLemmas!ReadDaily(r)
  BY <1>3, <1>6 DEF Setup!Begin, Setup!ReadDaily, Setup!Goto, Setup!Faulty, Setup!Cached,
       Setup!market, Setup!tables, Setup!days, Setup!read, SetupLemmas!Begin,
       SetupLemmas!ReadDaily, SetupLemmas!Goto, SetupLemmas!Faulty, SetupLemmas!Cached,
       SetupLemmas!market, SetupLemmas!tables, SetupLemmas!days, SetupLemmas!read
<1>9. ASSUME NEW r
      PROVE  /\ Setup!Fetch4hRefused(r) <=> SetupLemmas!Fetch4hRefused(r)
             /\ Setup!CoinFails(r) <=> SetupLemmas!CoinFails(r)
             /\ Setup!Alert(r) <=> SetupLemmas!Alert(r)
  BY <1>6, <1>7 DEF Setup!Fetch4hRefused, Setup!CoinFails, Setup!Alert, Setup!Faulty,
       Setup!market, Setup!tables, SetupLemmas!Fetch4hRefused, SetupLemmas!CoinFails,
       SetupLemmas!Alert, SetupLemmas!Faulty, SetupLemmas!market, SetupLemmas!tables
<1>10. ASSUME NEW r PROVE Setup!ReadOpen(r) <=> SetupLemmas!ReadOpen(r)
  BY <1>6 DEF Setup!ReadOpen, Setup!SameVenue, Setup!Goto, Setup!market, Setup!tables,
       Setup!plan, Setup!days, SetupLemmas!ReadOpen, SetupLemmas!SameVenue, SetupLemmas!Goto,
       SetupLemmas!market, SetupLemmas!tables, SetupLemmas!plan, SetupLemmas!days
<1>11. ASSUME NEW e, NEW last, NEW b
       PROVE  Setup!Outcome(e, last, b) = SetupLemmas!Outcome(e, last, b)
  <2>1. Setup!After(last, b) = SetupLemmas!After(last, b)
    BY <1>3 DEF Setup!After, SetupLemmas!After
  <2>2. ASSUME NEW ts PROVE Setup!FirstTouch(e, ts) = SetupLemmas!FirstTouch(e, ts)
    BY Zenon DEF Setup!FirstTouch, SetupLemmas!FirstTouch
  <2> QED BY <2>1, <2>2 DEF Setup!Outcome, SetupLemmas!Outcome
<1>12. ASSUME NEW r PROVE Setup!Resolve(r) <=> SetupLemmas!Resolve(r)
  <2> DEFINE A(k, s) == IF Setup!Key(s) = k /\ s.status = "open"
                           /\ Setup!Outcome(Setup!Source(r), v12[r], k.bar) # "open"
                        THEN [s EXCEPT !.status = Setup!Outcome(Setup!Source(r), v12[r], k.bar),
                                       !.at = v12[r]]
                        ELSE s
             B(k, s) == IF SetupLemmas!Key(s) = k /\ s.status = "open"
                           /\ SetupLemmas!Outcome(SetupLemmas!Source(r), v12[r], k.bar) # "open"
                        THEN [s EXCEPT !.status =
                                         SetupLemmas!Outcome(SetupLemmas!Source(r), v12[r], k.bar),
                                       !.at = v12[r]]
                        ELSE s
  <2>1. \A k, s : A(k, s) = B(k, s)
    <3> TAKE k, s
    <3>1. Setup!Key(s) = SetupLemmas!Key(s) /\ Setup!Source(r) = SetupLemmas!Source(r)
      BY <1>6
    <3>2. Setup!Outcome(Setup!Source(r), v12[r], k.bar)
            = SetupLemmas!Outcome(SetupLemmas!Source(r), v12[r], k.bar)
      BY <3>1, <1>11
    <3> QED BY <3>1, <3>2
  <2>2. Setup!Resolve(r) <=> /\ pc[r] = "judge"
                             /\ \E k \in v14[r] : /\ v5' = {A(k, s) : s \in v5}
                                                  /\ v14' = [v14 EXCEPT ![r] = @ \ {k}]
                             /\ UNCHANGED <<v1, v2, v3, v4, v6, pc, v7, v8, v12, v9, v10, v11,
                                            v13, v15>>
    BY Zenon DEF Setup!Resolve, Setup!Closable, Setup!market, Setup!plan, Setup!days
  <2>3. SetupLemmas!Resolve(r) <=>
                             /\ pc[r] = "judge"
                             /\ \E k \in v14[r] : /\ v5' = {B(k, s) : s \in v5}
                                                  /\ v14' = [v14 EXCEPT ![r] = @ \ {k}]
                             /\ UNCHANGED <<v1, v2, v3, v4, v6, pc, v7, v8, v12, v9, v10, v11,
                                            v13, v15>>
    BY Zenon DEF SetupLemmas!Resolve, SetupLemmas!Closable, SetupLemmas!market, SetupLemmas!plan,
                 SetupLemmas!days
  <2> HIDE DEF A, B
  <2>4. \A k : {A(k, s) : s \in v5} = {B(k, s) : s \in v5}
    BY <2>1
  <2> QED BY <2>2, <2>3, <2>4
<1>13. ASSUME NEW S PROVE Setup!Cardinality(S) = SetupLemmas!Cardinality(S)
  BY DEF Setup!Cardinality, SetupLemmas!Cardinality
<1>14. ASSUME NEW r
       PROVE  /\ Setup!Detect(r) <=> SetupLemmas!Detect(r)
              /\ Setup!Insert(r) <=> SetupLemmas!Insert(r)
  BY <1>6, <1>7, <1>13 DEF Setup!Detect, Setup!Insert, Setup!IsNew, Setup!Goto, Setup!market,
       Setup!tables, Setup!plan, Setup!days, Setup!read, SetupLemmas!Detect, SetupLemmas!Insert,
       SetupLemmas!IsNew, SetupLemmas!Goto, SetupLemmas!market, SetupLemmas!tables,
       SetupLemmas!plan, SetupLemmas!days, SetupLemmas!read
<1>15. ASSUME NEW r PROVE Setup!Dies(r) <=> SetupLemmas!Dies(r)
  BY <1>3 DEF Setup!Dies, Setup!Forget, Setup!Goto, Setup!Faulty, Setup!market, Setup!tables,
       SetupLemmas!Dies, SetupLemmas!Forget, SetupLemmas!Goto, SetupLemmas!Faulty,
       SetupLemmas!market, SetupLemmas!tables
<1>16. Setup!BarCloses <=> SetupLemmas!BarCloses
  <2>1. Setup!Touches' = SetupLemmas!Touches'
    BY <1>3 DEF Setup!Touches, SetupLemmas!Touches
  <2> QED BY <1>13, <2>1 DEF Setup!BarCloses, Setup!tables, Setup!plan, Setup!days, Setup!read,
       SetupLemmas!BarCloses, SetupLemmas!tables, SetupLemmas!plan, SetupLemmas!days,
       SetupLemmas!read
<1>17. /\ Setup!DayEnds <=> SetupLemmas!DayEnds
       /\ Setup!ScanChanges <=> SetupLemmas!ScanChanges
       /\ Setup!BinanceTurns <=> SetupLemmas!BinanceTurns
  BY <1>3 DEF Setup!DayEnds, Setup!ScanChanges, Setup!BinanceTurns, Setup!Faulty, Setup!market,
       Setup!tables, Setup!plan, Setup!days, Setup!read, SetupLemmas!DayEnds,
       SetupLemmas!ScanChanges, SetupLemmas!BinanceTurns, SetupLemmas!Faulty, SetupLemmas!market,
       SetupLemmas!tables, SetupLemmas!plan, SetupLemmas!days, SetupLemmas!read
<1> QED BY <1>1, <1>2, <1>4, <1>5, <1>8, <1>9, <1>10, <1>12, <1>14, <1>15, <1>16, <1>17 DEF Setup!Next,
           Setup!Step, SetupLemmas!Next, SetupLemmas!Step

\* So its types, with what they rest on, hold at first,
LEMMA SetupsInit == ASSUME Setup!ConstantsOK, Setup!Init PROVE SetupLemmas!Typed
BY SameSetups, SetupLemmas!TypeInit

\* stand over each step,
LEMMA SetupsKept ==
  ASSUME SetupLemmas!Typed, Setup!Next \/ UNCHANGED Setup!vars
  PROVE  SetupLemmas!Typed'
<1>1. [SetupLemmas!Next]_(SetupLemmas!vars)
  BY SameSetups
<1> QED BY <1>1, SetupLemmas!TypeStep

\* and are those of the tracker.
LEMMA SetupsImply == ASSUME SetupLemmas!Typed PROVE Setup!TypeOK
BY SameSetups DEF SetupLemmas!Typed

-----------------------------------------------------------------------------
(* Trackers. *)

\* The inductive invariant: that of the component that is played.
TrackersInv ==
  /\ playing = "stream" => SocketInv
  /\ playing = "rest" => RetryInv
  /\ playing = "gemHistory" => LookInv(GemHistoryConfig)
  /\ playing = "gemScreened" => LookInv(GemScreenedConfig)
  /\ playing = "gem" => PassInv(GemConfig)
  /\ playing = "gemFeeds" => PassInv(GemFeedsConfig)
  /\ playing = "spot" => SpotInv(SpotConfig)
  /\ playing = "spotDays" => SpotInv(SpotDaysConfig)
  /\ playing = "intraday" => IntradayInv
  /\ playing = "setup" => SetupLemmas!Typed
  /\ playing = "scan" => DailyLemmas!IInv
  /\ playing = "outcome" => OutcomeLemmas!WindowInv
  /\ playing = "gemOutcome" => OutcomeInv
  /\ playing = "baseline" => Baseline!TypeOK
  /\ playing = "health" => Health!TypeOK

\* It holds at first.
LEMMA TrackersInit == Init => TrackersInv
<1> SUFFICES ASSUME Init PROVE TrackersInv
  OBVIOUS
<1>1. ASSUME playing = "stream" PROVE SocketInv
  <2>1. Stream!Init
    BY <1>1 DEF Init
  <2> QED BY <2>1, TrackersAssumption, StreamInit
<1>2. ASSUME playing = "rest" PROVE RetryInv
  <2>1. Rest!Init
    BY <1>2 DEF Init
  <2> QED BY <2>1, TrackersAssumption, RestInit
<1>3. ASSUME playing = "gemHistory" PROVE LookInv(GemHistoryConfig)
  <2>1. AnyScan(GemHistoryConfig)!Init
    BY <1>3 DEF Init
  <2> QED BY <2>1, TrackersAssumption, LookInit
<1>4. ASSUME playing = "gemScreened" PROVE LookInv(GemScreenedConfig)
  <2>1. AnyScan(GemScreenedConfig)!Init
    BY <1>4 DEF Init
  <2> QED BY <2>1, TrackersAssumption, LookInit
<1>5. ASSUME playing = "gem" PROVE PassInv(GemConfig)
  <2>1. AnyGem(GemConfig)!Init
    BY <1>5 DEF Init
  <2> QED BY <2>1, TrackersAssumption, GemInit
<1>6. ASSUME playing = "gemFeeds" PROVE PassInv(GemFeedsConfig)
  <2>1. AnyGem(GemFeedsConfig)!Init
    BY <1>6 DEF Init
  <2> QED BY <2>1, TrackersAssumption, GemInit
<1>7. ASSUME playing = "spot" PROVE SpotInv(SpotConfig)
  <2>1. AnySpot(SpotConfig)!Init
    BY <1>7 DEF Init
  <2> QED BY <2>1, TrackersAssumption, SpotInit
<1>8. ASSUME playing = "spotDays" PROVE SpotInv(SpotDaysConfig)
  <2>1. AnySpot(SpotDaysConfig)!Init
    BY <1>8 DEF Init
  <2> QED BY <2>1, TrackersAssumption, SpotInit
<1>9. ASSUME playing = "intraday" PROVE IntradayInv
  <2>1. Intraday!Init
    BY <1>9 DEF Init
  <2> QED BY <2>1, TrackersAssumption, IntradayInit
<1>10. ASSUME playing = "setup" PROVE SetupLemmas!Typed
  <2>1. Setup!Init
    BY <1>10 DEF Init
  <2> QED BY <2>1, TrackersAssumption, SetupsInit
<1>11. ASSUME playing = "scan" PROVE DailyLemmas!IInv
  <2>1. Scan!Init
    BY <1>11 DEF Init
  <2> QED BY <2>1, TrackersAssumption, DailyInit
<1>12. ASSUME playing = "outcome" PROVE OutcomeLemmas!WindowInv
  <2>1. Outcome!Init
    BY <1>12 DEF Init
  <2> QED BY <2>1, TrackersAssumption, SignalsInit
<1>13. ASSUME playing = "gemOutcome" PROVE OutcomeInv
  <2>1. GemOutcome!Init
    BY <1>13 DEF Init
  <2> QED BY <2>1, TrackersAssumption, OutcomeInit
<1>14. ASSUME playing = "baseline" PROVE Baseline!TypeOK
  <2>1. Baseline!Init
    BY <1>14 DEF Init
  <2> QED BY <2>1, TrackersAssumption, BaselineInit
<1>15. ASSUME playing = "health" PROVE Health!TypeOK
  <2>1. Health!Init
    BY <1>15 DEF Init
  <2> QED BY <2>1, TrackersAssumption, HealthInit
<1> QED BY <1>1, <1>2, <1>3, <1>4, <1>5, <1>6, <1>7, <1>8, <1>9, <1>10, <1>11, <1>12, <1>13,
         <1>14, <1>15 DEF TrackersInv

\* A step of Trackers is one of the component that is played, or changes nothing.
LEMMA StepOfPlayed ==
  ASSUME [Next]_vars
  PROVE  /\ playing' = playing
         /\ playing = "stream" => Stream!Next \/ UNCHANGED Stream!vars
         /\ playing = "rest" => Rest!Next \/ UNCHANGED Rest!vars
         /\ playing = "gemHistory" =>
              AnyScan(GemHistoryConfig)!Next \/ UNCHANGED AnyScan(GemHistoryConfig)!vars
         /\ playing = "gemScreened" =>
              AnyScan(GemScreenedConfig)!Next \/ UNCHANGED AnyScan(GemScreenedConfig)!vars
         /\ playing = "gem" => AnyGem(GemConfig)!Next \/ UNCHANGED AnyGem(GemConfig)!vars
         /\ playing = "gemFeeds" =>
              AnyGem(GemFeedsConfig)!Next \/ UNCHANGED AnyGem(GemFeedsConfig)!vars
         /\ playing = "spot" => AnySpot(SpotConfig)!Next \/ UNCHANGED AnySpot(SpotConfig)!vars
         /\ playing = "spotDays" =>
              AnySpot(SpotDaysConfig)!Next \/ UNCHANGED AnySpot(SpotDaysConfig)!vars
         /\ playing = "intraday" => Intraday!Next \/ UNCHANGED Intraday!vars
         /\ playing = "setup" => Setup!Next \/ UNCHANGED Setup!vars
         /\ playing = "scan" => Scan!Next \/ UNCHANGED Scan!vars
         /\ playing = "outcome" => Outcome!Next \/ UNCHANGED Outcome!vars
         /\ playing = "gemOutcome" => GemOutcome!Next \/ UNCHANGED GemOutcome!vars
         /\ playing = "baseline" => Baseline!Next \/ UNCHANGED Baseline!vars
         /\ playing = "health" => Health!Next \/ UNCHANGED Health!vars
<1>1. CASE Next
  BY <1>1 DEF Next
<1>2. CASE UNCHANGED vars
  <2>1. UNCHANGED <<playing, pc, v1, v2, v3, v4, v5, v6, v7, v8, v9, v10, v11, v12, v13, v14, v15,
          v16, v17, v18, v19, v20, v21, v22>>
    BY <1>2 DEF vars, over7, over9, over10, over12, over14, over15
  <2>2. UNCHANGED Stream!vars
    BY <2>1 DEF Stream!vars, Stream!socket, Stream!stale, Stream!watch, Stream!verdict, Stream!world
  <2>3. UNCHANGED Rest!vars
    BY <2>1 DEF Rest!vars
  <2>4. UNCHANGED AnyScan(GemHistoryConfig)!vars /\ UNCHANGED AnyScan(GemScreenedConfig)!vars
    BY <2>1 DEF AnyScan!vars, AnyScan!world, AnyScan!tables, AnyScan!scan, AnyScan!saving
  <2>5. UNCHANGED AnyGem(GemConfig)!vars /\ UNCHANGED AnyGem(GemFeedsConfig)!vars
    BY <2>1 DEF AnyGem!vars, AnyGem!market, AnyGem!table, AnyGem!pass
  <2>6. UNCHANGED AnySpot(SpotConfig)!vars /\ UNCHANGED AnySpot(SpotDaysConfig)!vars
    BY <2>1 DEF AnySpot!vars, AnySpot!bars
  <2>7. UNCHANGED Intraday!vars
    BY <2>1 DEF Intraday!vars, Intraday!market, Intraday!run
  <2>8. UNCHANGED Outcome!vars
    BY <2>1 DEF Outcome!vars, Outcome!tables
  <2>9. UNCHANGED GemOutcome!vars
    BY <2>1 DEF GemOutcome!vars, GemOutcome!pass
  <2>10. UNCHANGED Baseline!vars /\ UNCHANGED Health!vars
    BY <2>1 DEF Baseline!vars, Health!vars
  <2>11. UNCHANGED Setup!vars /\ UNCHANGED Scan!vars
    BY <2>1 DEF Setup!vars, Setup!market, Setup!tables, Setup!plan, Setup!days, Setup!read,
                Scan!vars, Scan!store
  <2> QED BY <2>1, <2>2, <2>3, <2>4, <2>5, <2>6, <2>7, <2>8, <2>9, <2>10, <2>11
<1> QED BY <1>1, <1>2

\* It stands over every step.
LEMMA TrackersStep ==
  ASSUME TrackersInv, [Next]_vars
  PROVE  TrackersInv'
<1>1. ASSUME playing = "stream" PROVE SocketInv'
  <2>1. Stream!Next \/ UNCHANGED Stream!vars
    BY <1>1, StepOfPlayed
  <2>2. SocketInv
    BY <1>1 DEF TrackersInv
  <2> QED BY <2>1, <2>2, TrackersAssumption, StreamStep
<1>2. ASSUME playing = "rest" PROVE RetryInv'
  <2>1. Rest!Next \/ UNCHANGED Rest!vars
    BY <1>2, StepOfPlayed
  <2>2. RetryInv
    BY <1>2 DEF TrackersInv
  <2> QED BY <2>1, <2>2, TrackersAssumption, RestStep
<1>3. ASSUME playing = "gemHistory" PROVE LookInv(GemHistoryConfig)'
  <2>1. AnyScan(GemHistoryConfig)!Next \/ UNCHANGED AnyScan(GemHistoryConfig)!vars
    BY <1>3, StepOfPlayed
  <2>2. LookInv(GemHistoryConfig)
    BY <1>3 DEF TrackersInv
  <2> QED BY <2>1, <2>2, TrackersAssumption, LookKept
<1>4. ASSUME playing = "gemScreened" PROVE LookInv(GemScreenedConfig)'
  <2>1. AnyScan(GemScreenedConfig)!Next \/ UNCHANGED AnyScan(GemScreenedConfig)!vars
    BY <1>4, StepOfPlayed
  <2>2. LookInv(GemScreenedConfig)
    BY <1>4 DEF TrackersInv
  <2> QED BY <2>1, <2>2, TrackersAssumption, LookKept
<1>5. ASSUME playing = "gem" PROVE PassInv(GemConfig)'
  <2>1. AnyGem(GemConfig)!Next \/ UNCHANGED AnyGem(GemConfig)!vars
    BY <1>5, StepOfPlayed
  <2>2. PassInv(GemConfig)
    BY <1>5 DEF TrackersInv
  <2> QED BY <2>1, <2>2, TrackersAssumption, GemStep
<1>6. ASSUME playing = "gemFeeds" PROVE PassInv(GemFeedsConfig)'
  <2>1. AnyGem(GemFeedsConfig)!Next \/ UNCHANGED AnyGem(GemFeedsConfig)!vars
    BY <1>6, StepOfPlayed
  <2>2. PassInv(GemFeedsConfig)
    BY <1>6 DEF TrackersInv
  <2> QED BY <2>1, <2>2, TrackersAssumption, GemStep
<1>7. ASSUME playing = "spot" PROVE SpotInv(SpotConfig)'
  <2>1. AnySpot(SpotConfig)!Next \/ UNCHANGED AnySpot(SpotConfig)!vars
    BY <1>7, StepOfPlayed
  <2>2. SpotInv(SpotConfig)
    BY <1>7 DEF TrackersInv
  <2> QED BY <2>1, <2>2, TrackersAssumption, SpotStep
<1>8. ASSUME playing = "spotDays" PROVE SpotInv(SpotDaysConfig)'
  <2>1. AnySpot(SpotDaysConfig)!Next \/ UNCHANGED AnySpot(SpotDaysConfig)!vars
    BY <1>8, StepOfPlayed
  <2>2. SpotInv(SpotDaysConfig)
    BY <1>8 DEF TrackersInv
  <2> QED BY <2>1, <2>2, TrackersAssumption, SpotStep
<1>9. ASSUME playing = "intraday" PROVE IntradayInv'
  <2>1. Intraday!Next \/ UNCHANGED Intraday!vars
    BY <1>9, StepOfPlayed
  <2>2. IntradayInv
    BY <1>9 DEF TrackersInv
  <2> QED BY <2>1, <2>2, TrackersAssumption, IntradayStep
<1>10. ASSUME playing = "setup" PROVE SetupLemmas!Typed'
  <2>1. Setup!Next \/ UNCHANGED Setup!vars
    BY <1>10, StepOfPlayed
  <2>2. SetupLemmas!Typed
    BY <1>10 DEF TrackersInv
  <2> QED BY <2>1, <2>2, TrackersAssumption, SetupsKept
<1>11. ASSUME playing = "scan" PROVE DailyLemmas!IInv'
  <2>1. Scan!Next \/ UNCHANGED Scan!vars
    BY <1>11, StepOfPlayed
  <2>2. DailyLemmas!IInv
    BY <1>11 DEF TrackersInv
  <2> QED BY <2>1, <2>2, TrackersAssumption, DailyStep
<1>12. ASSUME playing = "outcome" PROVE OutcomeLemmas!WindowInv'
  <2>1. Outcome!Next \/ UNCHANGED Outcome!vars
    BY <1>12, StepOfPlayed
  <2>2. OutcomeLemmas!WindowInv
    BY <1>12 DEF TrackersInv
  <2> QED BY <2>1, <2>2, TrackersAssumption, SignalsStep
<1>13. ASSUME playing = "gemOutcome" PROVE OutcomeInv'
  <2>1. GemOutcome!Next \/ UNCHANGED GemOutcome!vars
    BY <1>13, StepOfPlayed
  <2>2. OutcomeInv
    BY <1>13 DEF TrackersInv
  <2> QED BY <2>1, <2>2, TrackersAssumption, OutcomeStep
<1>14. ASSUME playing = "baseline" PROVE Baseline!TypeOK'
  <2>1. Baseline!Next \/ UNCHANGED Baseline!vars
    BY <1>14, StepOfPlayed
  <2>2. Baseline!TypeOK
    BY <1>14 DEF TrackersInv
  <2> QED BY <2>1, <2>2, TrackersAssumption, BaselineStep
<1>15. ASSUME playing = "health" PROVE Health!TypeOK'
  <2>1. Health!Next \/ UNCHANGED Health!vars
    BY <1>15, StepOfPlayed
  <2>2. Health!TypeOK
    BY <1>15 DEF TrackersInv
  <2> QED BY <2>1, <2>2, TrackersAssumption, HealthStep
<1>16. playing' = playing
  BY StepOfPlayed
<1> QED BY <1>1, <1>2, <1>3, <1>4, <1>5, <1>6, <1>7, <1>8, <1>9, <1>10, <1>11, <1>12, <1>13,
         <1>14, <1>15, <1>16 DEF TrackersInv

\* The inductive invariant of the trackers: on any socket, any calls, markets, prices,
\* bars and users.
THEOREM TrackersInductive == Spec => []TrackersInv
BY TrackersInit, TrackersStep, PTL DEF Spec

\* Every variable of every module that is played stays of its type, whatever fails,
\* dies, overlaps and restarts.
THEOREM TypesStand == Spec => []TypeOK
<1>1. SocketInv => Stream!TypeOK
  BY DEF SocketInv
<1>2. RetryInv => Rest!TypeOK
  BY DEF RetryInv
<1>3. /\ LookInv(GemHistoryConfig) => AnyScan(GemHistoryConfig)!TypeOK
      /\ LookInv(GemScreenedConfig) => AnyScan(GemScreenedConfig)!TypeOK
  BY LookImplies
<1>4. /\ PassInv(GemConfig) => AnyGem(GemConfig)!TypeOK
      /\ PassInv(GemFeedsConfig) => AnyGem(GemFeedsConfig)!TypeOK
  BY DEF PassInv
<1>5. /\ SpotInv(SpotConfig) => AnySpot(SpotConfig)!TypeOK
      /\ SpotInv(SpotDaysConfig) => AnySpot(SpotDaysConfig)!TypeOK
  BY DEF SpotInv
<1>6. IntradayInv => Intraday!TypeOK
  BY DEF IntradayInv, DayInv
<1>7. SetupLemmas!Typed => Setup!TypeOK
  BY SetupsImply
<1>8. DailyLemmas!IInv => Scan!TypeOK
  BY DailyImplies
<1>9. OutcomeLemmas!WindowInv => Outcome!TypeOK
  BY SignalsImplies
<1>10. OutcomeInv => GemOutcome!TypeOK
  BY DEF OutcomeInv
<1>11. TrackersInv => TypeOK
  BY <1>1, <1>2, <1>3, <1>4, <1>5, <1>6, <1>7, <1>8, <1>9, <1>10 DEF TrackersInv, TypeOK
<1> QED BY <1>11, TrackersInductive, PTL

\* CombinedStreamClient: whatever opens, closes, errs and falls silent in any order,
\* no timer outlives what it is for.
THEOREM TimersHaveOwners == Spec => []NoOrphanTimer
<1>1. TrackersInv => NoOrphanTimer
  BY DEF TrackersInv, NoOrphanTimer, SocketInv
<1> QED BY <1>1, TrackersInductive, PTL

\* armPerStreamWatch: a socket is ended for a quiet stream only after it was up for
\* more than the whole window.
THEOREM NoSocketEndedEarly == Spec => ForcedAfterFullWindow
<1> DEFINE Forced == playing = "stream" => Stream!AfterFullWindow
<1>1. TrackersInv /\ [Next]_vars => [Forced]_vars
  <2> SUFFICES ASSUME TrackersInv, [Next]_vars, playing = "stream" PROVE Stream!AfterFullWindow
    OBVIOUS
  <2>1. Stream!Next \/ UNCHANGED Stream!vars
    BY StepOfPlayed
  <2>2. SocketInv
    BY DEF TrackersInv
  <2> QED BY <2>1, <2>2, TrackersAssumption, StreamForces
<1> QED BY <1>1, TrackersInductive, PTL DEF Spec, ForcedAfterFullWindow

\* BinanceRestClient.get: however many calls are out, one call sends at most one request
\* into a ban that stands.
THEOREM BansAreHeeded == Spec => []OneRequestIntoBan
<1>1. TrackersInv => OneRequestIntoBan
  BY RestImplies DEF TrackersInv, OneRequestIntoBan
<1> QED BY <1>1, TrackersInductive, PTL

\* runScan and persistAndMaybeAlert: whatever the market does and whichever request
\* fails, what a scan lists passed the gate and the screen.
THEOREM ListsAreVetted == Spec => []ListedIsVetted
<1>1. TrackersInv => ListedIsVetted
  BY ScanImplies DEF TrackersInv, LookInv, ListedIsVetted
<1> QED BY <1>1, TrackersInductive, PTL

\* runGemWatchCycle: no pass judges a position on a peak another pass has left behind.
THEOREM PeaksStand == Spec => []JudgedOnStandingPeak
<1>1. ASSUME PassInv(GemConfig) PROVE AnyGem(GemConfig)!JudgedOnStandingPeak
  BY <1>1 DEF PassInv, Judges, AnyGem!JudgedOnStandingPeak
<1>2. TrackersInv => JudgedOnStandingPeak
  BY <1>1 DEF TrackersInv, JudgedOnStandingPeak
<1> QED BY <1>2, TrackersInductive, PTL

\* stepBreakout: whichever days were missed, a position ends as it would have on the
\* first day that ends it.
THEOREM EndsOnFirstDay == Spec => []ClosedOnFirstDay
<1>1. TrackersInv => ClosedOnFirstDay
  BY SpotImplies DEF TrackersInv, ClosedOnFirstDay
<1> QED BY <1>1, TrackersInductive, PTL

\* updateSpotBreakoutTrail: whichever runs overlap, no step lowers a trail, and none
\* changes a closed position.
THEOREM TrailsRise == Spec => TrailOnlyRises
<1> DEFINE Rises == /\ playing = "spot" => AnySpot(SpotConfig)!TrailRises
                    /\ playing = "spotDays" => AnySpot(SpotDaysConfig)!TrailRises
<1>1. TrackersInv /\ [Next]_vars => [Rises]_vars
  <2> SUFFICES ASSUME TrackersInv, [Next]_vars PROVE Rises
    OBVIOUS
  <2>1. ASSUME playing = "spot" PROVE AnySpot(SpotConfig)!TrailRises
    <3>1. AnySpot(SpotConfig)!Next \/ UNCHANGED AnySpot(SpotConfig)!vars
      BY <2>1, StepOfPlayed
    <3>2. SpotInv(SpotConfig)
      BY <2>1 DEF TrackersInv
    <3> QED BY <3>1, <3>2, TrackersAssumption, SpotStep
  <2>2. ASSUME playing = "spotDays" PROVE AnySpot(SpotDaysConfig)!TrailRises
    <3>1. AnySpot(SpotDaysConfig)!Next \/ UNCHANGED AnySpot(SpotDaysConfig)!vars
      BY <2>2, StepOfPlayed
    <3>2. SpotInv(SpotDaysConfig)
      BY <2>2 DEF TrackersInv
    <3> QED BY <3>1, <3>2, TrackersAssumption, SpotStep
  <2> QED BY <2>1, <2>2
<1> QED BY <1>1, TrackersInductive, PTL DEF Spec, TrailOnlyRises

\* runCoinWatchIntraday: over runs that overlap, die or find a claim taken, every chat
\* gets its own reminders, and none twice a day.
THEOREM ToldOnce == Spec => []ToldOncePerDay
<1>1. TrackersInv => ToldOncePerDay
  BY IntradayImplies DEF TrackersInv, ToldOncePerDay
<1> QED BY <1>1, TrackersInductive, PTL

\* resolveGemOutcome: however long the feed was down and whichever passes overlap, a
\* row recorded as gone had no pool left.
THEOREM GoneWasGone == Spec => []GoneIsGone
<1>1. TrackersInv => GoneIsGone
  BY DEF TrackersInv, GoneIsGone, OutcomeInv
<1> QED BY <1>1, TrackersInductive, PTL
=============================================================================
