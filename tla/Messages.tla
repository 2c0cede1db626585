------------------------------- MODULE Messages -------------------------------
(***************************************************************************)
(* The parts that send messages side by side: DailyDigest, the dispatch of *)
(* alerts, and the daily coin scan with its watch message, each run by the *)
(* workers of an overlapping deploy.  They share no table, so what one     *)
(* does is no concern of another, and a behaviour plays one of them.  The  *)
(* digest has the variables it extends DailyDigest with and stays as it    *)
(* started when it is not played; the others have v1 .. v12 in the place   *)
(* of their own, Off in those left over.                                   *)
(***************************************************************************)
EXTENDS DailyDigest

CONSTANTS
  Btc, Alts, LastScanDay, HasOkx, MaxFaults, MaxOverlaps,  \* of CoinScan
  Keys, TopSeverity, TopConf, ConfDelta, Cooldown, ConfigChats, UserChats,
  MinSeverity, Follows, MaxTime,                           \* of AlertDispatch
  Off \* the value of what is not played; the NULL chat

VARIABLES playing, stage, v1, v2, v3, v4, v5, v6, v7, v8, v9, v10, v11, v12

Scan == INSTANCE CoinScan WITH
  Runs <- Workers, LastDay <- LastScanDay, pc <- stage,
  day <- v1, rows <- v2, now <- v3, asked <- v4, got <- v5, seen <- v6, dropped <- v7,
  added <- v8, job <- v9, told <- v10, faults <- v11, overlaps <- v12

Alert == INSTANCE AlertDispatch WITH
  Dispatches <- Workers, NoChat <- Off, pc <- stage,
  now <- v1, signal <- v2, todo <- v3, current <- v4, events <- v5, enabled <- v6, wanted <- v7,
  offSince <- v8, earlier <- v9

ASSUME MessagesAssumption == Scan!ConstantsOK /\ Alert!ConstantsOK
-----------------------------------------------------------------------------
over9 == <<v10, v11, v12>>
slots == <<stage, v1, v2, v3, v4, v5, v6, v7, v8, v9, over9>>
all   == <<vars, playing, slots>>

Free9 == v10 = Off /\ v11 = Off /\ v12 = Off
Free  == /\ stage = Off /\ v1 = Off /\ v2 = Off /\ v3 = Off /\ v4 = Off /\ v5 = Off /\ v6 = Off
         /\ v7 = Off /\ v8 = Off /\ v9 = Off /\ Free9

MessagesInit ==
  /\ Init
  /\ \/ playing = "digest" /\ Free
     \/ playing = "scan" /\ Scan!Init
     \/ playing = "alert" /\ Alert!Init /\ Free9
  /\ playing # "digest" => label = [d \in Days |-> [s \in Symbols |-> "up"]]

MessagesNext ==
  \/ playing = "digest" /\ Next /\ UNCHANGED <<playing, slots>>
  \/ playing = "scan" /\ Scan!Next /\ UNCHANGED <<playing, vars>>
  \/ playing = "alert" /\ Alert!Next /\ UNCHANGED <<playing, vars, over9>>

MessagesSpec == MessagesInit /\ [][MessagesNext]_all
-----------------------------------------------------------------------------
(* The properties of the other modules, each of the instance that is played. *)

\* saveCoinScan: the stored day is one scan, whichever runs overlap or die;
\* scanWithFallback: and one of the best exchange that answered.
StoredDayIsOneScan == playing = "scan" => Scan!StoredDayIsOneScan /\ Scan!BestOfOneExchange

\* saveCoinScan: a stored day is never gone, not even while it is overwritten.
DayStaysStored == [][playing = "scan" => Scan!DayStands]_all

\* dispatchAlert: a chat that opted out before a signal is not sent it.
OptOutIsRespected == playing = "alert" => Alert!OptOutIsRespected

\* dispatchAlert: one chat that cannot be reached silences nobody.
EveryRecipientTried == playing = "alert" => Alert!EveryRecipientTried

\* shouldSendAlert: the same thing is told twice within a cooldown only by dispatches
\* that overlap, or with another alert of the key in between.
RepeatsOnlyByOverlap == playing = "alert" => Alert!RepeatsOnlyByOverlap
=============================================================================
