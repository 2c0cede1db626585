---------------------------- MODULE MessagesProofs ----------------------------
(***************************************************************************)
(* The parts that send messages, for any number of overlapping workers:    *)
(* DailyDigest keeps the promise of MorningMessage and no day is claimed   *)
(* in vain, for any chats, symbols and days; AlertDispatch honours every   *)
(* switch and reaches every recipient, for any keys, chats, severities and *)
(* cooldowns; and CoinScan leaves one scan of one exchange, for any coins, *)
(* days, faults and overlaps.                                              *)
(***************************************************************************)
EXTENDS Messages, TLAPS

USE TimesAssumption, CoinScanAssumption, ChatsAssumption, SymbolsAssumption, WorkersAssumption

Holds(w) == pc[w] \in Holding

\* One run at most holds a day,
OneHolder ==
  \A v, w \in Workers : Holds(v) /\ Holds(w) /\ at[v].day = at[w].day => v = w

\* the row of a day that is held is in the table,
HeldIsClaimed == \A w \in Workers : Holds(w) => at[w].day \in claimed

\* the chats still on the holder's list have not been sent the day's message,
AudienceUnsent ==
  \A w \in Workers : Holds(w) => \A c \in audience[w] : sent[at[w].day][c] = 0

\* nor has any chat on a day nobody has claimed,
UnclaimedUnsent == \A d \in Days : d \notin claimed => \A c \in Chats : sent[d][c] = 0

\* and a claimed day is held, finished or broken.
IInv ==
  /\ TypeOK
  /\ OneHolder
  /\ HeldIsClaimed
  /\ AudienceUnsent
  /\ UnclaimedUnsent
  /\ NoWastedClaim
-----------------------------------------------------------------------------
\* Initially nothing is claimed, held or sent.
LEMMA InitHolds == Init => IInv
<1> SUFFICES ASSUME Init PROVE IInv
  OBVIOUS
<1> USE DEF Init
<1>1. TypeOK
  <2>1. day \in Days /\ hour \in 0 .. DayLength - 1
    BY DEF Days
  <2>2. trend \in [Symbols -> Rows] /\ prev \in [Workers -> Rows]
    BY DEF Rows, NoRow, Labels
  <2>3. at \in [Workers -> [day : Days, hour : 0 .. DayLength - 1]]
    BY <2>1
  <2>4. current \in [Workers -> Chats]
    <3>1. (CHOOSE c \in Chats : TRUE) \in Chats
      OBVIOUS
    <3> QED BY <3>1
  <2> QED BY <2>1, <2>2, <2>3, <2>4 DEF TypeOK, Holding
<1>2. \A w \in Workers : ~Holds(w)
  BY DEF Holds, Holding
<1> QED BY <1>1, <1>2 DEF IInv, OneHolder, HeldIsClaimed, AudienceUnsent, UnclaimedUnsent, NoWastedClaim

\* The digest's variables of the database and the messages sent, at rest.
AtRest == UNCHANGED <<body, personal, recipients, sent>>

\* A step of one run that ends outside the held stages, claims at most its own
\* day from outside them, and breaks that day when it claimed or held it.
Leaves(w) ==
  /\ pc' = [pc EXCEPT ![w] = pc'[w]] /\ pc'[w] \notin Holding
  /\ \A v \in Workers : v # w => at'[v] = at[v] /\ audience'[v] = audience[v]
  /\ sent' = sent
  /\ claimed \subseteq claimed' /\ claimed' \subseteq Days
  /\ recipients \subseteq recipients' /\ broken \subseteq broken'
  /\ claimed' \ claimed \subseteq broken'
  /\ Holds(w) => at[w].day \in recipients' \cup broken'

\* Such a step keeps everything but the types, which its own action settles.
LEMMA LeavesKeeps ==
  ASSUME IInv, NEW w \in Workers, Leaves(w)
  PROVE  /\ OneHolder' /\ HeldIsClaimed' /\ AudienceUnsent' /\ UnclaimedUnsent'
         /\ NoWastedClaim'
<1> USE DEF IInv, Leaves
<1>1. pc \in [Workers -> {"idle", "ran", "read", "upsert", "gate", "claim"} \cup Holding]
  BY DEF TypeOK
<1>2. ~Holds(w)'
  BY <1>1 DEF Holds
<1>3. \A v \in Workers : v # w => pc'[v] = pc[v]
  BY <1>1
<1>4. \A v \in Workers : Holds(v)' => v # w /\ Holds(v) /\ at'[v] = at[v] /\ audience'[v] = audience[v]
  BY <1>2, <1>3 DEF Holds
<1>5. OneHolder'
  BY <1>4 DEF OneHolder
<1>6. HeldIsClaimed'
  BY <1>4 DEF HeldIsClaimed
<1>7. AudienceUnsent'
  BY <1>4 DEF AudienceUnsent
<1>8. UnclaimedUnsent'
  BY DEF UnclaimedUnsent
<1>9. NoWastedClaim'
  <2> SUFFICES ASSUME NEW d \in claimed',
                      ~(d \in recipients' \/ d \in broken')
               PROVE  \E v \in Workers : pc'[v] \in Holding /\ at'[v].day = d
    BY DEF NoWastedClaim
  <2>1. d \in claimed /\ d \notin recipients /\ d \notin broken
    OBVIOUS
  <2>2. PICK v \in Workers : pc[v] \in Holding /\ at[v].day = d
    BY <2>1 DEF NoWastedClaim
  <2>3. v # w
    BY <2>2 DEF Holds
  <2> QED BY <2>2, <2>3, <1>3
<1> QED BY <1>5, <1>6, <1>7, <1>8, <1>9

\* Begin, Select, ReadFails, Upsert and Gate work before the claim.
LEMMA ReadingKeeps ==
  ASSUME IInv, NEW w \in Workers,
         Begin(w) \/ Select(w) \/ ReadFails(w) \/ Upsert(w) \/ Gate(w)
  PROVE  IInv'
<1> USE DEF IInv
<1>a. /\ pc \in [Workers -> {"idle", "ran", "read", "upsert", "gate", "claim"} \cup Holding]
      /\ at \in [Workers -> [day : Days, hour : 0 .. DayLength - 1]]
      /\ audience \in [Workers -> SUBSET Chats]
      /\ prev \in [Workers -> Rows] /\ trend \in [Symbols -> Rows]
      /\ todo \in [Workers -> SUBSET Symbols]
  BY DEF TypeOK
<1>b. ASSUME todo[w] # {} PROVE Reading(w) \in Symbols
  BY <1>a, <1>b DEF Reading
<1>c. ~Holds(w)
  BY DEF Begin, Select, ReadFails, Upsert, Gate, Holds, Holding
<1>d. claimed \in SUBSET Days
  BY DEF TypeOK
<1>1. CASE Begin(w)
  <2> USE <1>1 DEF Begin, Goto, tables, sending, history, clock
  <2>1. TypeOK'
    <3>1. at' \in [Workers -> [day : Days, hour : 0 .. DayLength - 1]]
      BY <1>a DEF TypeOK
    <3>2. pc' \in [Workers -> {"idle", "ran", "read", "upsert", "gate", "claim"} \cup Holding]
      BY <1>a
    <3> QED BY <3>1, <3>2 DEF TypeOK
  <2>2. Leaves(w)
    BY <1>a, <1>c, <1>d DEF Leaves, Holding
  <2> QED BY <2>1, <2>2, LeavesKeeps
<1>2. CASE Select(w)
  <2> USE <1>2 DEF Select, Goto, tables, sending, history, clock
  <2>1. TypeOK'
    <3>1. prev' \in [Workers -> Rows]
      BY <1>a, <1>b
    <3>2. pc' \in [Workers -> {"idle", "ran", "read", "upsert", "gate", "claim"} \cup Holding]
      BY <1>a
    <3> QED BY <3>1, <3>2 DEF TypeOK
  <2>2. Leaves(w)
    BY <1>a, <1>c, <1>d DEF Leaves, Holding
  <2> QED BY <2>1, <2>2, LeavesKeeps
<1>3. ASSUME NextSymbol(w)
      PROVE  /\ pc' \in [Workers -> {"idle", "ran", "read", "upsert", "gate", "claim"} \cup Holding]
             /\ pc' = [pc EXCEPT ![w] = pc'[w]] /\ pc'[w] \notin Holding
             /\ todo' \in [Workers -> SUBSET Symbols]
  BY <1>3, <1>a DEF NextSymbol, Goto, Holding
<1>4. CASE ReadFails(w)
  <2> USE <1>4 DEF ReadFails, tables, sending, history, clock
  <2>1. TypeOK'
    BY <1>3 DEF TypeOK
  <2>2. Leaves(w)
    BY <1>3, <1>c, <1>d DEF Leaves
  <2> QED BY <2>1, <2>2, LeavesKeeps
<1>5. CASE Upsert(w)
  <2> DEFINE s   == Reading(w)
             new == label[at[w].day][s]
             is  == LabelChanged(w, at[w].day, new)
  <2>1. /\ trend' = [trend EXCEPT ![s] = [close |-> at[w].day, label |-> new]]
        /\ results' = [results EXCEPT ![w] = @ \cup {s}]
        /\ flagged' = [flagged EXCEPT ![w] = IF is THEN @ \cup {s} ELSE @]
        /\ changed' = [changed EXCEPT ![at[w].day] = IF is THEN @ \cup {s} ELSE @]
        /\ NextSymbol(w) /\ pc[w] = "upsert"
        /\ UNCHANGED <<clock, label, scanned, claimed, body, personal, recipients,
                       at, prev, sending, sent, broken, calm>>
    BY <1>5 DEF Upsert
  <2> HIDE DEF s, is
  <2>2. CASE s \in Symbols
    <3>1. at[w].day \in Days
      BY <1>a
    <3>2. new \in Labels
      BY <3>1, <2>2 DEF TypeOK
    <3>3. [close |-> at[w].day, label |-> new] \in Rows
      BY <3>1, <3>2 DEF Rows, Days
    <3>4. trend' \in [Symbols -> Rows]
      BY <3>3, <2>1, <1>a
    <3>5. results' \in [Workers -> SUBSET Symbols] /\ flagged' \in [Workers -> SUBSET Symbols]
      BY <2>1, <2>2 DEF TypeOK
    <3>6. changed' \in [Days -> SUBSET Symbols]
      BY <2>1, <2>2, <3>1 DEF TypeOK
    <3>7. TypeOK'
      BY <3>4, <3>5, <3>6, <2>1, <1>3 DEF TypeOK, clock, sending
    <3>8. Leaves(w)
      BY <2>1, <1>3, <1>c, <1>d DEF Leaves, sending
    <3> QED BY <3>7, <3>8, LeavesKeeps
  <2>3. s \in Symbols
    BY <1>b, <2>1 DEF s, NextSymbol
  <2> QED BY <2>2, <2>3
<1>6. CASE Gate(w)
  <2> USE <1>6 DEF Gate, tables, reading, clock
  <2>1. /\ pc' \in [Workers -> {"idle", "ran", "read", "upsert", "gate", "claim"} \cup Holding]
        /\ pc' = [pc EXCEPT ![w] = pc'[w]] /\ pc'[w] \notin Holding
    BY <1>a DEF Goto, Holding
  <2>2. audience' \in [Workers -> SUBSET Chats] /\ \A v \in Workers : v # w => audience'[v] = audience[v]
    BY <1>a
  <2>3. calm' \in BOOLEAN
    BY DEF TypeOK
  <2>4. TypeOK'
    BY <2>1, <2>2, <2>3 DEF TypeOK
  <2>5. Leaves(w)
    BY <2>1, <2>2, <1>c, <1>d DEF Leaves
  <2> QED BY <2>4, <2>5, LeavesKeeps
<1> QED BY <1>1, <1>2, <1>4, <1>5, <1>6

\* ScanStored and Tick leave the digest alone.
LEMMA AroundKeeps ==
  ASSUME IInv, ScanStored \/ Tick
  PROVE  IInv'
<1> USE DEF IInv
<1>a. /\ pc \in [Workers -> {"idle", "ran", "read", "upsert", "gate", "claim"} \cup Holding]
      /\ day \in Days /\ hour \in 0 .. DayLength - 1
  BY DEF TypeOK
<1>1. /\ UNCHANGED <<at, audience, sent, claimed, recipients, broken>>
      /\ \A w \in Workers : pc'[w] \in Holding <=> pc[w] \in Holding
  BY <1>a DEF ScanStored, Tick, tables, reading, sending, history, Holding
<1>2. \A w \in Workers : Holds(w)' <=> Holds(w)
  BY <1>1 DEF Holds
<1>3. TypeOK'
  <2>1. CASE ScanStored
    <3>1. scanned' \in SUBSET Days
      BY <2>1, <1>a DEF ScanStored, TypeOK
    <3> QED BY <2>1, <3>1 DEF ScanStored, TypeOK, clock, reading, sending, history
  <2>2. CASE Tick
    <3> USE <2>2 DEF Tick
    <3>1. hour' \in 0 .. DayLength - 1
      BY <1>a
    <3>2. day' \in Days
      BY <1>a DEF Days
    <3>3. pc' \in [Workers -> {"idle", "ran", "read", "upsert", "gate", "claim"} \cup Holding]
      BY <1>a
    <3>4. calm' \in BOOLEAN
      OBVIOUS
    <3> QED BY <3>1, <3>2, <3>3, <3>4 DEF TypeOK, tables, reading, sending
  <2> QED BY <2>1, <2>2
<1>4. OneHolder' /\ HeldIsClaimed' /\ AudienceUnsent' /\ UnclaimedUnsent'
  BY <1>1, <1>2 DEF OneHolder, HeldIsClaimed, AudienceUnsent, UnclaimedUnsent
<1>5. NoWastedClaim'
  BY <1>1 DEF NoWastedClaim
<1> QED BY <1>3, <1>4, <1>5

\* Claim makes its run the holder of a day that had none.
LEMMA ClaimKeeps ==
  ASSUME IInv, NEW w \in Workers, Claim(w)
  PROVE  IInv'
<1> USE DEF IInv
<1>a. /\ pc \in [Workers -> {"idle", "ran", "read", "upsert", "gate", "claim"} \cup Holding]
      /\ at[w].day \in Days /\ claimed \in SUBSET Days
  BY DEF TypeOK
<1>b. /\ pc[w] = "claim" /\ claimed' = claimed \cup {at[w].day}
      /\ pc' = [pc EXCEPT ![w] = IF ClaimWins(at[w].day) THEN "claimed" ELSE "ran"]
      /\ UNCHANGED <<clock, label, trend, scanned, body, personal, recipients, reading,
                     sending, sent, history>>
  BY DEF Claim, Goto
<1>1. TypeOK'
  <2>1. pc' \in [Workers -> {"idle", "ran", "read", "upsert", "gate", "claim"} \cup Holding]
    BY <1>a, <1>b DEF Holding
  <2>2. /\ claimed' \in SUBSET Days
        /\ body' \in SUBSET claimed' /\ recipients' \in SUBSET claimed'
        /\ personal' \in SUBSET (claimed' \X Chats)
    BY <1>a, <1>b DEF TypeOK
  <2> QED BY <1>b, <2>1, <2>2 DEF TypeOK, clock, reading, sending, history
<1>2. CASE ~ClaimWins(at[w].day)
  <2>1. Leaves(w)
    BY <1>a, <1>b, <1>2 DEF Leaves, Holds, Holding, ClaimWins, reading, sending, history
  <2> QED BY <1>1, <2>1, LeavesKeeps
<1>3. CASE ClaimWins(at[w].day)
  <2>1. \A v \in Workers : Holds(v)' <=> v = w \/ Holds(v)
    BY <1>a, <1>b, <1>3 DEF Holds, Holding
  <2>2. at' = at /\ audience' = audience /\ sent' = sent /\ recipients' = recipients /\ broken' = broken
    BY <1>b DEF reading, sending, history
  <2>3. at[w].day \notin claimed
    BY <1>3 DEF ClaimWins
  <2>4. \A v \in Workers : Holds(v) => at[v].day # at[w].day
    BY <2>3 DEF HeldIsClaimed
  <2>5. OneHolder'
    BY <2>1, <2>2, <2>4 DEF OneHolder
  <2>6. HeldIsClaimed'
    BY <2>1, <2>2, <1>b DEF HeldIsClaimed
  <2>7. AudienceUnsent'
    <3>1. audience[w] \subseteq Chats
      BY DEF TypeOK
    <3>2. \A c \in audience[w] : sent[at[w].day][c] = 0
      BY <3>1, <2>3, <1>a DEF UnclaimedUnsent
    <3> QED BY <3>2, <2>1, <2>2 DEF AudienceUnsent
  <2>8. UnclaimedUnsent'
    BY <2>2, <1>b DEF UnclaimedUnsent
  <2>9. NoWastedClaim'
    <3> SUFFICES ASSUME NEW d \in claimed', d \notin recipients', d \notin broken'
                 PROVE  \E v \in Workers : Holds(v)' /\ at'[v].day = d
      BY DEF NoWastedClaim, Holds
    <3>1. CASE d = at[w].day
      BY <3>1, <2>1, <2>2
    <3>2. CASE d # at[w].day
      <4>1. d \in claimed
        BY <3>2, <1>b
      <4>2. PICK v \in Workers : Holds(v) /\ at[v].day = d
        BY <4>1, <2>2 DEF NoWastedClaim, Holds
      <4> QED BY <4>2, <2>1, <2>2
    <3> QED BY <3>1, <3>2
  <2> QED BY <1>1, <2>5, <2>6, <2>7, <2>8, <2>9
<1> QED BY <1>2, <1>3

\* Compose and Keep move the holder between its own stages.
LEMMA HolderKeeps ==
  ASSUME IInv, NEW w \in Workers, Compose(w) \/ Keep(w)
  PROVE  IInv'
<1> USE DEF IInv
<1>a. /\ pc \in [Workers -> {"idle", "ran", "read", "upsert", "gate", "claim"} \cup Holding]
      /\ pc[w] \in Holding /\ at[w].day \in claimed
  BY DEF TypeOK, Compose, Keep, Holding, HeldIsClaimed, Holds
<1>1. /\ pc' = [pc EXCEPT ![w] = "sending"]
      /\ UNCHANGED <<at, audience, sent, claimed, recipients, broken>>
  BY DEF Compose, Keep, Goto, reading, sending, history
<1>2. \A v \in Workers : Holds(v)' <=> Holds(v)
  BY <1>a, <1>1 DEF Holds, Holding
<1>3. TypeOK'
  <2>1. pc' \in [Workers -> {"idle", "ran", "read", "upsert", "gate", "claim"} \cup Holding]
    BY <1>a, <1>1 DEF Holding
  <2>2. CASE Compose(w)
    <3>1. body' \in SUBSET claimed' /\ own' \in [Workers -> BOOLEAN]
      BY <2>2, <1>a, <1>1 DEF Compose, TypeOK
    <3> QED BY <2>1, <2>2, <3>1, <1>1 DEF Compose, TypeOK, clock, reading, history
  <2>3. CASE Keep(w)
    <3>1. current[w] \in Chats /\ personal \in SUBSET (claimed \X Chats)
      BY DEF TypeOK
    <3>2. personal' \in SUBSET (claimed' \X Chats)
      BY <2>3, <3>1, <1>a, <1>1  DEF Keep
    <3> QED BY <2>1, <2>3, <3>2, <1>1 DEF Keep, TypeOK, clock, reading, sending, history
  <2> QED BY <2>2, <2>3
<1>4. OneHolder' /\ HeldIsClaimed' /\ AudienceUnsent' /\ UnclaimedUnsent'
  BY <1>1, <1>2 DEF OneHolder, HeldIsClaimed, AudienceUnsent, UnclaimedUnsent
<1>5. NoWastedClaim'
  BY <1>1, <1>2 DEF NoWastedClaim, Holds
<1> QED BY <1>3, <1>4, <1>5

\* A send delivers to a chat of its list, which has had nothing yet.
LEMMA SendKeeps ==
  ASSUME IInv, NEW w \in Workers, Send(w)
  PROVE  IInv'
<1> USE DEF IInv
<1> DEFINE d == at[w].day
<1>a. /\ pc \in [Workers -> {"idle", "ran", "read", "upsert", "gate", "claim"} \cup Holding]
      /\ d \in Days /\ audience \in [Workers -> SUBSET Chats]
      /\ sent \in [Days -> [Chats -> Nat]]
  BY DEF TypeOK
<1>b. pc[w] = "sending" /\ Holds(w)
  BY DEF Send, Holds, Holding
<1>1. PICK c \in audience[w], landed \in BOOLEAN :
        /\ audience' = [audience EXCEPT ![w] = @ \ {c}]
        /\ current' = [current EXCEPT ![w] = c]
        /\ sent' = IF landed THEN [sent EXCEPT ![d][c] = @ + 1] ELSE sent
        /\ pc' = [pc EXCEPT ![w] = IF landed /\ own[w] THEN "keeping" ELSE "sending"]
  BY DEF Send, Goto
<1>2. UNCHANGED <<clock, label, tables, reading, own, history>>
  BY DEF Send
<1>3. at' = at /\ claimed' = claimed /\ recipients' = recipients /\ broken' = broken
  BY <1>2 DEF tables, reading, history
<1> HIDE DEF d
<1>c. c \in Chats
  BY <1>a
<1>4. \A v \in Workers : Holds(v)' <=> Holds(v)
  BY <1>a, <1>b, <1>1 DEF Holds, Holding
<1>5. sent' \in [Days -> [Chats -> Nat]]
  BY <1>a, <1>c, <1>1
<1>6. \A e \in Days, b \in Chats : e # d \/ b # c => sent'[e][b] = sent[e][b]
  BY <1>a, <1>c, <1>1
<1>7. TypeOK'
  <2>1. pc' \in [Workers -> {"idle", "ran", "read", "upsert", "gate", "claim"} \cup Holding]
    BY <1>a, <1>1 DEF Holding
  <2>2. audience' \in [Workers -> SUBSET Chats]
    BY <1>a, <1>1
  <2>3. current' \in [Workers -> Chats]
    BY <1>c, <1>1 DEF TypeOK
  <2> QED BY <2>1, <2>2, <2>3, <1>5, <1>2 DEF TypeOK, clock, tables, reading, history
<1>8. OneHolder'
  BY <1>3, <1>4 DEF OneHolder
<1>9. HeldIsClaimed'
  BY <1>3, <1>4 DEF HeldIsClaimed
<1>10. AudienceUnsent'
  <2> SUFFICES ASSUME NEW v \in Workers, Holds(v)', NEW b \in audience'[v]
               PROVE  sent'[at'[v].day][b] = 0
    BY DEF AudienceUnsent
  <2>1. Holds(v)
    BY <1>4
  <2>2. b \in audience[v] /\ (v = w => b # c)
    BY <1>1, <1>a
  <2>3. sent[at[v].day][b] = 0
    BY <2>1, <2>2 DEF AudienceUnsent
  <2>4. at[v].day \in Days /\ b \in Chats
    BY <2>2, <1>a DEF TypeOK
  <2>5. v # w => at[v].day # d
    BY <2>1, <1>b DEF OneHolder, d
  <2>6. at[v].day # d \/ b # c
    BY <2>2, <2>5
  <2> QED BY <2>3, <2>4, <2>6, <1>6, <1>3
<1>11. UnclaimedUnsent'
  <2>1. d \in claimed
    BY <1>b DEF HeldIsClaimed, d
  <2> QED BY <2>1, <1>3, <1>6 DEF UnclaimedUnsent
<1>12. NoWastedClaim'
  BY <1>3, <1>4 DEF NoWastedClaim, Holds
<1> QED BY <1>7, <1>8, <1>9, <1>10, <1>11, <1>12

\* Finish records the day, Dies breaks it when it was held or being claimed.
LEMMA EndingKeeps ==
  ASSUME IInv, NEW w \in Workers, Finish(w) \/ Dies(w)
  PROVE  IInv'
<1> USE DEF IInv
<1>a. /\ pc \in [Workers -> {"idle", "ran", "read", "upsert", "gate", "claim"} \cup Holding]
      /\ at[w].day \in Days /\ claimed \in SUBSET Days
  BY DEF TypeOK
<1>1. CASE Finish(w)
  <2> USE <1>1 DEF Finish, Goto, clock, reading, sending, history
  <2>1. at[w].day \in claimed
    BY DEF HeldIsClaimed, Holds, Holding
  <2>2. TypeOK'
    <3>1. pc' \in [Workers -> {"idle", "ran", "read", "upsert", "gate", "claim"} \cup Holding]
      BY <1>a
    <3>2. recipients' \in SUBSET claimed'
      BY <2>1 DEF TypeOK
    <3> QED BY <3>1, <3>2 DEF TypeOK
  <2>3. Leaves(w)
    BY <1>a DEF Leaves, Holding
  <2> QED BY <2>2, <2>3, LeavesKeeps
<1>2. CASE Dies(w)
  <2> USE <1>2 DEF Dies, Goto, clock, reading, sending
  <2>1. claimed' = claimed \/ claimed' = claimed \cup {at[w].day}
    OBVIOUS
  <2>2. broken' \in SUBSET Days
    BY <1>a DEF TypeOK
  <2>3. TypeOK'
    <3>1. pc' \in [Workers -> {"idle", "ran", "read", "upsert", "gate", "claim"} \cup Holding]
      BY <1>a
    <3>2. /\ claimed' \in SUBSET Days
          /\ body' \in SUBSET claimed' /\ recipients' \in SUBSET claimed'
          /\ personal' \in SUBSET (claimed' \X Chats)
      BY <2>1, <1>a DEF TypeOK
    <3> QED BY <2>2, <3>1, <3>2 DEF TypeOK
  <2>4. Leaves(w)
    <3>1. pc' = [pc EXCEPT ![w] = pc'[w]] /\ pc'[w] \notin Holding
      BY <1>a DEF Holding
    <3>2. /\ claimed \subseteq claimed' /\ claimed' \subseteq Days
          /\ claimed' \ claimed \subseteq broken' /\ broken \subseteq broken'
      BY <2>1, <1>a
    <3>3. Holds(w) => at[w].day \in broken'
      BY DEF Holds
    <3> QED BY <3>1, <3>2, <3>3 DEF Leaves
  <2> QED BY <2>3, <2>4, LeavesKeeps
<1> QED BY <1>1, <1>2

\* Every step keeps the invariant.
LEMMA NextKeeps == IInv /\ [Next]_vars => IInv'
<1> SUFFICES ASSUME IInv, [Next]_vars PROVE IInv'
  OBVIOUS
<1>1. CASE UNCHANGED vars
  <2> USE <1>1 DEF vars, clock, tables, reading, sending, history
  <2>1. TypeOK'
    BY DEF IInv, TypeOK
  <2>2. OneHolder' /\ HeldIsClaimed' /\ AudienceUnsent' /\ UnclaimedUnsent' /\ NoWastedClaim'
    BY DEF IInv, OneHolder, HeldIsClaimed, AudienceUnsent, UnclaimedUnsent, NoWastedClaim, Holds
  <2> QED BY <2>1, <2>2 DEF IInv
<1>2. CASE ScanStored \/ Tick
  BY <1>2, AroundKeeps
<1>3. ASSUME NEW w \in Workers, Run(w) \/ Dies(w) PROVE IInv'
  <2>1. CASE Begin(w) \/ Select(w) \/ ReadFails(w) \/ Upsert(w) \/ Gate(w)
    BY <2>1, ReadingKeeps
  <2>2. CASE Claim(w)
    BY <2>2, ClaimKeeps
  <2>3. CASE Compose(w) \/ Keep(w)
    BY <2>3, HolderKeeps
  <2>4. CASE Send(w)
    BY <2>4, SendKeeps
  <2>5. CASE Finish(w) \/ Dies(w)
    BY <2>5, EndingKeeps
  <2> QED BY <1>3, <2>1, <2>2, <2>3, <2>4, <2>5 DEF Run
<1> QED BY <1>1, <1>2, <1>3 DEF Next

\* The inductive invariant holds in every reachable state.
THEOREM Inductive == Spec => []IInv
<1> QED BY InitHolds, NextKeeps, PTL DEF Spec

\* Every variable keeps its type, and only claimed days have a text, a stored
\* copy or a count of recipients.
THEOREM TypeCorrect == Spec => []TypeOK
<1>1. IInv => TypeOK
  BY DEF IInv
<1> QED BY <1>1, Inductive, PTL

\* However many runs overlap and wherever they die, a claimed day is being
\* sent, has been sent, or was broken off: no claim is spent on a day that is
\* then skipped.
THEOREM ClaimsAreUsed == Spec => []NoWastedClaim
<1>1. IInv => NoWastedClaim
  BY DEF IInv
<1> QED BY <1>1, Inductive, PTL

-----------------------------------------------------------------------------
(* The refinement. *)

\* The digest starts as the promise does.
LEMMA InitIsPromised == Init => Promise!Init
BY DEF Init, Promise!Init

\* A claim opens its day, a delivered message tells one chat, the rest is silent.
LEMMA StepIsPromised == IInv /\ [Next]_vars => [Promise!Next]_<<claimed, sent>>
<1> SUFFICES ASSUME IInv, [Next]_vars
             PROVE  Promise!Next \/ (claimed' = claimed /\ sent' = sent)
  OBVIOUS
<1>1. CASE UNCHANGED vars
  BY <1>1 DEF vars, tables
<1>2. CASE ScanStored \/ Tick
  BY <1>2 DEF ScanStored, Tick, tables
<1>3. ASSUME NEW w \in Workers, Run(w) \/ Dies(w)
      PROVE  Promise!Next \/ (claimed' = claimed /\ sent' = sent)
  <2>a. at[w].day \in Days /\ audience[w] \subseteq Chats /\ sent \in [Days -> [Chats -> Nat]]
    BY DEF IInv, TypeOK
  <2>1. CASE Begin(w) \/ Select(w) \/ ReadFails(w) \/ Upsert(w) \/ Gate(w)
    BY <2>1 DEF Begin, Select, ReadFails, Upsert, Gate, tables
  <2>2. CASE Compose(w) \/ Keep(w) \/ Finish(w)
    BY <2>2 DEF Compose, Keep, Finish
  <2>3. CASE Claim(w) \/ Dies(w)
    <3>1. sent' = sent /\ (claimed' = claimed \/ claimed' = claimed \cup {at[w].day})
      BY <2>3 DEF Claim, Dies
    <3>2. CASE at[w].day \in claimed
      BY <3>1, <3>2
    <3>3. CASE at[w].day \notin claimed /\ claimed' = claimed \cup {at[w].day}
      <4>1. Promise!Open(at[w].day)
        BY <3>1, <3>3 DEF Promise!Open
      <4> QED BY <4>1, <2>a DEF Promise!Next
    <3> QED BY <3>1, <3>2, <3>3
  <2>4. CASE Send(w)
    <3> DEFINE d == at[w].day
    <3>1. PICK c \in audience[w], landed \in BOOLEAN :
            sent' = IF landed THEN [sent EXCEPT ![d][c] = @ + 1] ELSE sent
      BY <2>4 DEF Send
    <3>2. claimed' = claimed
      BY <2>4 DEF Send, tables
    <3>3. sent[d][c] = 0 /\ d \in claimed
      BY <2>4 DEF Send, IInv, AudienceUnsent, HeldIsClaimed, Holds, Holding
    <3>4. CASE landed
      <4>1. sent' = [sent EXCEPT ![d][c] = 1]
        BY <3>1, <3>3, <3>4
      <4>2. Promise!Tell(d, c)
        BY <4>1, <3>2, <3>3 DEF Promise!Tell
      <4> QED BY <4>2, <2>a DEF Promise!Next
    <3> QED BY <3>1, <3>2, <3>4
  <2> QED BY <1>3, <2>1, <2>2, <2>3, <2>4 DEF Run
<1> QED BY <1>1, <1>2, <1>3 DEF Next

\* The claim, the sends and their records implement MorningMessage: a day is
\* opened at most once, and a chat told of it at most once.
THEOREM Implements == Spec => KeepsPromise
<1>1. Spec => Promise!Init /\ [][Promise!Next]_<<claimed, sent>>
  BY InitIsPromised, StepIsPromised, Inductive, PTL DEF Spec
<1> QED BY <1>1 DEF KeepsPromise, Promise!Spec, Promise!mVars

\* No chat is ever sent one day's digest twice.
THEOREM NeverTwice == Spec => []AtMostOnce
<1> DEFINE Once == \A d \in Days, c \in Chats : sent[d][c] \in {0, 1}
<1>1. Init => Once
  BY DEF Init
<1>2. IInv /\ Once /\ [Next]_vars => Once'
  <2> SUFFICES ASSUME IInv, Once, [Next]_vars PROVE Once'
    OBVIOUS
  <2>1. sent \in [Days -> [Chats -> Nat]]
    BY DEF IInv, TypeOK
  <2>2. Promise!Next \/ sent' = sent
    BY StepIsPromised
  <2>3. ASSUME NEW d \in Days, NEW c \in Chats, Promise!Tell(d, c) PROVE Once'
    BY <2>1, <2>3 DEF Promise!Tell
  <2> QED BY <2>2, <2>3 DEF Promise!Next, Promise!Open
<1>3. Once => AtMostOnce
  BY DEF AtMostOnce
<1> QED BY <1>1, <1>2, <1>3, Inductive, PTL DEF Spec

-----------------------------------------------------------------------------
(* The morning message. *)

\* One run's steps, while the day stays.
LEMMA MorningRuns ==
  ASSUME IInv, RanIsClaimed, MorningMessageGoesOut, NEW w \in Workers, Run(w) \/ Dies(w)
  PROVE  RanIsClaimed' /\ MorningMessageGoesOut'
<1>a. /\ pc \in [Workers -> {"idle", "ran", "read", "upsert", "gate", "claim"} \cup Holding]
      /\ at \in [Workers -> [day : Days, hour : 0 .. DayLength - 1]]
      /\ day \in Days /\ hour \in Nat /\ calm \in BOOLEAN
  BY DEF IInv, TypeOK
<1>1. day' = day /\ hour' = hour /\ claimed \subseteq claimed' /\ (calm' => calm)
  <2>1. CASE Begin(w) \/ Select(w) \/ ReadFails(w)
    BY <2>1 DEF Begin, Select, ReadFails, clock, tables, history
  <2>2. CASE Upsert(w)
    BY <2>2 DEF Upsert, clock
  <2>3. CASE Gate(w)
    BY <2>3, <1>a DEF Gate, clock, tables
  <2>4. CASE Claim(w) \/ Compose(w) \/ Send(w) \/ Keep(w) \/ Finish(w) \/ Dies(w)
    BY <2>4 DEF Claim, Compose, Send, Keep, Finish, Dies, clock, tables, history
  <2> QED BY <2>1, <2>2, <2>3, <2>4 DEF Run
<1>2. MorningMessageGoesOut'
  BY <1>1 DEF MorningMessageGoesOut
<1>3. \A v \in Workers \ {w} : pc'[v] = pc[v] /\ at'[v] = at[v]
  <2>1. CASE Begin(w) \/ Select(w) \/ ReadFails(w) \/ Upsert(w) \/ Gate(w)
    BY <1>a, <2>1 DEF Begin, Select, ReadFails, Upsert, Gate, NextSymbol, Goto, reading
  <2>2. CASE Claim(w) \/ Compose(w) \/ Send(w) \/ Keep(w) \/ Finish(w) \/ Dies(w)
    BY <1>a, <2>2 DEF Claim, Compose, Send, Keep, Finish, Dies, Goto, reading
  <2> QED BY <2>1, <2>2 DEF Run
<1>4. ASSUME calm', hour = Window, pc'[w] = "ran", at'[w] = [day |-> day, hour |-> hour]
      PROVE  day \in claimed'
  <2>1. ~(Begin(w) \/ Select(w) \/ ReadFails(w) \/ Upsert(w) \/ Compose(w) \/ Send(w)
            \/ Keep(w) \/ Dies(w))
    BY <1>a, <1>4 DEF Begin, Select, ReadFails, Upsert, NextSymbol, Compose, Send, Keep, Dies, Goto
  <2>2. ~Gate(w)
    <3> SUFFICES ASSUME Gate(w) PROVE FALSE
      OBVIOUS
    <3>1. PICK chats \in SUBSET Chats :
            /\ Goto(w, IF results[w] = {} \/ Elapsed(w) > Window \/ chats = {} \/ WaitsForScan(w)
                         THEN "ran" ELSE "claim")
            /\ calm' = (calm /\ chats # {} /\ results[w] # {})
      BY DEF Gate
    <3>2. at' = at
      BY DEF Gate, reading
    <3>3. Elapsed(w) = Window
      BY <3>2, <1>4 DEF Elapsed
    <3>4. ~WaitsForScan(w) /\ ~(Elapsed(w) > Window)
      BY <3>3 DEF WaitsForScan
    <3> QED BY <3>1, <3>4, <1>a, <1>4 DEF Goto
  <2>3. CASE Claim(w)
    <3>1. at' = at /\ claimed' = claimed \cup {at[w].day}
      BY <2>3 DEF Claim, reading
    <3> QED BY <3>1, <1>4
  <2>4. CASE Finish(w)
    <3>1. at' = at /\ claimed' = claimed /\ Holds(w)
      BY <2>4 DEF Finish, reading, Holds, Holding
    <3>2. at[w].day = day
      BY <3>1, <1>4
    <3> QED BY <3>1, <3>2 DEF IInv, HeldIsClaimed
  <2> QED BY <2>1, <2>2, <2>3, <2>4 DEF Run
<1>5. RanIsClaimed'
  <2> SUFFICES ASSUME calm', hour = Window, NEW v \in Workers, pc'[v] = "ran",
                      at'[v] = [day |-> day, hour |-> hour]
               PROVE  day \in claimed'
    BY <1>1 DEF RanIsClaimed
  <2>1. CASE v = w
    BY <2>1, <1>4
  <2>2. CASE v # w
    BY <2>2, <1>1, <1>3 DEF RanIsClaimed
  <2> QED BY <2>1, <2>2
<1> QED BY <1>2, <1>5

\* ScanStored, and the passing of an hour.
LEMMA MorningAround ==
  ASSUME IInv, RanIsClaimed, MorningMessageGoesOut, ScanStored \/ Tick \/ UNCHANGED vars
  PROVE  RanIsClaimed' /\ MorningMessageGoesOut'
<1>a. /\ pc \in [Workers -> {"idle", "ran", "read", "upsert", "gate", "claim"} \cup Holding]
      /\ hour \in 0 .. DayLength - 1
  BY DEF IInv, TypeOK
<1>1. CASE ScanStored \/ UNCHANGED vars
  BY <1>1 DEF ScanStored, clock, reading, history, vars, tables, RanIsClaimed, MorningMessageGoesOut
<1>2. CASE Tick
  <2>1. /\ hour' = (hour + 1) % DayLength /\ claimed' = claimed
        /\ day' = IF hour + 1 < DayLength THEN day ELSE day + 1
        /\ \A w \in Workers : pc'[w] # "ran"
    BY <1>2, <1>a DEF Tick, tables
  <2>2. calm' => /\ \A w \in Workers : pc[w] = "ran" /\ at[w] = [day |-> day, hour |-> hour]
                 /\ calm \/ hour + 1 = DayLength
    BY <1>2 DEF Tick
  <2>3. RanIsClaimed'
    BY <2>1 DEF RanIsClaimed
  <2>4. CASE hour + 1 = DayLength
    <3>1. hour' = 0
      BY <2>1, <2>4
    <3> QED BY <2>3, <3>1 DEF MorningMessageGoesOut
  <2>5. CASE hour + 1 # DayLength
    <3>1. hour + 1 < DayLength /\ hour' = hour + 1 /\ day' = day
      BY <2>1, <2>5, <1>a
    <3>2. PICK w \in Workers : TRUE
      OBVIOUS
    <3>3. ASSUME calm', hour + 1 > Window PROVE day \in claimed
      <4>1. CASE hour = Window
        BY <4>1, <3>2, <3>3, <2>2, <2>5 DEF RanIsClaimed
      <4>2. CASE hour # Window
        <5>1. hour > Window
          BY <4>2, <3>3, <1>a
        <5> QED BY <5>1, <3>3, <2>2, <2>5 DEF MorningMessageGoesOut
      <4> QED BY <4>1, <4>2
    <3> QED BY <2>1, <2>3, <3>1, <3>3 DEF MorningMessageGoesOut
  <2> QED BY <2>4, <2>5
<1> QED BY <1>1, <1>2

\* On a day on which every run came and none failed, with somebody to send to, the day
\* is claimed by the end of the window, whether the coin scan was stored or not.
THEOREM MorningComes == Spec => []MorningMessageGoesOut
<1>1. Init => RanIsClaimed /\ MorningMessageGoesOut
  BY DEF Init, RanIsClaimed, MorningMessageGoesOut
<1>2. /\ IInv /\ RanIsClaimed /\ MorningMessageGoesOut /\ [Next]_vars
      => RanIsClaimed' /\ MorningMessageGoesOut'
  BY MorningRuns, MorningAround DEF Next
<1> QED BY <1>1, <1>2, Inductive, PTL DEF Spec
-----------------------------------------------------------------------------
(* The dispatch of alerts.  In Messages its pc is stage, now v1, signal v2,   *)
(* todo v3, current v4, events v5, enabled v6, wanted v7, offSince v8 and      *)
(* earlier v9.                                                                *)

AlertStages == {"new", "fired", "due", "sending", "sent"} \cup Alert!Ended

\* It holds at first,
LEMMA AlertInit == Alert!Init => Alert!IInv
<1> SUFFICES ASSUME Alert!Init PROVE Alert!IInv
  OBVIOUS
<1> USE MessagesAssumption DEF Alert!ConstantsOK, Alert!Init
<1>1. Alert!TypeOK
  BY DEF Alert!TypeOK, Alert!Ended
<1>2. \A d \in Workers : Alert!Told(d) = {}
  BY DEF Alert!Told
<1>3. Alert!OffAreOff /\ Alert!OptOutIsRespected
  BY DEF Alert!OffAreOff, Alert!OptOutIsRespected
<1>4. Alert!NotYet /\ Alert!Trying /\ Alert!Tried /\ Alert!EveryRecipientTried
  BY <1>2 DEF Alert!NotYet, Alert!Trying, Alert!Tried, Alert!EveryRecipientTried
<1> QED BY <1>1, <1>3, <1>4 DEF Alert!IInv

\* Fire, LookUp, Fails and Crash move dispatches between stages that promise less,
\* and record nothing.
LEMMA AlertMoves ==
  ASSUME Alert!IInv,
         Alert!Crash \/ \E d \in Workers : Alert!Fire(d) \/ Alert!LookUp(d) \/ Alert!Fails(d)
  PROVE  Alert!IInv'
<1> USE DEF Alert!IInv
<1>a. stage \in [Workers -> AlertStages] /\ v8 \in [Workers -> SUBSET UserChats]
      /\ v6 \in [UserChats -> BOOLEAN] /\ v9 \in [Workers -> SUBSET Workers]
  BY DEF Alert!TypeOK, AlertStages
<1>1. UNCHANGED <<v1, v2, v3, v4, v5, v6, v7>>
  BY DEF Alert!Crash, Alert!Fire, Alert!LookUp, Alert!Fails
<1> DEFINE Stages ==
             /\ stage' \in [Workers -> AlertStages]
             /\ \A e \in Workers :
                  \/ stage'[e] = stage[e]
                  \/ stage'[e] \in {"failed", "silent"}
                  \/ stage[e] \in {"new", "fired"} /\ stage'[e] \in {"fired", "due"}
           Chats8 ==
             /\ v9' \in [Workers -> SUBSET Workers]
             /\ v8' \in [Workers -> SUBSET UserChats]
             /\ \A e \in Workers :
                  v8'[e] = v8[e] \/ (stage[e] = "new" /\ v8'[e] = {c \in UserChats : ~v6[c]})
<1>2. Stages /\ Chats8
  <2>1. CASE Alert!Crash
    BY <2>1, <1>a DEF Alert!Crash, AlertStages, Alert!Ended
  <2>2. ASSUME NEW d \in Workers, Alert!Fire(d) PROVE Stages /\ Chats8
    BY <2>2, <1>a DEF Alert!Fire, AlertStages, Alert!Ended
  <2>3. ASSUME NEW d \in Workers, Alert!Fails(d) PROVE Stages /\ Chats8
    BY <2>3, <1>a DEF Alert!Fails, AlertStages, Alert!Ended
  <2>4. ASSUME NEW d \in Workers, Alert!LookUp(d) PROVE Stages /\ Chats8
    <3>1. Stages /\ v8' = v8
      BY <2>4, <1>a DEF Alert!LookUp, AlertStages, Alert!Ended
    <3>2. v9' \in [Workers -> SUBSET Workers]
      <4> DEFINE Over == {e \in Workers : stage[e] \in Alert!Ended}
      <4>1. v9' = [v9 EXCEPT ![d] = Over]
        BY <2>4 DEF Alert!LookUp
      <4>2. Over \in SUBSET Workers
        OBVIOUS
      <4> HIDE DEF Over
      <4> QED BY <4>1, <4>2, <1>a
    <3> QED BY <3>1, <3>2, <1>a
  <2> QED BY <2>1, <2>2, <2>3, <2>4
<1>3. \A d \in Workers : Alert!Told(d)' = Alert!Told(d)
  BY <1>1 DEF Alert!Told
<1>4. Alert!TypeOK'
  BY <1>1, <1>2 DEF Alert!TypeOK, AlertStages
<1>5. Alert!OffAreOff'
  BY <1>1, <1>2 DEF Alert!OffAreOff
<1>6. Alert!OptOutIsRespected'
  BY <1>1, <1>2 DEF Alert!OptOutIsRespected, Alert!NotYet
<1>7. Alert!NotYet'
  BY <1>1, <1>2, <1>3 DEF Alert!NotYet
<1>8. Alert!Trying' /\ Alert!Tried' /\ Alert!EveryRecipientTried'
  BY <1>1, <1>2, <1>3 DEF Alert!Trying, Alert!Tried, Alert!EveryRecipientTried
<1> QED BY <1>4, <1>5, <1>6, <1>7, <1>8
\* ReadSubscribers sets out for those who want the signal now.
LEMMA AlertSetsOut ==
  ASSUME Alert!IInv, NEW d \in Workers, Alert!ReadSubscribers(d)
  PROVE  Alert!IInv'
<1> USE MessagesAssumption DEF Alert!IInv, Alert!ConstantsOK
<1> DEFINE chats == ConfigChats \cup {c \in UserChats : Alert!Subscribed(c, v2[d])}
<1>a. /\ stage \in [Workers -> AlertStages]
      /\ v3 \in [Workers -> SUBSET Alert!Everyone] /\ v7 \in [Workers -> SUBSET Alert!Everyone]
      /\ v4 \in [Workers -> Alert!Everyone \cup {Off}]
  BY DEF Alert!TypeOK, AlertStages
<1>b. chats \in SUBSET Alert!Everyone
  BY DEF Alert!Everyone
<1>1. /\ stage[d] = "due" /\ stage' = [stage EXCEPT ![d] = IF chats = {} THEN "sent" ELSE "sending"]
      /\ v3' = [v3 EXCEPT ![d] = chats] /\ v7' = [v7 EXCEPT ![d] = chats]
      /\ v4' = [v4 EXCEPT ![d] = Off]
      /\ UNCHANGED <<v1, v2, v5, v6, v8, v9>>
  BY DEF Alert!ReadSubscribers
<1>2. \A c \in chats : c \in ConfigChats \/ v6[c]
  BY DEF Alert!Subscribed
<1> HIDE DEF chats
<1>3. \A e \in Workers : Alert!Told(e)' = Alert!Told(e)
  BY <1>1 DEF Alert!Told
<1>4. Alert!Told(d) = {}
  BY <1>1 DEF Alert!NotYet
<1>5. Alert!TypeOK'
  <2>1. stage' \in [Workers -> AlertStages]
    BY <1>a, <1>1 DEF AlertStages
  <2>2. /\ v3' \in [Workers -> SUBSET Alert!Everyone] /\ v7' \in [Workers -> SUBSET Alert!Everyone]
        /\ v4' \in [Workers -> Alert!Everyone \cup {Off}]
    BY <1>a, <1>b, <1>1
  <2> QED BY <1>1, <2>1, <2>2 DEF Alert!TypeOK, AlertStages
<1>6. Alert!OffAreOff'
  BY <1>1 DEF Alert!OffAreOff
<1>7. Alert!OptOutIsRespected'
  <2>1. (chats \cap v8[d]) \ ConfigChats = {}
    BY <1>2 DEF Alert!OffAreOff
  <2> QED BY <1>a, <1>1, <2>1 DEF Alert!OptOutIsRespected
<1>8. Alert!NotYet'
  BY <1>a, <1>1, <1>3 DEF Alert!NotYet
<1>9. Alert!Trying'
  BY <1>a, <1>1, <1>3, <1>4 DEF Alert!Trying
<1>10. Alert!Tried'
  BY <1>a, <1>1, <1>3, <1>4 DEF Alert!Tried
<1>11. Alert!EveryRecipientTried'
  BY <1>a, <1>1, <1>3 DEF Alert!EveryRecipientTried
<1> QED BY <1>5, <1>6, <1>7, <1>8, <1>9, <1>10, <1>11

\* Send takes one chat off the list, whether it was reached or not.
LEMMA AlertSends ==
  ASSUME Alert!IInv, NEW d \in Workers, NEW c \in Alert!Everyone, Alert!Send(d, c)
  PROVE  Alert!IInv'
<1> USE DEF Alert!IInv
<1>a. /\ stage \in [Workers -> AlertStages]
      /\ v3 \in [Workers -> SUBSET Alert!Everyone]
      /\ v4 \in [Workers -> Alert!Everyone \cup {Off}]
  BY DEF Alert!TypeOK, AlertStages
<1>1. /\ stage[d] = "sending" /\ stage' = [stage EXCEPT ![d] = "sent"]
      /\ c \in v3[d] /\ v3' = [v3 EXCEPT ![d] = v3[d] \ {c}] /\ v4' = [v4 EXCEPT ![d] = c]
      /\ UNCHANGED <<v1, v2, v5, v6, v7, v8, v9>>
  BY DEF Alert!Send, Alert!AfterSend
<1>2. \A e \in Workers : Alert!Told(e)' = Alert!Told(e)
  BY <1>1 DEF Alert!Told
<1>3. v3[d] \subseteq v7[d] /\ Alert!Told(d) = v7[d] \ v3[d]
  BY <1>1 DEF Alert!Trying
<1>4. Alert!TypeOK'
  <2>1. stage' \in [Workers -> AlertStages]
    BY <1>a, <1>1 DEF AlertStages
  <2>2. v3' \in [Workers -> SUBSET Alert!Everyone] /\ v4' \in [Workers -> Alert!Everyone \cup {Off}]
    BY <1>a, <1>1
  <2> QED BY <1>1, <2>1, <2>2 DEF Alert!TypeOK, AlertStages
<1>5. Alert!OffAreOff' /\ Alert!OptOutIsRespected'
  BY <1>1 DEF Alert!OffAreOff, Alert!OptOutIsRespected
<1>6. Alert!NotYet' /\ Alert!EveryRecipientTried'
  BY <1>a, <1>1, <1>2 DEF Alert!NotYet, Alert!EveryRecipientTried
<1>7. Alert!Trying'
  BY <1>a, <1>1, <1>2 DEF Alert!Trying
<1>8. Alert!Tried'
  BY <1>a, <1>1, <1>2, <1>3 DEF Alert!Tried
<1> QED BY <1>4, <1>5, <1>6, <1>7, <1>8

\* Record adds the row of the chat just tried, which has none yet.
LEMMA AlertRecords ==
  ASSUME Alert!IInv, NEW d \in Workers, Alert!Record(d)
  PROVE  Alert!IInv'
<1> USE DEF Alert!IInv
<1>a. /\ stage \in [Workers -> AlertStages] /\ v1 \in 0 .. MaxTime
      /\ v2 \in [Workers -> Alert!Signals] /\ v5 \subseteq Alert!EventRows
      /\ v4 \in [Workers -> Alert!Everyone \cup {Off}]
  BY DEF Alert!TypeOK, AlertStages
<1>1. /\ stage[d] = "sent" /\ stage' = [stage EXCEPT ![d] = IF v3[d] = {} THEN "done" ELSE "sending"]
      /\ v5' = v5 \cup {Alert!Row(d)}
      /\ UNCHANGED <<v1, v2, v3, v4, v6, v7, v8, v9>>
  BY DEF Alert!Record
<1>2. /\ Alert!Row(d) \in Alert!EventRows /\ Alert!Row(d).dispatch = d
      /\ Alert!Row(d).chat = v4[d] /\ Alert!Row(d).at = v1
  BY <1>a DEF Alert!Row, Alert!EventRows, Alert!Signals
<1>3. /\ Alert!Told(d)' = Alert!Told(d) \cup {v4[d]}
      /\ \A e \in Workers \ {d} : Alert!Told(e)' = Alert!Told(e)
  BY <1>1, <1>2 DEF Alert!Told
<1>4. v4[d] \notin Alert!Told(d)
  BY <1>1 DEF Alert!Tried
<1>5. Alert!TypeOK'
  <2>1. stage' \in [Workers -> AlertStages]
    BY <1>a, <1>1 DEF AlertStages, Alert!Ended
  <2>2. \A e \in v5' : e.at <= v1'
    BY <1>a, <1>1, <1>2 DEF Alert!TypeOK
  <2>3. \A e, f \in v5' : e.dispatch = f.dispatch /\ e.chat = f.chat => e = f
    <3>1. \A e \in v5 : ~(e.dispatch = d /\ e.chat = v4[d])
      BY <1>4 DEF Alert!Told
    <3> QED BY <3>1, <1>1, <1>2 DEF Alert!TypeOK
  <2> QED BY <1>1, <1>2, <2>1, <2>2, <2>3 DEF Alert!TypeOK, AlertStages
<1>6. Alert!OffAreOff' /\ Alert!OptOutIsRespected'
  BY <1>1 DEF Alert!OffAreOff, Alert!OptOutIsRespected
<1>7. Alert!NotYet'
  BY <1>a, <1>1, <1>3 DEF Alert!NotYet
<1>8. Alert!Trying'
  BY <1>a, <1>1, <1>3 DEF Alert!Trying, Alert!Tried
<1>9. Alert!Tried'
  BY <1>a, <1>1, <1>3 DEF Alert!Tried
<1>10. Alert!EveryRecipientTried'
  <2>1. ASSUME v3[d] = {} PROVE Alert!Told(d)' = IF v7[d] = {} THEN {Off} ELSE v7[d]
    <3>1. CASE v7[d] = {}
      BY <3>1, <1>1, <1>3 DEF Alert!Tried
    <3>2. CASE v7[d] # {}
      <4>1. v4[d] \in v7[d] /\ Alert!Told(d) = v7[d] \ {v4[d]}
        BY <3>2, <2>1, <1>1 DEF Alert!Tried
      <4> QED BY <4>1, <3>2, <1>3
    <3> QED BY <3>1, <3>2
  <2> QED BY <2>1, <1>a, <1>1, <1>3 DEF Alert!EveryRecipientTried
<1> QED BY <1>5, <1>6, <1>7, <1>8, <1>9, <1>10

\* Toggle changes who is on, Tick the time.
LEMMA AlertAround ==
  ASSUME Alert!IInv, Alert!Tick \/ \E c \in UserChats : Alert!Toggle(c)
  PROVE  Alert!IInv'
<1> USE MessagesAssumption DEF Alert!IInv, Alert!ConstantsOK
<1>1. UNCHANGED <<stage, v2, v3, v4, v5, v7, v9>>
  BY DEF Alert!Tick, Alert!Toggle
<1>2. \A e \in Workers : Alert!Told(e)' = Alert!Told(e)
  BY <1>1 DEF Alert!Told
<1>3. Alert!NotYet' /\ Alert!Trying' /\ Alert!Tried' /\ Alert!EveryRecipientTried'
  BY <1>1, <1>2 DEF Alert!NotYet, Alert!Trying, Alert!Tried, Alert!EveryRecipientTried
<1>4. CASE Alert!Tick
  <2>1. v1' \in 0 .. MaxTime /\ v1 \in 0 .. MaxTime /\ v1' = v1 + 1 /\ UNCHANGED <<v6, v8>>
    BY <1>4 DEF Alert!Tick, Alert!TypeOK
  <2>2. \A e \in v5' : e.at <= v1'
    <3>1. \A e \in v5 : e.at \in Nat /\ e.at <= v1
      BY DEF Alert!TypeOK, Alert!EventRows
    <3> QED BY <3>1, <2>1, <1>1
  <2>3. Alert!TypeOK'
    BY <1>1, <2>1, <2>2 DEF Alert!TypeOK
  <2>4. Alert!OffAreOff' /\ Alert!OptOutIsRespected'
    BY <1>1, <2>1 DEF Alert!OffAreOff, Alert!OptOutIsRespected
  <2> QED BY <1>3, <2>3, <2>4
<1>5. ASSUME NEW c \in UserChats, Alert!Toggle(c) PROVE Alert!IInv'
  <2>1. v1' = v1 /\ v6 \in [UserChats -> BOOLEAN] /\ v8 \in [Workers -> SUBSET UserChats]
    BY <1>5 DEF Alert!Toggle, Alert!TypeOK
  <2>2. v6' \in [UserChats -> BOOLEAN] /\ \A b \in UserChats \ {c} : v6'[b] = v6[b]
    BY <1>5, <2>1 DEF Alert!Toggle
  <2>3. v8' \in [Workers -> SUBSET UserChats] /\ \A d \in Workers : v8'[d] = v8[d] \ {c}
    BY <1>5, <2>1 DEF Alert!Toggle
  <2>4. Alert!TypeOK'
    BY <1>1, <2>1, <2>2, <2>3 DEF Alert!TypeOK
  <2>5. Alert!OffAreOff'
    BY <2>1, <2>2, <2>3 DEF Alert!OffAreOff
  <2>6. Alert!OptOutIsRespected'
    BY <1>1, <2>3 DEF Alert!OptOutIsRespected
  <2> QED BY <1>3, <2>4, <2>5, <2>6
<1> QED BY <1>4, <1>5

\* stands over each step,
LEMMA AlertKeeps == Alert!IInv /\ Alert!Next => Alert!IInv'
<1> QED BY AlertMoves, AlertSetsOut, AlertSends, AlertRecords, AlertAround DEF Alert!Next

\* What RepeatsOnlyByOverlap rests on besides: it holds at first, with no row,
LEMMA HistoryInit == Alert!Init => Alert!HInv
  BY DEF Alert!Init, Alert!HInv, Alert!RowsTellSignals, Alert!EarlierHaveEnded,
         Alert!DecidedOnTheLatest, Alert!RepeatsOnlyByOverlap

\* Numbers that are compared.
LEMMA AlertNumbers ==
  ASSUME Alert!TypeOK
  PROVE  /\ v1 \in Nat /\ Cooldown \in Nat /\ ConfDelta \in Nat \ {0}
         /\ \A x \in v5 : /\ x.dispatch \in Workers /\ x.at \in Nat /\ x.at <= v1
                          /\ x.severity \in Nat /\ x.conf \in Nat
         /\ \A d \in Workers : v2[d].severity \in Nat /\ v2[d].conf \in Nat
  BY MessagesAssumption DEF Alert!ConstantsOK, Alert!TypeOK, Alert!EventRows, Alert!Signals

\* What has ended does not go on.
LEMMA EndedStays ==
  ASSUME Alert!TypeOK, Alert!Next, NEW e \in Workers, stage[e] \in Alert!Ended
  PROVE  stage'[e] \in Alert!Ended /\ stage'[e] = stage[e]
<1>a. stage \in [Workers -> AlertStages]
  BY DEF Alert!TypeOK, AlertStages
<1>1. ASSUME NEW d \in Workers,
             \/ Alert!Fire(d) \/ Alert!LookUp(d) \/ Alert!ReadSubscribers(d)
             \/ Alert!Record(d) \/ Alert!Fails(d) \/ \E c \in Alert!Everyone : Alert!Send(d, c)
      PROVE  stage'[e] = stage[e]
  BY <1>1, <1>a DEF Alert!Fire, Alert!LookUp, Alert!ReadSubscribers, Alert!Record,
                    Alert!Fails, Alert!Send, Alert!Ended
<1>2. Alert!Crash \/ Alert!Tick \/ (\E c \in UserChats : Alert!Toggle(c)) => stage'[e] = stage[e]
  BY <1>a DEF Alert!Crash, Alert!Tick, Alert!Toggle
<1> QED BY <1>1, <1>2 DEF Alert!Next

\* LookUp decides on the latest row of the key: one that d repeats, of a dispatch that
\* had ended, is no later.
LEMMA HistoryLookUp ==
  ASSUME Alert!IInv, Alert!HInv, NEW d \in Workers, Alert!LookUp(d)
  PROVE  Alert!HInv'
<1> USE DEF Alert!IInv, Alert!HInv
<1>a. /\ stage \in [Workers -> AlertStages] /\ v9 \in [Workers -> SUBSET Workers]
  BY DEF Alert!TypeOK, AlertStages
<1> DEFINE Over == {e \in Workers : stage[e] \in Alert!Ended}
<1>1. /\ stage[d] = "fired" /\ v9' = [v9 EXCEPT ![d] = Over]
      /\ UNCHANGED <<v1, v2, v3, v4, v5, v6, v7, v8>>
  BY DEF Alert!LookUp
<1>2. /\ stage'[d] \in {"due", "silent"}
      /\ \A e \in Workers \ {d} : stage'[e] = stage[e] /\ v9'[e] = v9[e]
  BY <1>a, <1>1 DEF Alert!LookUp
<1>3. Alert!RowsTellSignals'
  BY <1>1 DEF Alert!RowsTellSignals
<1>4. Alert!EarlierHaveEnded'
  BY <1>a, <1>1, <1>2 DEF Alert!EarlierHaveEnded, Alert!Ended
<1>5. Alert!DecidedOnTheLatest'
  <2>1. ASSUME stage'[d] # "silent", NEW x \in v5, x.key = v2[d].key,
               Alert!Repeats(v2[d], x), v1 - x.at < Cooldown
        PROVE  \E z \in v5 : z.key = x.key /\ z.at >= x.at /\ ~Alert!Repeats(v2[d], z)
    <3>1. x \in Alert!OfKey(d) /\ stage'[d] = "due"
      BY <2>1, <1>2 DEF Alert!OfKey
    <3>2. PICK z \in Alert!Latest(Alert!OfKey(d)) : Alert!Retriggers(v2[d], z)
      <4>1. PICK answer \in {Alert!Retriggers(v2[d], e) : e \in Alert!Latest(Alert!OfKey(d))} :
              stage' = [stage EXCEPT ![d] = IF answer THEN "due" ELSE "silent"]
        BY <3>1 DEF Alert!LookUp
      <4>2. PICK z \in Alert!Latest(Alert!OfKey(d)) : answer = Alert!Retriggers(v2[d], z)
        BY <4>1
      <4>3. answer
        BY <4>1, <3>1, <1>a
      <4> QED BY <4>2, <4>3
    <3>3. z \in v5 /\ z.key = v2[d].key /\ z.at >= x.at
      <4>1. z \in Alert!OfKey(d) /\ x.at <= z.at
        BY <3>1 DEF Alert!Latest
      <4>2. z \in v5 /\ z.key = v2[d].key
        BY <4>1 DEF Alert!OfKey
      <4> QED BY <4>1, <4>2, AlertNumbers
    <3>4. ~(v1 - z.at >= Cooldown)
      BY <2>1, <3>3, AlertNumbers
    <3>5. ~Alert!Repeats(v2[d], z)
      <4>1. Alert!Apart(v2[d].conf, z.conf) \in Nat
        BY <3>3, AlertNumbers DEF Alert!Apart
      <4>2. v2[d].severity > z.severity \/ Alert!Apart(v2[d].conf, z.conf) >= ConfDelta
        BY <3>2, <3>4 DEF Alert!Retriggers
      <4> QED BY <4>1, <4>2, <3>3, AlertNumbers DEF Alert!Repeats
    <3> QED BY <2>1, <3>3, <3>5
  <2>2. ASSUME NEW x \in v5 PROVE v1 - x.at < Cooldown \/ v1 - x.at >= Cooldown
    BY <2>2, AlertNumbers
  <2> QED BY <2>1, <2>2, <1>1, <1>2 DEF Alert!DecidedOnTheLatest, Alert!Repeats, Alert!Apart
<1>6. Alert!RepeatsOnlyByOverlap'
  <2>1. \A y \in v5 : y.dispatch # d
    BY <1>1 DEF Alert!NotYet, Alert!Told
  <2>2. \A y \in v5 : v9'[y.dispatch] = v9[y.dispatch]
    BY <2>1, <1>2, AlertNumbers
  <2> QED BY <1>1, <2>2 DEF Alert!RepeatsOnlyByOverlap, Alert!Repeats, Alert!Apart
<1> QED BY <1>3, <1>4, <1>5, <1>6

\* Record adds a row of a dispatch that has not ended, which alerts because it had
\* decided to.
LEMMA HistoryRecord ==
  ASSUME Alert!IInv, Alert!HInv, NEW d \in Workers, Alert!Record(d)
  PROVE  Alert!HInv'
<1> USE DEF Alert!IInv, Alert!HInv
<1>a. /\ stage \in [Workers -> AlertStages] /\ v9 \in [Workers -> SUBSET Workers]
      /\ Alert!TypeOK
  BY DEF Alert!TypeOK, AlertStages
<1> DEFINE r == Alert!Row(d)
<1>1. /\ stage[d] = "sent" /\ v5' = v5 \cup {r}
      /\ UNCHANGED <<v1, v2, v3, v4, v6, v7, v8, v9>>
  BY DEF Alert!Record
<1>2. /\ r.dispatch = d /\ r.key = v2[d].key /\ r.severity = v2[d].severity
      /\ r.conf = v2[d].conf /\ r.at = v1
  BY DEF Alert!Row
<1> HIDE DEF r
<1>3. /\ \A e \in Workers \ {d} : stage'[e] = stage[e]
      /\ stage'[d] \in {"done", "sending"}
  BY <1>a DEF Alert!Record
<1>4. \A e \in Workers : d \notin v9[e]
  BY <1>1 DEF Alert!EarlierHaveEnded, Alert!Ended
<1>5. Alert!RowsTellSignals'
  BY <1>1, <1>2 DEF Alert!RowsTellSignals
<1>6. Alert!EarlierHaveEnded'
  BY <1>1, <1>3, <1>4, <1>a DEF Alert!EarlierHaveEnded
<1>7. Alert!DecidedOnTheLatest'
  <2> SUFFICES ASSUME NEW e \in Workers, stage'[e] # "silent", NEW x \in v5',
                      x.dispatch \in v9[e], x.key = v2[e].key, Alert!Repeats(v2[e], x)
               PROVE  \/ v1 - x.at >= Cooldown
                      \/ \E z \in v5' : z.key = x.key /\ z.at >= x.at /\ ~Alert!Repeats(v2[e], z)
    BY <1>1 DEF Alert!DecidedOnTheLatest, Alert!Repeats, Alert!Apart
  <2>1. x \in v5
    BY <1>1, <1>2, <1>4
  <2>2. stage[e] # "silent"
    BY <1>1, <1>3
  <2> QED BY <2>1, <2>2, <1>1 DEF Alert!DecidedOnTheLatest
<1>8. Alert!RepeatsOnlyByOverlap'
  <2> SUFFICES ASSUME NEW x \in v5', NEW y \in v5', x.key = y.key,
                      x.dispatch \in v9[y.dispatch], y.at - x.at < Cooldown, Alert!Repeats(y, x)
               PROVE  \E z \in v5' : z.key = y.key /\ z.at \in x.at .. y.at /\ ~Alert!Repeats(y, z)
    BY <1>1 DEF Alert!RepeatsOnlyByOverlap, Alert!Repeats, Alert!Apart
  <2>1. x \in v5
    BY <1>1, <1>2, <1>4, AlertNumbers
  <2>2. CASE y \in v5
    BY <2>1, <2>2, <1>1 DEF Alert!RepeatsOnlyByOverlap
  <2>3. CASE y = r
    <3>1. \A z : Alert!Repeats(y, z) <=> Alert!Repeats(v2[d], z)
      BY <2>3, <1>2 DEF Alert!Repeats
    <3>2. PICK z \in v5 : z.key = x.key /\ z.at >= x.at /\ ~Alert!Repeats(v2[d], z)
      <4>1. ~(v1 - x.at >= Cooldown)
        BY <2>1, <2>3, <1>2, AlertNumbers, <1>a
      <4>2. x.dispatch \in v9[d] /\ x.key = v2[d].key /\ Alert!Repeats(v2[d], x) /\ stage[d] # "silent"
        BY <3>1, <2>3, <1>1, <1>2
      <4> QED BY <4>1, <4>2, <2>1 DEF Alert!DecidedOnTheLatest
    <3>3. z.at \in x.at .. y.at
      BY <2>1, <2>3, <3>2, <1>2, AlertNumbers, <1>a
    <3> QED BY <3>1, <3>2, <3>3, <1>1
  <2> QED BY <2>2, <2>3, <1>1
<1> QED BY <1>5, <1>6, <1>7, <1>8

\* Every other step leaves rows, signals and what had ended alone, silences nobody, and
\* takes the clock forward only.
LEMMA HistoryRests ==
  ASSUME Alert!IInv, Alert!HInv, UNCHANGED <<v2, v5, v9>>, v1' = v1 \/ v1' = v1 + 1,
         \A e \in Workers : /\ stage'[e] = "silent" <=> stage[e] = "silent"
                            /\ stage[e] \in Alert!Ended => stage'[e] \in Alert!Ended
  PROVE  Alert!HInv'
<1> USE DEF Alert!IInv, Alert!HInv
<1>a. v9 \in [Workers -> SUBSET Workers] /\ Alert!TypeOK
  BY DEF Alert!TypeOK
<1>1. Alert!RowsTellSignals'
  BY DEF Alert!RowsTellSignals
<1>2. Alert!EarlierHaveEnded'
  BY <1>a DEF Alert!EarlierHaveEnded
<1>3. Alert!DecidedOnTheLatest'
  <2> SUFFICES ASSUME NEW e \in Workers, stage[e] # "silent", NEW x \in v5,
                      x.dispatch \in v9[e], x.key = v2[e].key, Alert!Repeats(v2[e], x)
               PROVE  \/ v1' - x.at >= Cooldown
                      \/ \E z \in v5 : z.key = x.key /\ z.at >= x.at /\ ~Alert!Repeats(v2[e], z)
    BY DEF Alert!DecidedOnTheLatest, Alert!Repeats, Alert!Apart
  <2>1. v1 - x.at >= Cooldown => v1' - x.at >= Cooldown
    BY AlertNumbers, <1>a
  <2> QED BY <2>1 DEF Alert!DecidedOnTheLatest
<1>4. Alert!RepeatsOnlyByOverlap'
  BY DEF Alert!RepeatsOnlyByOverlap, Alert!Repeats, Alert!Apart
<1> QED BY <1>1, <1>2, <1>3, <1>4

\* so that it stands over each step,
LEMMA HistoryKeeps == Alert!IInv /\ Alert!HInv /\ Alert!Next => Alert!HInv'
<1> SUFFICES ASSUME Alert!IInv, Alert!HInv, Alert!Next PROVE Alert!HInv'
  OBVIOUS
<1>a. stage \in [Workers -> AlertStages] /\ Alert!TypeOK
  BY DEF Alert!IInv, Alert!TypeOK, AlertStages
<1>b. \A e \in Workers : stage[e] \in Alert!Ended => stage'[e] = stage[e] /\ stage'[e] \in Alert!Ended
  BY EndedStays, <1>a
<1>1. ASSUME NEW d \in Workers,
             \/ Alert!Fire(d) \/ Alert!ReadSubscribers(d) \/ Alert!Fails(d)
             \/ \E c \in Alert!Everyone : Alert!Send(d, c)
      PROVE  Alert!HInv'
  <2>1. UNCHANGED <<v1, v2, v5, v9>> /\ \A e \in Workers : stage'[e] = "silent" => stage[e] = "silent"
    BY <1>1, <1>a DEF Alert!Fire, Alert!ReadSubscribers, Alert!Fails, Alert!Send
  <2>2. \A e \in Workers : stage[e] = "silent" => stage'[e] = "silent"
    BY <1>b DEF Alert!Ended
  <2> QED BY <2>1, <2>2, <1>b, HistoryRests
<1>2. CASE Alert!Crash \/ Alert!Tick \/ \E c \in UserChats : Alert!Toggle(c)
  <2>1. UNCHANGED <<v2, v5, v9>> /\ (v1' = v1 \/ v1' = v1 + 1)
    BY <1>2 DEF Alert!Crash, Alert!Tick, Alert!Toggle
  <2>2. \A e \in Workers : stage'[e] = "silent" => stage[e] = "silent"
    BY <1>2, <1>a DEF Alert!Crash, Alert!Tick, Alert!Toggle
  <2>3. \A e \in Workers : stage[e] = "silent" => stage'[e] = "silent"
    BY <1>b DEF Alert!Ended
  <2> QED BY <2>1, <2>2, <2>3, <1>b, HistoryRests
<1> QED BY <1>1, <1>2, HistoryLookUp, HistoryRecord DEF Alert!Next

\* and while another member is played.
LEMMA AlertRests ==
  Alert!IInv /\ Alert!HInv /\ UNCHANGED slots => Alert!IInv' /\ Alert!HInv'
<1> SUFFICES ASSUME Alert!IInv, Alert!HInv, UNCHANGED slots PROVE Alert!IInv' /\ Alert!HInv'
  OBVIOUS
<1> USE DEF Alert!IInv, slots, over9
<1>1. Alert!TypeOK'
  BY DEF Alert!TypeOK
<1>2. Alert!OffAreOff' /\ Alert!OptOutIsRespected'
  BY DEF Alert!OffAreOff, Alert!OptOutIsRespected
<1>3. \A d \in Workers : Alert!Told(d)' = Alert!Told(d)
  BY DEF Alert!Told
<1>4. Alert!NotYet' /\ Alert!Trying' /\ Alert!Tried' /\ Alert!EveryRecipientTried'
  BY <1>3 DEF Alert!NotYet, Alert!Trying, Alert!Tried, Alert!EveryRecipientTried
<1>5. Alert!HInv'
  BY HistoryRests
<1> QED BY <1>1, <1>2, <1>4, <1>5

\* The alerts' invariant, whenever they are played.
LEMMA AlertInductive == MessagesSpec => [](playing = "alert" => Alert!IInv /\ Alert!HInv)
<1> DEFINE Played == playing = "alert" => Alert!IInv /\ Alert!HInv
<1>1. MessagesInit => Played
  BY AlertInit, HistoryInit DEF MessagesInit
<1>2. Played /\ [MessagesNext]_all => Played'
  <2> SUFFICES ASSUME Played, [MessagesNext]_all, playing' = "alert"
               PROVE  Alert!IInv' /\ Alert!HInv'
    OBVIOUS
  <2>1. playing = "alert" /\ (Alert!Next \/ UNCHANGED slots)
    BY DEF MessagesNext, all
  <2> QED BY <2>1, AlertKeeps, HistoryKeeps, AlertRests
<1> QED BY <1>1, <1>2, PTL DEF MessagesSpec

\* Whatever is in flight, a chat that switched alerts off before a signal fired, and
\* not on again, is not among those dispatchAlert sets out for.
THEOREM OptOutStands == MessagesSpec => []OptOutIsRespected
<1>1. (playing = "alert" => Alert!IInv /\ Alert!HInv) => OptOutIsRespected
  BY DEF OptOutIsRespected, Alert!IInv
<1> QED BY <1>1, AlertInductive, PTL

\* However many chats cannot be reached, a dispatch that completes has tried and
\* recorded every recipient it set out for.
THEOREM NobodyIsSkipped == MessagesSpec => []EveryRecipientTried
<1>1. (playing = "alert" => Alert!IInv /\ Alert!HInv) => EveryRecipientTried
  BY DEF EveryRecipientTried, Alert!IInv
<1> QED BY <1>1, AlertInductive, PTL

\* However many dispatches race, fail or die, the same thing is told twice within a
\* cooldown only by two that overlap, or with another alert of the key in between.
THEOREM RepeatsOverlap == MessagesSpec => []RepeatsOnlyByOverlap
<1>1. (playing = "alert" => Alert!IInv /\ Alert!HInv) => RepeatsOnlyByOverlap
  BY DEF RepeatsOnlyByOverlap, Alert!HInv
<1> QED BY <1>1, AlertInductive, PTL
-----------------------------------------------------------------------------
(* The daily scan, proved in a module of its own. *)

DailyLemmas == INSTANCE CoinScanProofs WITH
  Runs <- Workers, LastDay <- LastScanDay, pc <- stage,
  day <- v1, rows <- v2, now <- v3, asked <- v4, got <- v5, seen <- v6, dropped <- v7,
  added <- v8, job <- v9, told <- v10, faults <- v11, overlaps <- v12

\* Those proofs are about the scan that Messages plays.
LEMMA SameScan ==
  /\ Scan!ConstantsOK <=> DailyLemmas!ConstantsOK
  /\ Scan!Init <=> DailyLemmas!Init
  /\ Scan!Next <=> DailyLemmas!Next
  /\ UNCHANGED slots => UNCHANGED DailyLemmas!vars
<1>1. Scan!ConstantsOK <=> DailyLemmas!ConstantsOK
  BY DEF Scan!ConstantsOK, DailyLemmas!ConstantsOK
<1>2. UNCHANGED slots => UNCHANGED DailyLemmas!vars
  BY DEF slots, over9, DailyLemmas!vars, DailyLemmas!store
<1>3. /\ Scan!NoScan = DailyLemmas!NoScan /\ Scan!Unasked = DailyLemmas!Unasked
      /\ Scan!Days = DailyLemmas!Days /\ Scan!Answers = DailyLemmas!Answers
  BY DEF Scan!NoScan, Scan!Unasked, Scan!Silence, Scan!Days, Scan!Answers, Scan!Universes, Scan!Coins,
       DailyLemmas!NoScan, DailyLemmas!Unasked, DailyLemmas!Silence, DailyLemmas!Days,
       DailyLemmas!Answers, DailyLemmas!Universes, DailyLemmas!Coins
<1>4. Scan!Init <=> DailyLemmas!Init
  BY <1>3 DEF Scan!Init, DailyLemmas!Init
<1>5. ASSUME NEW r
      PROVE  /\ Scan!Tick(r) <=> DailyLemmas!Tick(r)
             /\ Scan!AskBinance(r) <=> DailyLemmas!AskBinance(r)
             /\ Scan!AskOkx(r) <=> DailyLemmas!AskOkx(r)
  BY <1>3 DEF Scan!Tick, Scan!Due, Scan!Stored, Scan!Goto, Scan!store, Scan!AskBinance, Scan!AskOkx,
       Scan!Keep, Scan!Better, DailyLemmas!Tick, DailyLemmas!Due, DailyLemmas!Stored,
       DailyLemmas!Goto, DailyLemmas!store, DailyLemmas!AskBinance, DailyLemmas!AskOkx,
       DailyLemmas!Keep, DailyLemmas!Better
<1>6. ASSUME NEW r PROVE Scan!Ends(r) <=> DailyLemmas!Ends(r)
  BY <1>3 DEF Scan!Ends, Scan!Goto, DailyLemmas!Ends, DailyLemmas!Goto
<1>7. ASSUME NEW r, NEW row
      PROVE  /\ Scan!Held(r, row) <=> DailyLemmas!Held(r, row)
             /\ Scan!Taken(r, row) <=> DailyLemmas!Taken(r, row)
  BY DEF Scan!Held, Scan!Taken, Scan!SameKey, DailyLemmas!Held, DailyLemmas!Taken, DailyLemmas!SameKey
<1>8. ASSUME NEW r
      PROVE  /\ Scan!Missing(r) = DailyLemmas!Missing(r)
             /\ \A c : Scan!Inserted(r, c) = DailyLemmas!Inserted(r, c)
  BY DEF Scan!Missing, Scan!Inserted, DailyLemmas!Missing, DailyLemmas!Inserted
<1>9. ASSUME NEW r
      PROVE  /\ Scan!LookForRows(r) <=> DailyLemmas!LookForRows(r)
             /\ Scan!DeleteRows(r) <=> DailyLemmas!DeleteRows(r)
             /\ Scan!Insert(r) <=> DailyLemmas!Insert(r)
             /\ Scan!Commit(r) <=> DailyLemmas!Commit(r)
  BY <1>3, <1>7, <1>8 DEF Scan!LookForRows, Scan!DeleteRows, Scan!Insert, Scan!Commit, Scan!Goto,
       DailyLemmas!LookForRows, DailyLemmas!DeleteRows, DailyLemmas!Insert, DailyLemmas!Commit,
       DailyLemmas!Goto
<1>10. ASSUME NEW r
       PROVE  /\ Scan!Conflict(r) <=> DailyLemmas!Conflict(r)
              /\ Scan!Deadlock(r) <=> DailyLemmas!Deadlock(r)
              /\ Scan!ScanFails(r) <=> DailyLemmas!ScanFails(r)
              /\ Scan!QueryFails(r) <=> DailyLemmas!QueryFails(r)
              /\ Scan!Dies(r) <=> DailyLemmas!Dies(r)
  BY <1>6, <1>7, <1>8 DEF Scan!Conflict, Scan!Deadlock, Scan!ScanFails, Scan!QueryFails, Scan!Dies,
       Scan!GiveUp, Scan!Faulty, Scan!SameKey, DailyLemmas!Conflict, DailyLemmas!Deadlock,
       DailyLemmas!ScanFails, DailyLemmas!QueryFails, DailyLemmas!Dies, DailyLemmas!GiveUp,
       DailyLemmas!Faulty, DailyLemmas!SameKey
<1>11. ASSUME NEW d PROVE Scan!ExchangesOf(d) = DailyLemmas!ExchangesOf(d)
  BY DEF Scan!ExchangesOf, DailyLemmas!ExchangesOf
<1>12. ASSUME NEW r
       PROVE  /\ Scan!Record(r) <=> DailyLemmas!Record(r)
              /\ Scan!Watch(r) <=> DailyLemmas!Watch(r)
              /\ Scan!Send(r) <=> DailyLemmas!Send(r)
  BY <1>6, <1>11 DEF Scan!Record, Scan!Watch, Scan!Send, Scan!Goto, Scan!store,
       DailyLemmas!Record, DailyLemmas!Watch, DailyLemmas!Send, DailyLemmas!Goto, DailyLemmas!store
<1>13. Scan!DayCloses <=> DailyLemmas!DayCloses
  BY DEF Scan!DayCloses, Scan!store, DailyLemmas!DayCloses, DailyLemmas!store
<1> QED BY <1>1, <1>2, <1>4, <1>5, <1>9, <1>10, <1>12, <1>13 DEF Scan!Next, Scan!Step,
           DailyLemmas!Next, DailyLemmas!Step

\* So are the properties of it.
LEMMA SameScanProperties ==
  /\ Scan!StoredDayIsOneScan <=> DailyLemmas!StoredDayIsOneScan
  /\ Scan!BestOfOneExchange <=> DailyLemmas!BestOfOneExchange
  /\ Scan!DayStands <=> DailyLemmas!DayStands
BY DEF Scan!StoredDayIsOneScan, Scan!DayRows, Scan!WholeScan, Scan!BestOfOneExchange, Scan!DayStands,
     Scan!Days, Scan!Stored, DailyLemmas!StoredDayIsOneScan, DailyLemmas!DayRows,
     DailyLemmas!WholeScan, DailyLemmas!BestOfOneExchange, DailyLemmas!DayStands, DailyLemmas!Days,
     DailyLemmas!Stored

\* The scan's invariant, whenever it is played.
LEMMA ScanInductive == MessagesSpec => [](playing = "scan" => DailyLemmas!IInv)
<1> DEFINE Played == playing = "scan" => DailyLemmas!IInv
<1>1. MessagesInit => Played
  BY MessagesAssumption, SameScan, DailyLemmas!InitHolds DEF MessagesInit
<1>2. Played /\ [MessagesNext]_all => Played'
  <2> SUFFICES ASSUME Played, [MessagesNext]_all, playing' = "scan" PROVE DailyLemmas!IInv'
    OBVIOUS
  <2>1. playing = "scan" /\ (Scan!Next \/ UNCHANGED slots)
    BY DEF MessagesNext, all
  <2>2. DailyLemmas!Next \/ UNCHANGED DailyLemmas!vars
    BY <2>1, SameScan
  <2> QED BY <2>1, <2>2, MessagesAssumption, SameScan, DailyLemmas!NextKeeps, DailyLemmas!RestKeeps
<1> QED BY <1>1, <1>2, PTL DEF MessagesSpec

\* Whichever runs overlap, fail, deadlock or die in saveCoinScan, the rows of a day are
\* those of one scan, of the best exchange that answered.
THEOREM DayIsOneScan == MessagesSpec => []StoredDayIsOneScan
<1>1. (playing = "scan" => DailyLemmas!IInv) => StoredDayIsOneScan
  BY SameScanProperties DEF StoredDayIsOneScan, DailyLemmas!IInv
<1> QED BY <1>1, ScanInductive, PTL

\* No step leaves a stored day without rows, not even while it is overwritten.
THEOREM StoredDaysStand == MessagesSpec => DayStaysStored
<1> DEFINE Stands == playing = "scan" => Scan!DayStands
<1>1. (playing = "scan" => DailyLemmas!IInv) /\ [MessagesNext]_all => [Stands]_all
  <2> SUFFICES ASSUME playing = "scan", DailyLemmas!IInv, MessagesNext PROVE Scan!DayStands
    OBVIOUS
  <2>1. DailyLemmas!Next
    BY SameScan DEF MessagesNext
  <2> QED BY <2>1, MessagesAssumption, SameScan, SameScanProperties, DailyLemmas!StandsOver
<1> QED BY <1>1, ScanInductive, PTL DEF MessagesSpec, DayStaysStored
=============================================================================
