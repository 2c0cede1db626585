-------------------------- MODULE SignalOutcomesProofs --------------------------
(***************************************************************************)
(* Proofs about the outcomes of signals, for any number of signals, passes *)
(* and horizons, and any candles, however late they are stored.            *)
(***************************************************************************)
EXTENDS SignalOutcomes, WellFoundedInduction, TLAPS

\* A set of times or horizons that is not empty has a least one.
LEMMA Least ==
  ASSUME NEW S \in SUBSET Nat, S # {}
  PROVE  \E t \in S : \A u \in S : t <= u
<1> DEFINE R == OpToRel(<, Nat)
<1>1. IsWellFoundedOn(R, Nat)
  BY NatLessThanWellFounded
<1>2. \A x, y \in Nat : y < x => <<y, x>> \in R
  BY DEF OpToRel
<1> HIDE DEF R
<1>3. PICK t \in S : \A u \in S : ~ (<<u, t>> \in R)
  BY <1>1, WFMin
<1>4. ASSUME NEW u \in S PROVE t <= u
  <2>1. ~(u < t)
    BY <1>2, <1>3
  <2> QED BY <2>1
<1> QED BY <1>4

\* There is a shortest horizon.
LEMMA ShortestTyped == ASSUME ConstantsOK PROVE Shortest \in Horizons
<1>1. \E h \in Horizons : \A k \in Horizons : h <= k
  BY Least DEF ConstantsOK
<1> QED BY <1>1 DEF Shortest

\* The candle that answers is one of those that may.
LEMMA AnswerAnswers ==
  ASSUME NEW s \in Signals, NEW h \in Horizons, candles \in SUBSET Nat, Answers(s, h) # {}
  PROVE  Answer(s, h) \in Answers(s, h)
<1>1. \E t \in Answers(s, h) : \A u \in Answers(s, h) : t <= u
  BY Least DEF Answers
<1> QED BY <1>1 DEF Answer
-----------------------------------------------------------------------------
(* The window of a price, given when the signals fired. *)

InWindow(fired, s, h, t) == fired[s] + h <= t /\ t <= fired[s] + h + Look

\* What a pass is about to record is of the window it stands for, and so is what
\* was recorded, of a signal with a row.
WindowInv ==
  /\ ConstantsOK /\ TypeOK
  /\ batch \in [Runs -> SUBSET (Signals \X Times)]
  /\ \A r \in Runs : pc[r] # "record" => batch[r] = {}
  /\ \A r \in Runs : \A b \in batch[r] : InWindow(at, b[1], horizon[r], b[2])
  /\ \A s \in Signals, h \in Horizons :
       price[s][h] # None => s \in row /\ InWindow(at, s, h, price[s][h])

\* The rows and candles only grow, and a signal with a row stands.
TablesGrow ==
  /\ row \subseteq row' /\ candles \subseteq candles'
  /\ \A s \in row : at'[s] = at[s]

\* A step that leaves the passes and the prices alone.
LEMMA TablesKeep ==
  ASSUME WindowInv, TablesGrow, UNCHANGED <<price, batch, horizon, begun>>, TypeOK',
         \A r \in Runs : pc'[r] # "record" => pc[r] # "record"
  PROVE  WindowInv'
<1>1. \A r \in Runs : \A b \in batch'[r] : InWindow(at', b[1], horizon'[r], b[2])
  BY DEF WindowInv, TypeOK, TablesGrow, InWindow
<1>2. \A s \in Signals, h \in Horizons :
         price'[s][h] # None => s \in row' /\ InWindow(at', s, h, price'[s][h])
  BY DEF WindowInv, TablesGrow, InWindow
<1> QED BY <1>1, <1>2 DEF WindowInv

\* insertSignal: a new signal is priced by nothing yet.
LEMMA FiresKeep ==
  ASSUME WindowInv, NEW s \in Signals, Fire(s)
  PROVE  WindowInv'
<1>1. PICK t \in Times : at' = [at EXCEPT ![s] = t]
  BY DEF Fire
<1>2. at[s] = None /\ s \notin row
  BY DEF Fire, WindowInv, TypeOK
<1>3. at' \in [Signals -> Times \cup {None}] /\ at'[s] # None
  BY <1>1 DEF WindowInv, TypeOK, ConstantsOK
<1>4. row \subseteq row' /\ row' \subseteq row \cup {s} /\ faults' \in 0 .. MaxFaults
  BY DEF Fire, Faulty, WindowInv, TypeOK, ConstantsOK
<1>5. \A p \in row : at'[p] = at[p]
  BY <1>1, <1>2 DEF WindowInv, TypeOK
<1>6. UNCHANGED <<now, price, candles, pc, begun, horizon, batch>>
  BY DEF Fire
<1>7. row' \subseteq {p \in Signals : at'[p] # None}
  BY <1>3, <1>4, <1>5 DEF WindowInv, TypeOK
<1>8. \A r \in Runs : batch'[r] \subseteq row' \X candles'
  BY <1>4, <1>6 DEF WindowInv, TypeOK
<1>9. TypeOK'
  BY <1>3, <1>4, <1>6, <1>7, <1>8 DEF WindowInv, TypeOK
<1> QED BY <1>4, <1>5, <1>6, <1>9, TablesKeep DEF TablesGrow

\* The next horizon is one of them.
LEMMA NextHorizonTyped ==
  ASSUME ConstantsOK, TypeOK, NEW r \in Runs, NextHorizon(r)
  PROVE  /\ pc' \in [Runs -> {"idle", "read", "record"}] /\ pc'[r] # "record"
         /\ horizon' \in [Runs -> Horizons]
         /\ \A o \in Runs \ {r} : pc'[o] = pc[o] /\ horizon'[o] = horizon[o]
<1> DEFINE later == {h \in Horizons : h > horizon[r]}
           next  == CHOOSE h \in later : \A k \in later : h <= k
<1>1. CASE later = {}
  BY <1>1 DEF NextHorizon, TypeOK
<1>2. CASE later # {}
  <2>1. \E h \in later : \A k \in later : h <= k
    <3>1. later \in SUBSET Nat
      BY DEF ConstantsOK
    <3> QED BY <1>2, <3>1, Least
  <2>2. next \in Horizons
    BY <2>1
  <2>3. pc' = [pc EXCEPT ![r] = "read"] /\ horizon' = [horizon EXCEPT ![r] = next]
    BY <1>2 DEF NextHorizon
  <2> HIDE DEF next
  <2> QED BY <2>2, <2>3 DEF TypeOK
<1> QED BY <1>1, <1>2

\* A page: rows with the candles that answer for them.
LEMMA ReadKeeps ==
  ASSUME WindowInv, NEW r \in Runs, Read(r)
  PROVE  WindowInv'
<1>1. PICK P \in Pages(r) :
        /\ batch' = [batch EXCEPT ![r] = {<<s, Answer(s, horizon[r])>> : s \in P}]
        /\ IF P = {} THEN NextHorizon(r)
           ELSE pc' = [pc EXCEPT ![r] = "record"] /\ UNCHANGED horizon
  BY DEF Read
<1>2. pc[r] = "read" /\ UNCHANGED <<now, at, row, price, candles, begun, faults>>
  BY DEF Read, tables
<1>3. horizon[r] \in Horizons /\ candles \in SUBSET Nat /\ row \subseteq Signals
  BY DEF WindowInv, TypeOK, Times
<1>4. \A s \in P : s \in row /\ Answers(s, horizon[r]) # {}
  BY DEF Pages, PagesOf, Priceable, Due
<1>5. ASSUME NEW s \in P
      PROVE  /\ <<s, Answer(s, horizon[r])>> \in row \X candles
             /\ <<s, Answer(s, horizon[r])>> \in Signals \X Times
             /\ InWindow(at, s, horizon[r], Answer(s, horizon[r]))
  <2>1. Answer(s, horizon[r]) \in Answers(s, horizon[r])
    BY <1>3, <1>4, AnswerAnswers
  <2>2. candles \subseteq Times
    BY DEF WindowInv, TypeOK, Times, ConstantsOK
  <2> QED BY <1>3, <1>4, <2>1, <2>2 DEF Answers, InWindow
<1> DEFINE B == {<<s, Answer(s, horizon[r])>> : s \in P}
<1>6. B \subseteq row \X candles /\ B \subseteq Signals \X Times
  BY <1>5
<1>7. \A b \in B : InWindow(at, b[1], horizon[r], b[2])
  BY <1>5
<1>8. P = {} => B = {}
  OBVIOUS
<1>9. batch' = [batch EXCEPT ![r] = B]
  BY <1>1
<1> HIDE DEF B
<1>10. /\ batch' \in [Runs -> SUBSET (Signals \X Times)] /\ batch'[r] = B
       /\ \A o \in Runs \ {r} : batch'[o] = batch[o]
  BY <1>6, <1>9 DEF WindowInv
<1>11. \A o \in Runs : batch'[o] \subseteq row' \X candles'
  BY <1>2, <1>6, <1>10 DEF WindowInv, TypeOK
<1>12. /\ pc' \in [Runs -> {"idle", "read", "record"}] /\ horizon' \in [Runs -> Horizons]
       /\ \A o \in Runs \ {r} : pc'[o] = pc[o] /\ horizon'[o] = horizon[o]
       /\ \/ B = {} /\ pc'[r] # "record"
          \/ pc'[r] = "record" /\ horizon'[r] = horizon[r]
  <2>1. CASE P = {}
    BY <1>1, <1>8, <2>1, NextHorizonTyped DEF WindowInv
  <2>2. CASE P # {}
    BY <1>1, <2>2 DEF WindowInv, TypeOK
  <2> QED BY <2>1, <2>2
<1>13. TypeOK'
  BY <1>2, <1>11, <1>12 DEF WindowInv, TypeOK
<1>14. \A o \in Runs : pc'[o] # "record" => batch'[o] = {}
  BY <1>10, <1>12 DEF WindowInv
<1>15. \A o \in Runs : \A b \in batch'[o] : InWindow(at', b[1], horizon'[o], b[2])
  BY <1>2, <1>7, <1>10, <1>12 DEF WindowInv, InWindow
<1>16. \A s \in Signals, h \in Horizons :
         price'[s][h] # None => s \in row' /\ InWindow(at', s, h, price'[s][h])
  BY <1>2 DEF WindowInv, InWindow
<1> QED BY <1>10, <1>13, <1>14, <1>15, <1>16 DEF WindowInv

\* recordOutcomePrice.
LEMMA RecordKeeps ==
  ASSUME WindowInv, NEW r \in Runs, Record(r)
  PROVE  WindowInv'
<1>1. PICK b \in batch[r] :
        /\ price' = [price EXCEPT ![b[1]][horizon[r]] = b[2]]
        /\ batch' = [batch EXCEPT ![r] = @ \ {b}]
        /\ IF batch[r] # {b} THEN UNCHANGED <<pc, horizon>>
           ELSE IF r \in Drains THEN pc' = [pc EXCEPT ![r] = "read"] /\ UNCHANGED horizon
           ELSE NextHorizon(r)
  BY DEF Record
<1>2. UNCHANGED <<now, at, row, candles, begun, faults>>
  BY DEF Record
<1>3. /\ horizon[r] \in Horizons /\ b[1] \in Signals /\ b[2] \in Times
      /\ b[1] \in row /\ InWindow(at, b[1], horizon[r], b[2])
  BY DEF WindowInv, TypeOK
<1>4. /\ batch' \in [Runs -> SUBSET (Signals \X Times)] /\ batch'[r] = batch[r] \ {b}
      /\ \A o \in Runs \ {r} : batch'[o] = batch[o]
  BY <1>1 DEF WindowInv
<1>5. /\ pc' \in [Runs -> {"idle", "read", "record"}] /\ horizon' \in [Runs -> Horizons]
      /\ \A o \in Runs \ {r} : pc'[o] = pc[o] /\ horizon'[o] = horizon[o]
      /\ batch'[r] = {} \/ (pc'[r] = pc[r] /\ horizon'[r] = horizon[r])
  <2>1. CASE batch[r] # {b}
    BY <1>1, <2>1 DEF WindowInv, TypeOK
  <2>2. CASE batch[r] = {b} /\ r \in Drains
    BY <1>1, <1>4, <2>2 DEF WindowInv, TypeOK
  <2>3. CASE batch[r] = {b} /\ r \notin Drains
    BY <1>1, <1>4, <2>3, NextHorizonTyped DEF WindowInv
  <2> QED BY <2>1, <2>2, <2>3
<1>6. price' \in [Signals -> [Horizons -> Times \cup {None}]]
  BY <1>1, <1>3 DEF WindowInv, TypeOK
<1>7. \A s \in Signals, h \in Horizons :
         price'[s][h] = IF s = b[1] /\ h = horizon[r] THEN b[2] ELSE price[s][h]
  BY <1>1, <1>3 DEF WindowInv, TypeOK
<1>8. \A o \in Runs : batch'[o] \subseteq row' \X candles'
  BY <1>2, <1>4 DEF WindowInv, TypeOK
<1>9. TypeOK'
  BY <1>2, <1>5, <1>6, <1>8 DEF WindowInv, TypeOK
<1>10. \A o \in Runs : pc'[o] # "record" => batch'[o] = {}
  BY <1>4, <1>5 DEF WindowInv
<1>11. \A o \in Runs : \A x \in batch'[o] : InWindow(at', x[1], horizon'[o], x[2])
  BY <1>2, <1>4, <1>5 DEF WindowInv, InWindow
<1>12. \A s \in Signals, h \in Horizons :
         price'[s][h] # None => s \in row' /\ InWindow(at', s, h, price'[s][h])
  BY <1>2, <1>3, <1>7 DEF WindowInv, InWindow
<1> QED BY <1>4, <1>9, <1>10, <1>11, <1>12 DEF WindowInv

\* Each step keeps what was read inside the windows.
LEMMA WindowStep ==
  ASSUME WindowInv, [Next]_vars
  PROVE  WindowInv'
<1>1. ASSUME NEW r \in Runs, Begin(r) PROVE WindowInv'
  <2>1. Shortest \in Horizons /\ pc[r] = "idle" /\ batch[r] = {}
    BY <1>1, ShortestTyped DEF Begin, WindowInv
  <2>2. UNCHANGED <<now, at, row, price, candles, batch, faults>>
    BY <1>1 DEF Begin, tables
  <2>3. /\ pc' \in [Runs -> {"idle", "read", "record"}] /\ begun' \in [Runs -> Times]
        /\ horizon' \in [Runs -> Horizons]
        /\ \A o \in Runs \ {r} : pc'[o] = pc[o] /\ horizon'[o] = horizon[o]
    BY <1>1, <2>1 DEF Begin, WindowInv, TypeOK
  <2>4. TypeOK'
    BY <2>2, <2>3 DEF WindowInv, TypeOK
  <2>5. \A o \in Runs : \A b \in batch'[o] : InWindow(at', b[1], horizon'[o], b[2])
    BY <2>1, <2>2, <2>3 DEF WindowInv, InWindow
  <2> QED BY <2>1, <2>2, <2>3, <2>4, <2>5 DEF WindowInv, InWindow
<1>2. ASSUME NEW r \in Runs, Read(r) PROVE WindowInv'
  BY <1>2, ReadKeeps
<1>3. ASSUME NEW r \in Runs, Record(r) PROVE WindowInv'
  BY <1>3, RecordKeeps
<1>4. ASSUME NEW r \in Runs, Fails(r) PROVE WindowInv'
  <2>1. UNCHANGED <<now, at, row, price, candles, begun, horizon>>
    BY <1>4 DEF Fails, tables
  <2>2. faults' \in 0 .. MaxFaults
    BY <1>4 DEF Fails, Faulty, WindowInv, TypeOK, ConstantsOK
  <2>3. /\ pc' \in [Runs -> {"idle", "read", "record"}] /\ \A o \in Runs \ {r} : pc'[o] = pc[o]
        /\ batch' \in [Runs -> SUBSET (Signals \X Times)] /\ batch'[r] = {}
        /\ \A o \in Runs \ {r} : batch'[o] = batch[o]
    BY <1>4 DEF Fails, WindowInv, TypeOK
  <2>4. TypeOK'
    BY <2>1, <2>2, <2>3 DEF WindowInv, TypeOK
  <2> QED BY <2>1, <2>3, <2>4 DEF WindowInv, InWindow
<1>5. ASSUME NEW s \in Signals, Fire(s) PROVE WindowInv'
  BY <1>5, FiresKeep
<1>6. ASSUME NEW t \in Times, Store(t) PROVE WindowInv'
  <2>1. /\ UNCHANGED <<now, at, row, price, pc, begun, horizon, batch, faults>>
        /\ candles' = candles \cup {t} /\ t <= now
    BY <1>6 DEF Store
  <2>2. candles' \subseteq 0 .. now'
    BY <2>1 DEF WindowInv, TypeOK, Times
  <2>3. TypeOK'
    BY <2>1, <2>2 DEF WindowInv, TypeOK
  <2> QED BY <2>1, <2>3, TablesKeep DEF TablesGrow
<1>7. CASE Tick
  <2>1. /\ UNCHANGED <<at, row, price, candles, pc, begun, horizon, batch, faults>>
        /\ now' \in Times /\ now' = now + 1
    BY <1>7 DEF Tick, tables, WindowInv, TypeOK, Times, ConstantsOK
  <2>2. candles' \subseteq 0 .. now'
    BY <2>1 DEF WindowInv, TypeOK, Times
  <2>3. TypeOK'
    BY <2>1, <2>2 DEF WindowInv, TypeOK
  <2> QED BY <2>1, <2>3, TablesKeep DEF TablesGrow
<1>8. CASE UNCHANGED vars
  <2>1. UNCHANGED <<now, at, row, price, candles, pc, begun, horizon, batch, faults>>
    BY <1>8 DEF vars, tables
  <2> QED BY <2>1 DEF WindowInv, TypeOK, InWindow
<1> QED BY <1>1, <1>2, <1>3, <1>4, <1>5, <1>6, <1>7, <1>8 DEF Next, Step

\* It holds at first.
LEMMA WindowInit == ASSUME ConstantsOK, Init PROVE WindowInv
<1>1. 0 \in Times /\ 0 \in 0 .. MaxFaults /\ Shortest \in Horizons
  BY ShortestTyped DEF Times, ConstantsOK
<1>2. TypeOK
  BY <1>1 DEF Init, TypeOK
<1>3. (\A s \in Signals, h \in Horizons : price[s][h] = None) /\ \A r \in Runs : batch[r] = {}
  BY DEF Init
<1>4. batch \in [Runs -> SUBSET (Signals \X Times)]
  BY DEF Init
<1> QED BY <1>2, <1>3, <1>4 DEF WindowInv
-----------------------------------------------------------------------------
(* Samples. *)

\* EPISODE_STARTS_SQL: of two firings that both start an episode, the later one
\* lies a horizon after the other, and a window is no longer than that.
LEMMA SamplesApart == ASSUME WindowInv PROVE PricedInWindow /\ PricedApart
<1>1. PricedInWindow
  BY DEF WindowInv, PricedInWindow, InWindow
<1>2. ASSUME NEW h \in Horizons, h > Look, NEW from \in Sources,
             NEW s \in Samples(h, from), NEW p \in Samples(h, from),
             TypeOf[s] = TypeOf[p], at[p] < at[s] \/ (at[p] = at[s] /\ p < s)
      PROVE  price[s][h] # price[p][h]
  <2>1. /\ s \in Signals /\ p \in Signals /\ at[s] \in Nat /\ at[p] \in Nat
        /\ price[s][h] \in Nat /\ price[p][h] \in Nat /\ h \in Nat /\ Look \in Nat
    BY DEF Samples, WindowInv, TypeOK, Times, ConstantsOK
  <2>2. p \in Firings(s, from)
    BY <1>2, <2>1 DEF Samples, Firings
  <2>3. at[s] - at[p] >= h
    BY <1>2, <2>2 DEF Samples, StartsEpisode
  <2>4. InWindow(at, s, h, price[s][h]) /\ InWindow(at, p, h, price[p][h])
    BY <2>1 DEF Samples, WindowInv
  <2> QED BY <1>2, <2>1, <2>3, <2>4 DEF InWindow
<1>3. PricedApart
  <2> SUFFICES ASSUME NEW h \in Horizons, h > Look, NEW from \in Sources,
                      NEW s \in Samples(h, from), NEW p \in Samples(h, from),
                      s # p, TypeOf[s] = TypeOf[p]
               PROVE  price[s][h] # price[p][h]
    BY DEF PricedApart
  <2>1. s \in Nat /\ p \in Nat /\ at[s] \in Nat /\ at[p] \in Nat
    BY DEF Samples, WindowInv, TypeOK, Times, ConstantsOK
  <2> QED BY <1>2, <2>1
<1> QED BY <1>1, <1>3

\* Every variable keeps its type.
THEOREM TypeCorrect == ASSUME ConstantsOK PROVE Spec => []TypeOK
<1>1. Init => WindowInv
  BY WindowInit
<1>2. WindowInv /\ [Next]_vars => WindowInv'
  BY WindowStep
<1>3. WindowInv => TypeOK
  BY DEF WindowInv
<1> QED BY <1>1, <1>2, <1>3, PTL DEF Spec

\* getResolvableOutcomes and EPISODE_STARTS_SQL: a price is of the window it
\* stands for, and on the horizons longer than the lookahead no two samples of a
\* type are priced off one candle, whichever passes overlap or fail.
THEOREM SamplesArePricedApart == ASSUME ConstantsOK PROVE Spec => [](PricedInWindow /\ PricedApart)
<1>1. Init => WindowInv
  BY WindowInit
<1>2. WindowInv /\ [Next]_vars => WindowInv'
  BY WindowStep
<1>3. WindowInv => PricedInWindow /\ PricedApart
  BY SamplesApart
<1> QED BY <1>1, <1>2, <1>3, PTL DEF Spec
=============================================================================
