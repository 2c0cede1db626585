--------------------------- MODULE CoinScanProofs ---------------------------
(***************************************************************************)
(* CoinScan leaves one scan of one exchange for each day, and a stored day *)
(* stays stored, for any coins, days, faults and overlaps.                 *)
(***************************************************************************)
EXTENDS CoinScan, TLAPS

Stages ==
  {"idle", "binance", "okx", "save", "delete", "insert", "commit", "record", "watch", "send"}

Replies == [binance : Answers \cup {Silence}, okx : Answers \cup {Silence}]

\* The default scan, and that nothing has been asked, have their types.
LEMMA Defaults ==
  ASSUME ConstantsOK
  PROVE  NoScan \in Scans /\ Unasked \in Replies /\ 1 \in Days
<1>1. {Btc} \in Universes
  BY DEF Universes, Coins
<1>2. NoScan \in Scans
  BY <1>1 DEF NoScan, Scans
<1>3. Unasked \in Replies
  BY DEF Unasked, Replies
<1> QED BY <1>2, <1>3 DEF ConstantsOK, Days

\* The invariant holds at first.
LEMMA InitHolds == ASSUME ConstantsOK, Init PROVE IInv
<1> USE Defaults DEF ConstantsOK, Init
<1>1. TypeOK
  BY DEF TypeOK, Replies
<1>2. StoredDayIsOneScan /\ SeenWhole /\ DropsAll
  BY DEF StoredDayIsOneScan, SeenWhole, DropsAll
<1>3. AddsOwn
  BY DEF AddsOwn
<1>4. BenchmarkLocks /\ OneWriterOfADay
  BY DEF BenchmarkLocks, OneWriterOfADay, HasBenchmark
<1>5. AskedInTurn /\ BestOfOneExchange
  BY DEF AskedInTurn, BestOfOneExchange
<1> QED BY <1>1, <1>2, <1>3, <1>4, <1>5 DEF IInv

\* What the types say of the per-run variables.
LEMMA Types ==
  ASSUME ConstantsOK, IInv
  PROVE  /\ pc \in [Runs -> Stages] /\ day \in Days /\ now \in [Runs -> Days]
         /\ asked \in [Runs -> Replies] /\ got \in [Runs -> Scans]
         /\ rows \subseteq Rows
         /\ seen \in [Runs -> SUBSET Rows] /\ dropped \in [Runs -> SUBSET rows]
         /\ added \in [Runs -> SUBSET Rows]
         /\ \A r \in Runs : dropped[r] \cup added[r] # {} => pc[r] \in {"insert", "commit"}
         /\ told \in [Days -> 0 .. 2] /\ faults \in 0 .. MaxFaults /\ overlaps \in 0 .. MaxOverlaps
BY DEF IInv, TypeOK, Stages, Replies, Writing

\* The parts of the invariant that are about the table and the transactions on it.
Tables ==
  /\ StoredDayIsOneScan /\ SeenWhole /\ DropsAll /\ AddsOwn
  /\ BenchmarkLocks /\ OneWriterOfADay

\* Run r steps outside its transaction, or ends with it.
Aside(r) ==
  /\ rows' = rows
  /\ pc' = [pc EXCEPT ![r] = pc'[r]]
  /\ pc'[r] \in Stages \ {"delete", "insert", "commit"}
  /\ now' = [now EXCEPT ![r] = now'[r]] /\ got' = [got EXCEPT ![r] = got'[r]]
  /\ seen' = [seen EXCEPT ![r] = {}] /\ dropped' = [dropped EXCEPT ![r] = {}]
  /\ added' = [added EXCEPT ![r] = {}]

\* Such a step keeps what the invariant says of the table and the transactions,
LEMMA AsideKeeps ==
  ASSUME ConstantsOK, IInv, NEW r \in Runs, Aside(r)
  PROVE  /\ Tables'
         /\ seen' \in [Runs -> SUBSET Rows] /\ dropped' \in [Runs -> SUBSET rows']
         /\ added' \in [Runs -> SUBSET Rows]
         /\ \A o \in Runs : dropped'[o] \cup added'[o] # {} => pc'[o] \in {"insert", "commit"}
<1> USE Types DEF Aside
<1>1. /\ seen'[r] = {} /\ dropped'[r] = {} /\ added'[r] = {}
      /\ pc'[r] # "commit"
      /\ \A o \in Runs \ {r} :
           /\ pc'[o] = pc[o] /\ now'[o] = now[o] /\ got'[o] = got[o]
           /\ seen'[o] = seen[o] /\ dropped'[o] = dropped[o] /\ added'[o] = added[o]
  OBVIOUS
<1>2. StoredDayIsOneScan'
  BY DEF IInv, StoredDayIsOneScan, DayRows
<1>3. SeenWhole'
  BY <1>1 DEF IInv, SeenWhole
<1>4. DropsAll'
  BY <1>1 DEF IInv, DropsAll, DayRows
<1>5. AddsOwn'
  BY <1>1 DEF IInv, AddsOwn
<1>6. /\ ~HasBenchmark(r)'
      /\ \A o \in Runs \ {r} : HasBenchmark(o)' = HasBenchmark(o)
  BY <1>1 DEF HasBenchmark
<1>7. BenchmarkLocks'
  BY <1>1, <1>6 DEF IInv, BenchmarkLocks, DayRows
<1>8. OneWriterOfADay'
  BY <1>1, <1>6 DEF IInv, OneWriterOfADay
<1>9. /\ seen' \in [Runs -> SUBSET Rows] /\ dropped' \in [Runs -> SUBSET rows']
      /\ added' \in [Runs -> SUBSET Rows]
  OBVIOUS
<1>10. \A o \in Runs : dropped'[o] \cup added'[o] # {} => pc'[o] \in {"insert", "commit"}
  BY <1>1
<1> QED BY <1>2, <1>3, <1>4, <1>5, <1>7, <1>8, <1>9, <1>10 DEF Tables

\* and with what is left to show, the whole of it.
LEMMA AsideRest ==
  ASSUME ConstantsOK, IInv, NEW r \in Runs, Aside(r),
         day' = day, now'[r] \in Days, got'[r] \in Scans,
         asked' \in [Runs -> Replies], \A o \in Runs \ {r} : asked'[o] = asked[o],
         job' \in {"none", "ok", "failed"}, told' \in [Days -> 0 .. 2],
         faults' \in 0 .. MaxFaults, overlaps' \in 0 .. MaxOverlaps,
         pc'[r] \in {"idle", "binance"} => asked'[r] = Unasked,
         pc'[r] = "okx" =>
           /\ asked'[r].okx = Silence
           /\ \/ asked'[r].binance.kind = "refused"
              \/ asked'[r].binance.kind = "read" /\ ~asked'[r].binance.leverage,
         pc'[r] = "save" =>
           /\ got'[r].exchange = "okx" =>
                asked'[r].binance.kind = "refused" \/ ~asked'[r].binance.leverage
           /\ \/ got'[r].leverage
              \/ \A a \in {asked'[r].binance, asked'[r].okx} : a.kind = "read" => ~a.leverage
           /\ got'[r].exchange = "okx" /\ ~got'[r].leverage => asked'[r].binance.kind = "refused"
  PROVE  IInv'
<1> USE Types
<1>1. /\ Tables'
      /\ seen' \in [Runs -> SUBSET Rows] /\ dropped' \in [Runs -> SUBSET rows']
      /\ added' \in [Runs -> SUBSET Rows]
      /\ \A o \in Runs : dropped'[o] \cup added'[o] # {} => pc'[o] \in {"insert", "commit"}
  BY AsideKeeps
<1>2. /\ rows' = rows /\ pc' \in [Runs -> Stages]
      /\ now' \in [Runs -> Days] /\ got' \in [Runs -> Scans]
      /\ \A o \in Runs \ {r} : pc'[o] = pc[o] /\ got'[o] = got[o]
  BY DEF Aside
<1>3. TypeOK'
  BY <1>1, <1>2 DEF IInv, TypeOK, SameKey, Writing, Stages, Replies
<1>4. AskedInTurn'
  BY <1>2 DEF IInv, AskedInTurn
<1>5. BestOfOneExchange'
  BY <1>2 DEF IInv, BestOfOneExchange
<1> QED BY <1>1, <1>3, <1>4, <1>5 DEF IInv, Tables

\* A run that is over is idle, asks nothing and holds nothing.
LEMMA EndKeeps ==
  ASSUME ConstantsOK, IInv, NEW r \in Runs, Ends(r), UNCHANGED <<day, rows, overlaps>>,
         job' \in {"none", "ok", "failed"}, told' \in [Days -> 0 .. 2],
         faults' \in 0 .. MaxFaults
  PROVE  IInv'
<1> USE Types, Defaults DEF Ends, Goto
<1>1. Aside(r)
  BY DEF Aside, Stages
<1>2. /\ now'[r] = 1 /\ got'[r] = NoScan /\ asked'[r] = Unasked
      /\ asked' \in [Runs -> Replies] /\ \A o \in Runs \ {r} : asked'[o] = asked[o]
      /\ pc'[r] = "idle"
  OBVIOUS
<1> QED BY <1>1, <1>2, AsideRest

\* A run outside its transaction holds nothing.
LEMMA HoldsNothing ==
  ASSUME ConstantsOK, IInv, NEW r \in Runs, pc[r] \notin {"delete", "insert", "commit"}
  PROVE  seen[r] = {} /\ dropped[r] = {} /\ added[r] = {}
BY Types DEF IInv, SeenWhole

\* The answers to a run.
LEMMA AskKeeps ==
  ASSUME ConstantsOK, IInv, NEW r \in Runs,
         Tick(r) \/ AskBinance(r) \/ AskOkx(r)
  PROVE  IInv'
<1> USE Types
<1>a. seen[r] = {} /\ dropped[r] = {} /\ added[r] = {}
  BY HoldsNothing DEF Tick, AskBinance, AskOkx
<1>b. job \in {"none", "ok", "failed"}
  BY DEF IInv, TypeOK
<1>1. CASE Tick(r)
  <2> USE <1>1 DEF Tick, Goto, store
  <2>1. Aside(r)
    BY <1>a DEF Aside, Stages
  <2>2. overlaps' \in 0 .. MaxOverlaps
    BY DEF ConstantsOK
  <2>3. now'[r] \in Days /\ got'[r] \in Scans /\ pc'[r] = "binance"
    OBVIOUS
  <2>4. asked' = asked /\ asked[r] = Unasked
    BY DEF IInv, AskedInTurn
  <2> QED BY <1>b, <2>1, <2>2, <2>3, <2>4, AsideRest
<1>2. ASSUME NEW a \in Answers
      PROVE  a.kind = "read" =>
               /\ [exchange |-> "binance", coins |-> a.coins, leverage |-> a.leverage] \in Scans
               /\ [exchange |-> "okx", coins |-> a.coins, leverage |-> a.leverage] \in Scans
               /\ a.leverage \in BOOLEAN
  BY <1>2 DEF Answers, Scans
<1>3. CASE AskBinance(r)
  <2>1. PICK a \in Answers :
          /\ asked' = [asked EXCEPT ![r].binance = a]
          /\ IF HasOkx /\ (a.kind = "refused" \/ (a.kind = "read" /\ ~a.leverage))
               THEN Goto(r, "okx") /\ UNCHANGED got
               ELSE Keep(r, "binance", a)
    BY <1>3 DEF AskBinance
  <2>2. /\ pc[r] = "binance"
        /\ UNCHANGED <<day, rows, now, seen, dropped, added, job, told, faults, overlaps>>
    BY <1>3 DEF AskBinance, store
  <2>3. asked[r] = Unasked
    BY <2>2 DEF IInv, AskedInTurn
  <2>4. /\ asked' \in [Runs -> Replies] /\ \A o \in Runs \ {r} : asked'[o] = asked[o]
        /\ asked'[r].binance = a /\ asked'[r].okx = Silence
    BY <2>1, <2>3 DEF Replies, Unasked
  <2>5. now'[r] \in Days
    BY <2>2
  <2>6. CASE HasOkx /\ (a.kind = "refused" \/ (a.kind = "read" /\ ~a.leverage))
    <3>1. /\ pc' = [pc EXCEPT ![r] = "okx"] /\ got' = got
      BY <2>1, <2>6 DEF Goto
    <3>2. Aside(r)
      BY <1>a, <2>2, <3>1 DEF Aside, Stages
    <3>3. pc'[r] = "okx" /\ got'[r] \in Scans
      BY <3>1
    <3> QED BY <1>b, <2>2, <2>4, <2>5, <2>6, <3>2, <3>3, AsideRest
  <2>7. CASE ~(HasOkx /\ (a.kind = "refused" \/ (a.kind = "read" /\ ~a.leverage)))
    <3>1. /\ pc' = [pc EXCEPT ![r] = "save"] /\ a.kind = "read"
          /\ got' =
               [got EXCEPT ![r] = [exchange |-> "binance", coins |-> a.coins, leverage |-> a.leverage]]
      BY <2>1, <2>7 DEF Goto, Keep
    <3>2. Aside(r)
      BY <1>a, <2>2, <3>1 DEF Aside, Stages
    <3>3. /\ pc'[r] = "save" /\ got'[r] \in Scans
          /\ got'[r].exchange = "binance" /\ got'[r].leverage = a.leverage
      BY <3>1, <1>2
    <3>4. Silence.kind # "read"
      BY DEF Silence
    <3> QED BY <1>b, <2>2, <2>4, <2>5, <3>2, <3>3, <3>4, AsideRest
  <2> QED BY <2>6, <2>7
<1>4. CASE AskOkx(r)
  <2> DEFINE b == asked[r].binance
  <2>1. PICK a \in Answers :
          /\ asked' = [asked EXCEPT ![r].okx = a]
          /\ IF b.kind = "read" /\ ~Better(a)
               THEN Keep(r, "binance", b) ELSE Keep(r, "okx", a)
    BY <1>4 DEF AskOkx
  <2>2. /\ pc[r] = "okx"
        /\ UNCHANGED <<day, rows, now, seen, dropped, added, job, told, faults, overlaps>>
    BY <1>4 DEF AskOkx, store
  <2>3. /\ b.kind = "refused" \/ (b.kind = "read" /\ ~b.leverage)
        /\ b \in Answers \cup {Silence}
    BY <2>2 DEF IInv, AskedInTurn, Replies
  <2>4. b.kind = "read" => b \in Answers
    BY <2>3 DEF Silence
  <2>5. /\ asked' \in [Runs -> Replies] /\ \A o \in Runs \ {r} : asked'[o] = asked[o]
        /\ asked'[r].binance = b /\ asked'[r].okx = a
    BY <2>1 DEF Replies
  <2>6. now'[r] \in Days
    BY <2>2
  <2> HIDE DEF b
  <2>7. CASE b.kind = "read" /\ ~Better(a)
    <3>1. /\ pc' = [pc EXCEPT ![r] = "save"]
          /\ got' =
               [got EXCEPT ![r] = [exchange |-> "binance", coins |-> b.coins, leverage |-> b.leverage]]
      BY <2>1, <2>7 DEF Goto, Keep
    <3>2. Aside(r)
      BY <1>a, <2>2, <3>1 DEF Aside, Stages
    <3>3. /\ pc'[r] = "save" /\ got'[r] \in Scans
          /\ got'[r].exchange = "binance" /\ got'[r].leverage = b.leverage
      BY <3>1, <1>2, <2>4, <2>7
    <3>4. ~b.leverage /\ (a.kind = "read" => ~a.leverage)
      BY <2>3, <2>7 DEF Better
    <3> QED BY <1>b, <2>2, <2>5, <2>6, <3>2, <3>3, <3>4, AsideRest
  <2>8. CASE ~(b.kind = "read" /\ ~Better(a))
    <3>1. /\ pc' = [pc EXCEPT ![r] = "save"] /\ a.kind = "read"
          /\ got' =
               [got EXCEPT ![r] = [exchange |-> "okx", coins |-> a.coins, leverage |-> a.leverage]]
      BY <2>1, <2>8 DEF Goto, Keep
    <3>2. Aside(r)
      BY <1>a, <2>2, <3>1 DEF Aside, Stages
    <3>3. /\ pc'[r] = "save" /\ got'[r] \in Scans
          /\ got'[r].exchange = "okx" /\ got'[r].leverage = a.leverage
      BY <3>1, <1>2
    <3>4. b.kind = "refused" \/ (a.leverage /\ ~b.leverage)
      BY <2>3, <2>8 DEF Better
    <3> QED BY <1>b, <2>2, <2>3, <2>5, <2>6, <3>2, <3>3, <3>4, AsideRest
  <2> QED BY <2>7, <2>8
<1> QED BY <1>1, <1>3, <1>4

\* The runs that end, by themselves, refused by the table or dead; the record of the
\* job and the watch message.
LEMMA OverKeeps ==
  ASSUME ConstantsOK, IInv, NEW r \in Runs,
         \/ ScanFails(r) \/ Conflict(r) \/ Deadlock(r) \/ QueryFails(r)
         \/ Dies(r) \/ Send(r) \/ Watch(r) \/ Record(r)
  PROVE  IInv'
<1> USE Types
<1>a. job \in {"none", "ok", "failed"}
  BY DEF IInv, TypeOK
<1>b. Faulty => faults' \in 0 .. MaxFaults
  BY DEF Faulty, ConstantsOK
<1>1. CASE ScanFails(r) \/ QueryFails(r)
  BY <1>1, <1>b, EndKeeps DEF ScanFails, QueryFails, GiveUp
<1>2. CASE Conflict(r) \/ Deadlock(r)
  BY <1>2, EndKeeps DEF Conflict, Deadlock, GiveUp
<1>3. CASE Dies(r)
  BY <1>3, <1>a, <1>b, EndKeeps DEF Dies
<1>4. CASE Send(r)
  <2>1. told' \in [Days -> 0 .. 2]
    BY <1>4 DEF Send
  <2> QED BY <1>4, <1>a, <2>1, EndKeeps DEF Send
<1>5. CASE Record(r) \/ (Watch(r) /\ ~Ends(r))
  <2>1. /\ pc' = [pc EXCEPT ![r] = IF pc[r] = "record" THEN "watch" ELSE "send"]
        /\ pc[r] \in {"record", "watch"} /\ job' \in {"none", "ok", "failed"}
        /\ UNCHANGED <<day, rows, now, asked, got, seen, dropped, added, told, faults, overlaps>>
    BY <1>5, <1>a DEF Record, Watch, Goto, store
  <2>2. seen[r] = {} /\ dropped[r] = {} /\ added[r] = {}
    BY <2>1, HoldsNothing
  <2>3. Aside(r)
    BY <2>1, <2>2 DEF Aside, Stages
  <2>4. now'[r] \in Days /\ got'[r] \in Scans /\ pc'[r] \in {"watch", "send"}
    BY <2>1
  <2> QED BY <2>1, <2>3, <2>4, AsideRest
<1>6. CASE Watch(r) /\ Ends(r)
  BY <1>6, <1>a, EndKeeps DEF Watch
<1> QED BY <1>1, <1>2, <1>3, <1>4, <1>5, <1>6

\* A day has the rows of one whole scan, or none.
LEMMA DayIsWhole ==
  ASSUME ConstantsOK, IInv, NEW d
  PROVE  \/ DayRows(d) = {}
         \/ \E scan \in Scans :
              DayRows(d) = WholeScan(d, scan) /\ Btc \in scan.coins
<1>1. ASSUME NEW row \in DayRows(d)
      PROVE  /\ row.scan \in Scans /\ Btc \in row.scan.coins
             /\ DayRows(d) = WholeScan(d, row.scan)
  <2>1. row \in rows /\ row.day = d
    BY DEF DayRows
  <2>2. row.scan \in Scans
    BY <2>1, Types DEF Rows
  <2>3. Btc \in row.scan.coins
    BY <2>2 DEF Scans, Universes
  <2> QED BY <2>1, <2>2, <2>3 DEF IInv, StoredDayIsOneScan
<1> QED BY <1>1

\* What of a whole scan that a DELETE found is still stored is all that is stored of
\* the day, or nothing.
LEMMA FoundIsAll ==
  ASSUME ConstantsOK, IInv, NEW r \in Runs, seen[r] \cap rows # {}
  PROVE  seen[r] \cap rows = DayRows(now[r])
<1>1. PICK scan \in Scans : seen[r] = WholeScan(now[r], scan)
  BY DEF IInv, SeenWhole
<1>2. PICK row \in rows : row \in seen[r]
  OBVIOUS
<1>3. row.day = now[r] /\ row.scan = scan
  BY <1>1, <1>2 DEF WholeScan
<1>4. DayRows(now[r]) = seen[r]
  BY <1>1, <1>2, <1>3 DEF IInv, StoredDayIsOneScan
<1> QED BY <1>4 DEF DayRows

\* The transaction looks for its rows, and drops those that are left of them.
LEMMA DropKeeps ==
  ASSUME ConstantsOK, IInv, NEW r \in Runs, LookForRows(r) \/ DeleteRows(r)
  PROVE  IInv'
<1> USE Types
<1>a. UNCHANGED <<day, rows, now, got, added, job, told, faults, overlaps>>
  BY DEF LookForRows, DeleteRows
<1>b. pc[r] \notin {"insert", "commit"} /\ dropped[r] = {} /\ added[r] = {}
  BY DEF LookForRows, DeleteRows
<1>c. \A d : DayRows(d)' = DayRows(d)
  BY <1>a DEF DayRows
<1>d. StoredDayIsOneScan'
  BY <1>a, <1>c DEF IInv, StoredDayIsOneScan
<1>1. CASE LookForRows(r)
  <2>1. /\ pc[r] = "save" /\ pc' = [pc EXCEPT ![r] = "delete"] /\ dropped' = dropped
        /\ seen' = [seen EXCEPT ![r] = DayRows(now[r])]
        /\ asked' = [asked EXCEPT ![r] = Unasked]
    BY <1>1 DEF LookForRows, Goto, DayRows
  <2>2. DayRows(now[r]) \subseteq rows
    BY DEF DayRows
  <2>3. TypeOK'
    <3>1. /\ pc' \in [Runs -> Stages] /\ seen' \in [Runs -> SUBSET Rows]
          /\ asked' \in [Runs -> Replies]
      BY <2>1, <2>2, Defaults DEF Stages
    <3>2. \A o \in Runs : dropped'[o] \cup added'[o] # {} => pc'[o] \in {"insert", "commit"}
      BY <1>a, <1>b, <2>1
    <3> QED BY <1>a, <2>1, <3>1, <3>2 DEF IInv, TypeOK, SameKey, Writing, Stages, Replies
  <2>4. SeenWhole'
    BY <1>a, <2>1, DayIsWhole DEF IInv, SeenWhole
  <2>5. DropsAll' /\ AddsOwn'
    BY <1>a, <1>c, <2>1 DEF IInv, DropsAll, AddsOwn
  <2>6. BenchmarkLocks' /\ OneWriterOfADay'
    BY <1>a, <1>c, <2>1 DEF IInv, BenchmarkLocks, OneWriterOfADay, HasBenchmark
  <2>7. AskedInTurn' /\ BestOfOneExchange'
    BY <1>a, <2>1 DEF IInv, AskedInTurn, BestOfOneExchange
  <2> QED BY <1>d, <2>3, <2>4, <2>5, <2>6, <2>7 DEF IInv
<1>2. CASE DeleteRows(r)
  <2> DEFINE found == seen[r] \cap rows
  <2>1. /\ pc[r] = "delete" /\ pc' = [pc EXCEPT ![r] = "insert"] /\ asked' = asked
        /\ seen' = [seen EXCEPT ![r] = {}] /\ dropped' = [dropped EXCEPT ![r] = found]
        /\ \A o \in Runs \ {r} : dropped[o] \cap seen[r] = {}
    BY <1>2 DEF DeleteRows, Goto
  <2>2. found # {} => found = DayRows(now[r])
    BY FoundIsAll
  <2>3. found \subseteq rows /\ found \subseteq seen[r]
    OBVIOUS
  <2> HIDE DEF found
  <2>4. \A o \in Runs \ {r} : HasBenchmark(o)' = HasBenchmark(o)
    BY <1>a, <2>1 DEF HasBenchmark
  <2>5. HasBenchmark(r)' => found # {}
    BY <1>a, <1>b, <2>1 DEF HasBenchmark
  <2>6. TypeOK'
    <3>1. pc' \in [Runs -> Stages] /\ seen' \in [Runs -> SUBSET Rows]
      BY <2>1 DEF Stages
    <3>2. dropped' \in [Runs -> SUBSET rows']
      BY <1>a, <2>1, <2>3
    <3>3. \A o \in Runs : dropped'[o] \cup added'[o] # {} => pc'[o] \in {"insert", "commit"}
      BY <1>a, <2>1
    <3> QED BY <1>a, <2>1, <3>1, <3>2, <3>3 DEF IInv, TypeOK, SameKey, Writing, Stages, Replies
  <2>7. SeenWhole'
    BY <1>a, <2>1 DEF IInv, SeenWhole
  <2>8. DropsAll'
    BY <1>a, <1>c, <2>1, <2>2 DEF IInv, DropsAll
  <2>9. AddsOwn'
    BY <1>a, <2>1 DEF IInv, AddsOwn
  <2>10. BenchmarkLocks'
    BY <1>a, <1>c, <2>1, <2>2, <2>4, <2>5 DEF IInv, BenchmarkLocks
  <2>11. OneWriterOfADay'
    <3>1. ASSUME NEW o \in Runs \ {r}, HasBenchmark(o), now[o] = now[r], found # {}
          PROVE  FALSE
      <4>1. dropped[o] = DayRows(now[r])
        BY <3>1 DEF IInv, BenchmarkLocks
      <4>2. found \subseteq dropped[o]
        BY <4>1, <3>1, <2>2
      <4> QED BY <4>2, <3>1, <2>1, <2>3
    <3> QED BY <3>1, <1>a, <2>4, <2>5 DEF IInv, OneWriterOfADay
  <2>12. AskedInTurn' /\ BestOfOneExchange'
    BY <1>a, <2>1 DEF IInv, AskedInTurn, BestOfOneExchange
  <2> QED BY <1>d, <2>6, <2>7, <2>8, <2>9, <2>10, <2>11, <2>12 DEF IInv
<1> QED BY <1>1, <1>2

\* The rows a transaction deals with are of its day.
LEMMA OwnDay ==
  ASSUME ConstantsOK, IInv, NEW r \in Runs, NEW row \in dropped[r] \cup added[r]
  PROVE  row.day = now[r]
<1>1. CASE row \in dropped[r]
  BY <1>1 DEF IInv, DropsAll, DayRows
<1>2. CASE row \in added[r]
  BY <1>2 DEF IInv, AddsOwn, WholeScan
<1> QED BY <1>1, <1>2

\* A row goes in when no other transaction and no stored row has its key: the
\* benchmark's, when nothing is left of the day.
LEMMA InsertKeeps ==
  ASSUME ConstantsOK, IInv, NEW r \in Runs, Insert(r)
  PROVE  IInv'
<1> USE Types
<1>1. PICK c \in Missing(r) :
        /\ ~Held(r, Inserted(r, c)) /\ ~Taken(r, Inserted(r, c))
        /\ added' = [added EXCEPT ![r] = added[r] \cup {Inserted(r, c)}]
        /\ Goto(r, IF Missing(r) = {c} THEN "commit" ELSE "insert")
  BY DEF Insert
<1> DEFINE row == Inserted(r, c)
<1>a. pc[r] = "insert" /\ UNCHANGED <<day, rows, now, asked, got, seen, dropped, job, told, faults, overlaps>>
  BY DEF Insert
<1>b. \A d : DayRows(d)' = DayRows(d)
  BY <1>a DEF DayRows
<1>c. pc' = [pc EXCEPT ![r] = IF Missing(r) = {c} THEN "commit" ELSE "insert"]
  BY <1>1 DEF Goto
<1>2. /\ c \in got[r].coins /\ got[r].coins \subseteq Coins
      /\ row = [day |-> now[r], coin |-> c, scan |-> got[r]]
  BY DEF Missing, Inserted, Scans, Universes
<1>3. row \in Rows /\ row \in WholeScan(now[r], got[r])
  BY <1>2 DEF Rows, WholeScan
<1>d. added' = [added EXCEPT ![r] = added[r] \cup {row}] /\ row.coin = c /\ row.day = now[r]
  BY <1>1, <1>2
<1>4. /\ \A o \in Runs \ {r} : HasBenchmark(o)' = HasBenchmark(o)
      /\ HasBenchmark(r)' => HasBenchmark(r) \/ c = Btc
  BY <1>a, <1>d DEF HasBenchmark
<1>5. c = Btc => dropped[r] = DayRows(now[r])
  <2> SUFFICES ASSUME c = Btc, dropped[r] = {}, DayRows(now[r]) # {} PROVE FALSE
    BY DEF IInv, DropsAll
  <2>1. PICK scan \in Scans : DayRows(now[r]) = WholeScan(now[r], scan) /\ Btc \in scan.coins
    BY DayIsWhole
  <2>2. [day |-> now[r], coin |-> Btc, scan |-> scan] \in rows
    BY <2>1 DEF WholeScan, DayRows
  <2> QED BY <2>2, <1>1, <1>2 DEF Taken, SameKey
<1>6. ASSUME NEW o \in Runs \ {r}, HasBenchmark(o), now[o] = now[r] PROVE c # Btc
  <2>1. PICK other \in dropped[o] \cup added[o] : other.coin = Btc
    BY <1>6 DEF HasBenchmark
  <2>2. other.day = now[o]
    BY <2>1, OwnDay
  <2> QED BY <2>1, <2>2, <1>6, <1>1, <1>d DEF Held, SameKey
<1>7. Missing(r) = {c} => added[r] \cup {row} = WholeScan(now[r], got[r])
  BY <1>3 DEF IInv, AddsOwn, Missing, Inserted, WholeScan
<1> HIDE DEF row
<1>8. TypeOK'
  <2>1. pc' \in [Runs -> Stages] /\ added' \in [Runs -> SUBSET Rows]
    BY <1>c, <1>d, <1>3 DEF Stages
  <2>2. \A o \in Runs : dropped'[o] \cup added'[o] # {} => pc'[o] \in {"insert", "commit"}
    BY <1>a, <1>c, <1>d
  <2> QED BY <1>a, <2>1, <2>2 DEF IInv, TypeOK, SameKey, Writing, Stages, Replies
<1>9. StoredDayIsOneScan' /\ DropsAll'
  BY <1>a, <1>b DEF IInv, StoredDayIsOneScan, DropsAll
<1>10. SeenWhole'
  BY <1>a, <1>c DEF IInv, SeenWhole
<1>11. AddsOwn'
  BY <1>a, <1>c, <1>d, <1>3, <1>7 DEF IInv, AddsOwn
<1>12. BenchmarkLocks'
  BY <1>a, <1>b, <1>4, <1>5 DEF IInv, BenchmarkLocks
<1>13. OneWriterOfADay'
  BY <1>a, <1>4, <1>6 DEF IInv, OneWriterOfADay
<1>14. AskedInTurn' /\ BestOfOneExchange'
  BY <1>a, <1>c DEF IInv, AskedInTurn, BestOfOneExchange
<1> QED BY <1>8, <1>9, <1>10, <1>11, <1>12, <1>13, <1>14 DEF IInv

\* The rows of a day after the step.
After(d) == {row \in rows' : row.day = d}

\* At its commit a transaction has the benchmark's row, so all that was stored of the
\* day goes and its scan comes; no other transaction has dropped rows of the day.
LEMMA AtCommit ==
  ASSUME ConstantsOK, IInv, NEW r \in Runs, Commit(r)
  PROVE  /\ After(now[r]) = WholeScan(now[r], got[r])
         /\ \A d : d # now[r] => After(d) = DayRows(d)
         /\ \A o \in Runs \ {r} : HasBenchmark(o) \/ dropped[o] # {} => now[o] # now[r]
         /\ rows' \subseteq Rows /\ Btc \in got[r].coins
<1> USE Types
<1>1. rows' = (rows \ dropped[r]) \cup added[r] /\ pc[r] = "commit"
  BY DEF Commit
<1>2. added[r] = WholeScan(now[r], got[r])
  BY <1>1 DEF IInv, AddsOwn
<1>3. Btc \in got[r].coins
  BY DEF Scans, Universes
<1>4. HasBenchmark(r)
  <2> DEFINE row == [day |-> now[r], coin |-> Btc, scan |-> got[r]]
  <2>1. row \in added[r] /\ row.coin = Btc
    BY <1>2, <1>3 DEF WholeScan
  <2> HIDE DEF row
  <2> QED BY <2>1 DEF HasBenchmark
<1>5. dropped[r] = DayRows(now[r])
  BY <1>4 DEF IInv, BenchmarkLocks
<1>6. \A row \in added[r] : row.day = now[r]
  BY <1>2 DEF WholeScan
<1>7. After(now[r]) = added[r]
  BY <1>1, <1>5, <1>6 DEF DayRows, After
<1>8. ASSUME NEW d, d # now[r] PROVE After(d) = DayRows(d)
  BY <1>1, <1>5, <1>6, <1>8 DEF DayRows, After
<1>9. ASSUME NEW o \in Runs \ {r}, HasBenchmark(o) \/ dropped[o] # {} PROVE now[o] # now[r]
  <2>1. dropped[o] # {} => HasBenchmark(o)
    <3> SUFFICES ASSUME dropped[o] # {} PROVE HasBenchmark(o)
      OBVIOUS
    <3>1. dropped[o] = DayRows(now[o])
      BY DEF IInv, DropsAll
    <3>2. PICK scan \in Scans : dropped[o] = WholeScan(now[o], scan) /\ Btc \in scan.coins
      BY <3>1, DayIsWhole
    <3> DEFINE row == [day |-> now[o], coin |-> Btc, scan |-> scan]
    <3>3. row \in dropped[o] /\ row.coin = Btc
      BY <3>2 DEF WholeScan
    <3> HIDE DEF row
    <3> QED BY <3>3 DEF HasBenchmark
  <2> QED BY <1>4, <1>9, <2>1 DEF IInv, OneWriterOfADay
<1> QED BY <1>1, <1>2, <1>3, <1>7, <1>8, <1>9

\* So the commit leaves one scan of its day, and what the others hold stands.
LEMMA CommitKeeps ==
  ASSUME ConstantsOK, IInv, NEW r \in Runs, Commit(r)
  PROVE  IInv'
<1> USE Types
<1>1. /\ pc[r] = "commit" /\ pc' = [pc EXCEPT ![r] = "record"]
      /\ dropped' = [dropped EXCEPT ![r] = {}] /\ added' = [added EXCEPT ![r] = {}]
      /\ UNCHANGED <<day, now, asked, got, seen, job, told, faults, overlaps>>
  BY DEF Commit, Goto
<1>2. /\ After(now[r]) = WholeScan(now[r], got[r])
      /\ \A d : d # now[r] => After(d) = DayRows(d)
      /\ \A o \in Runs \ {r} : HasBenchmark(o) \/ dropped[o] # {} => now[o] # now[r]
      /\ rows' \subseteq Rows
  BY AtCommit
<1>3. StoredDayIsOneScan'
  <2> SUFFICES ASSUME NEW row \in rows'
               PROVE  After(row.day) = WholeScan(row.day, row.scan)
    BY DEF StoredDayIsOneScan, DayRows, WholeScan, After
  <2>a. row \in After(row.day)
    BY DEF After
  <2>1. CASE row.day = now[r]
    <3>1. row \in WholeScan(now[r], got[r])
      BY <2>a, <2>1, <1>2
    <3>2. row.scan = got[r]
      BY <3>1 DEF WholeScan
    <3> QED BY <3>2, <2>1, <1>2 DEF WholeScan
  <2>2. CASE row.day # now[r]
    <3>1. row \in DayRows(row.day) /\ After(row.day) = DayRows(row.day)
      BY <2>a, <2>2, <1>2
    <3>2. row \in rows
      BY <3>1 DEF DayRows
    <3> QED BY <3>1, <3>2 DEF IInv, StoredDayIsOneScan, WholeScan
  <2> QED BY <2>1, <2>2
<1>4. TypeOK'
  <2>1. \A a, b \in rows' : SameKey(a, b) => a = b
    <3> SUFFICES ASSUME NEW a \in rows', NEW b \in rows', SameKey(a, b) PROVE a = b
      OBVIOUS
    <3>1. After(a.day) = WholeScan(a.day, a.scan)
      BY <1>3 DEF StoredDayIsOneScan, WholeScan, DayRows, After
    <3>2. a \in After(a.day) /\ b \in After(a.day)
      BY DEF After, SameKey
    <3>3. PICK c \in a.scan.coins : a = [day |-> a.day, coin |-> c, scan |-> a.scan]
      BY <3>1, <3>2 DEF WholeScan
    <3>4. PICK e \in a.scan.coins : b = [day |-> a.day, coin |-> e, scan |-> a.scan]
      BY <3>1, <3>2 DEF WholeScan
    <3> QED BY <3>3, <3>4 DEF SameKey
  <2>2. dropped' \in [Runs -> SUBSET rows']
    <3> SUFFICES ASSUME NEW o \in Runs \ {r} PROVE dropped[o] \subseteq rows'
      BY <1>1
    <3>1. dropped[o] \subseteq DayRows(now[o])
      BY DEF IInv, DropsAll
    <3>2. dropped[o] # {} => After(now[o]) = DayRows(now[o])
      BY <1>2
    <3>3. After(now[o]) \subseteq rows'
      BY DEF After
    <3>4. dropped[o] # {} => dropped[o] \subseteq After(now[o])
      BY <3>1, <3>2
    <3> QED BY <3>3, <3>4
  <2>3. pc' \in [Runs -> Stages] /\ added' \in [Runs -> SUBSET Rows]
    BY <1>1 DEF Stages
  <2>4. \A o \in Runs : dropped'[o] \cup added'[o] # {} => pc'[o] \in {"insert", "commit"}
    BY <1>1
  <2> QED BY <1>1, <1>2, <2>1, <2>2, <2>3, <2>4 DEF IInv, TypeOK, SameKey, Writing, Stages, Replies
<1>5. SeenWhole'
  BY <1>1 DEF IInv, SeenWhole
<1>6. DropsAll'
  <2> SUFFICES ASSUME NEW o \in Runs \ {r}, dropped[o] # {} PROVE dropped[o] = After(now'[o])
    BY <1>1 DEF DropsAll, DayRows, After
  <2>1. dropped[o] = DayRows(now[o]) /\ now'[o] = now[o] /\ now[o] # now[r]
    BY <1>1, <1>2 DEF IInv, DropsAll
  <2> QED BY <2>1, <1>2
<1>7. AddsOwn'
  BY <1>1 DEF IInv, AddsOwn
<1>8. /\ ~HasBenchmark(r)'
      /\ \A o \in Runs \ {r} : HasBenchmark(o)' = HasBenchmark(o)
  BY <1>1 DEF HasBenchmark
<1>9. BenchmarkLocks'
  <2> SUFFICES ASSUME NEW o \in Runs \ {r}, HasBenchmark(o)
               PROVE  dropped'[o] = After(now'[o])
    BY <1>8 DEF BenchmarkLocks, DayRows, After
  <2>1. dropped'[o] = DayRows(now[o]) /\ now'[o] = now[o] /\ now[o] # now[r]
    BY <1>1, <1>2 DEF IInv, BenchmarkLocks
  <2> QED BY <2>1, <1>2
<1>10. OneWriterOfADay'
  BY <1>1, <1>8 DEF IInv, OneWriterOfADay
<1>11. AskedInTurn' /\ BestOfOneExchange'
  BY <1>1 DEF IInv, AskedInTurn, BestOfOneExchange
<1> QED BY <1>3, <1>4, <1>5, <1>6, <1>7, <1>9, <1>10, <1>11 DEF IInv

\* A day that closes touches no run,
LEMMA DayClosesKeeps == ASSUME ConstantsOK, IInv, DayCloses PROVE IInv'
<1> USE DEF IInv, DayCloses, store
<1>1. TypeOK'
  <2>1. day' \in Days
    BY Types DEF Days, ConstantsOK
  <2> QED BY <2>1 DEF TypeOK, SameKey, Writing
<1>2. StoredDayIsOneScan' /\ SeenWhole' /\ DropsAll' /\ AddsOwn'
  BY DEF StoredDayIsOneScan, SeenWhole, DropsAll, AddsOwn, DayRows
<1>3. BenchmarkLocks' /\ OneWriterOfADay'
  BY DEF BenchmarkLocks, OneWriterOfADay, HasBenchmark, DayRows
<1>4. AskedInTurn' /\ BestOfOneExchange'
  BY DEF AskedInTurn, BestOfOneExchange
<1> QED BY <1>1, <1>2, <1>3, <1>4

\* nor does a step that changes nothing.
LEMMA RestKeeps == ASSUME ConstantsOK, IInv, UNCHANGED vars PROVE IInv'
<1> USE DEF IInv, vars, store
<1>1. TypeOK'
  BY DEF TypeOK, SameKey, Writing
<1>2. StoredDayIsOneScan' /\ SeenWhole' /\ DropsAll' /\ AddsOwn'
  BY DEF StoredDayIsOneScan, SeenWhole, DropsAll, AddsOwn, DayRows
<1>3. BenchmarkLocks' /\ OneWriterOfADay'
  BY DEF BenchmarkLocks, OneWriterOfADay, HasBenchmark, DayRows
<1>4. AskedInTurn' /\ BestOfOneExchange'
  BY DEF AskedInTurn, BestOfOneExchange
<1> QED BY <1>1, <1>2, <1>3, <1>4

\* So every step keeps the invariant.
LEMMA NextKeeps == ASSUME ConstantsOK, IInv, Next PROVE IInv'
<1>1. ASSUME NEW r \in Runs,
             Step(r) \/ ScanFails(r) \/ QueryFails(r) \/ Dies(r)
      PROVE  IInv'
  BY <1>1, AskKeeps, OverKeeps, DropKeeps, InsertKeeps, CommitKeeps DEF Step
<1> QED BY <1>1, DayClosesKeeps DEF Next

\* A stored day has rows after the step: only a commit takes rows away, and it puts a
\* whole scan in their place.
LEMMA StandsOver == ASSUME ConstantsOK, IInv, Next PROVE DayStands
<1> SUFFICES ASSUME NEW d \in Days, NEW row \in rows, row.day = d
             PROVE  \E after \in rows' : after.day = d
  BY DEF DayStands, Stored
<1>1. CASE rows' = rows
  BY <1>1
<1>2. ASSUME NEW r \in Runs, Commit(r) PROVE \E after \in rows' : after.day = d
  <2>1. CASE d = now[r]
    <3> DEFINE new == [day |-> d, coin |-> Btc, scan |-> got[r]]
    <3>1. new \in After(now[r])
      BY <1>2, <2>1, AtCommit DEF WholeScan
    <3> HIDE DEF new
    <3> QED BY <3>1, <2>1 DEF After
  <2>2. CASE d # now[r]
    <3>1. row \in DayRows(d) /\ After(d) = DayRows(d)
      BY <1>2, <2>2, AtCommit DEF DayRows
    <3> QED BY <3>1 DEF After
  <2> QED BY <2>1, <2>2
<1>3. rows' = rows \/ \E r \in Runs : Commit(r)
  BY DEF Next, Step, Tick, AskBinance, AskOkx, LookForRows,
         DeleteRows, Insert, Conflict, Deadlock, Record, Watch,
         Send, ScanFails, QueryFails, Dies, DayCloses
<1> QED BY <1>1, <1>2, <1>3

-----------------------------------------------------------------------------
(* The theorems. *)

\* The inductive invariant, whichever runs overlap, fail, deadlock or die.
THEOREM Inductive == ASSUME ConstantsOK PROVE Spec => []IInv
<1>1. IInv /\ [Next]_vars => IInv'
  BY NextKeeps, RestKeeps
<1> QED BY <1>1, InitHolds, PTL DEF Spec

\* Each variable of the scan keeps its type.
THEOREM TypeCorrect == ASSUME ConstantsOK PROVE Spec => []TypeOK
<1>1. IInv => TypeOK
  BY DEF IInv
<1> QED BY <1>1, Inductive, PTL

\* saveCoinScan: the rows of a day are those of one scan.
THEOREM OneScanADay == ASSUME ConstantsOK PROVE Spec => []StoredDayIsOneScan
<1>1. IInv => StoredDayIsOneScan
  BY DEF IInv
<1> QED BY <1>1, Inductive, PTL

\* saveCoinScan: no step leaves a stored day without rows.
THEOREM DaysStand == ASSUME ConstantsOK PROVE Spec => DayStaysStored
<1>1. IInv /\ [Next]_vars => [DayStands]_vars
  BY StandsOver
<1> QED BY <1>1, Inductive, PTL DEF Spec, DayStaysStored
=============================================================================
