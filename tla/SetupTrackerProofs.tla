------------------------- MODULE SetupTrackerProofs -------------------------
(***************************************************************************)
(* Proofs about the 4H setup tracker of the scanned coins, for any number  *)
(* of workers, coins, bars and faults, any wicks and an exchange that      *)
(* refuses as it likes.                                                    *)
(***************************************************************************)
EXTENDS SetupTracker, WellFoundedInduction, TLAPS

Places == {"idle", "coin", "bars", "judge", "insert", "alert"}

\* A run has a bar it stops at, a coin with daily bars once it reads one, and
\* setups to judge only while it judges.
RunOK ==
  /\ \A r \in Runs : pc[r] # "idle" => upto[r] \in 1 .. bar
  /\ \A r \in Runs : pc[r] \notin {"idle", "coin"} => coin[r] \in Coins /\ Source(r) \in Exchanges
  /\ \A r \in Runs : open[r] # {} => pc[r] = "judge"

Typed == ConstantsOK /\ TypeOK /\ RunOK

\* What a step of run r leaves of the others.
OthersStay(r) ==
  \A o \in Runs \ {r} : /\ pc'[o] = pc[o] /\ coin'[o] = coin[o] /\ cache'[o] = cache[o]
                        /\ upto'[o] = upto[o] /\ open'[o] = open[o]

\* The types of what a run keeps.
RunTyped ==
  /\ pc \in [Runs -> Places]
  /\ targets \in [Runs -> SUBSET Coins] /\ fresh \in [Runs -> SUBSET Coins]
  /\ off \in [Runs -> BOOLEAN]
  /\ cache \in [Runs -> [Coins -> Exchanges \cup {None}]]
  /\ coin \in [Runs -> Coins \cup {None}]
  /\ oldDay \in [Runs -> BOOLEAN] /\ upto \in [Runs -> 0 .. LastBar]
  /\ open \in [Runs -> SUBSET Keys]

\* The types of the tables.
SetupsTyped == setups \in SUBSET Setups /\ \A s, z \in setups : Key(s) = Key(z) => s = z

\* Between two coins a run has nothing to judge.
LEMMA NextCoinFacts ==
  ASSUME Typed, NEW r \in Runs, NEW refused \in BOOLEAN, NextCoin(r, refused)
  PROVE  /\ RunTyped'
         /\ OthersStay(r)
         /\ open'[r] = {}
         /\ pc'[r] = "idle" \/ (pc'[r] = "coin" /\ upto'[r] = upto[r])
<1>1. coin' \in [Runs -> Coins \cup {None}] /\ open' \in [Runs -> SUBSET Keys] /\ open'[r] = {}
  BY DEF NextCoin, Forget, Typed, TypeOK
<1>2. \A o \in Runs \ {r} : coin'[o] = coin[o] /\ open'[o] = open[o]
  BY DEF NextCoin, Forget, Typed, TypeOK
<1>3. CASE targets[r] = {coin[r]}
  <2>1. Ends(r)
    BY <1>3 DEF NextCoin
  <2>2. pc' \in [Runs -> Places] /\ pc'[r] = "idle" /\ targets' \in [Runs -> SUBSET Coins]
    BY <2>1 DEF Ends, Goto, Typed, TypeOK, Places
  <2>3. /\ fresh' \in [Runs -> SUBSET Coins] /\ off' \in [Runs -> BOOLEAN]
        /\ oldDay' \in [Runs -> BOOLEAN]
    BY <2>1 DEF Ends, Typed, TypeOK
  <2>4. upto' \in [Runs -> 0 .. LastBar]
    BY <2>1 DEF Ends, Typed, TypeOK, ConstantsOK
  <2>5. NoCache \in [Coins -> Exchanges \cup {None}]
    BY DEF NoCache
  <2>6. cache' \in [Runs -> [Coins -> Exchanges \cup {None}]]
    BY <2>1, <2>5 DEF Ends, Typed, TypeOK
  <2>7. \A o \in Runs \ {r} : pc'[o] = pc[o] /\ cache'[o] = cache[o] /\ upto'[o] = upto[o]
    BY <2>1 DEF Ends, Goto, Typed, TypeOK
  <2> QED BY <1>1, <1>2, <2>2, <2>3, <2>4, <2>6, <2>7 DEF RunTyped, OthersStay
<1>4. CASE targets[r] # {coin[r]}
  <2>1. /\ Goto(r, "coin")
        /\ targets' = [targets EXCEPT ![r] = @ \ {coin[r]}]
        /\ off' = [off EXCEPT ![r] = refused]
        /\ UNCHANGED <<fresh, upto, cache, oldDay>>
    BY <1>4 DEF NextCoin, days
  <2>2. pc' \in [Runs -> Places] /\ pc'[r] = "coin" /\ \A o \in Runs \ {r} : pc'[o] = pc[o]
    BY <2>1 DEF Goto, Typed, TypeOK, Places
  <2>3. targets' \in [Runs -> SUBSET Coins] /\ off' \in [Runs -> BOOLEAN]
    BY <2>1 DEF Typed, TypeOK
  <2> QED BY <1>1, <1>2, <2>1, <2>2, <2>3 DEF RunTyped, OthersStay, Typed, TypeOK
<1> QED BY <1>3, <1>4

\* What is left of RunOK after a run has moved on.
LEMMA NextCoinKeeps ==
  ASSUME Typed, NEW r \in Runs, NEW refused \in BOOLEAN, NextCoin(r, refused), UNCHANGED bar,
         pc[r] # "idle"
  PROVE  RunOK'
<1>1. /\ OthersStay(r) /\ open'[r] = {}
      /\ pc'[r] = "idle" \/ (pc'[r] = "coin" /\ upto'[r] = upto[r])
  BY NextCoinFacts
<1> QED BY <1>1 DEF Typed, RunOK, OthersStay, Source

\* The count of faults stays in its bound.
LEMMA FaultyTyped == ASSUME Typed, Faulty \/ UNCHANGED faults PROVE faults' \in 0 .. MaxFaults
BY DEF Faulty, Typed, TypeOK, ConstantsOK
-----------------------------------------------------------------------------
(* Types, action by action. *)

\* The types, by the parts that different steps write.
LEMMA TypeParts ==
  TypeOK <=> /\ bar \in Bars
             /\ touch \in [Exchanges -> [Bars -> {"none", "stop", "target"}]]
             /\ refusing \in BOOLEAN /\ scanned \in SUBSET Coins
             /\ SetupsTyped /\ alerted \in [Keys -> 0 .. 2]
             /\ RunTyped /\ faults \in 0 .. MaxFaults
BY DEF TypeOK, RunTyped, SetupsTyped, Places

\* runCoinSetupCycle, as it begins.
LEMMA BeginTyped ==
  ASSUME Typed, NEW r \in Runs, Begin(r)
  PROVE  TypeOK' /\ RunOK' /\ OthersStay(r) /\ open' = open
<1>1. Targets \subseteq Coins
  BY DEF Targets, Open, Typed, TypeOK, Setups
<1>2. faults' \in 0 .. MaxFaults
  BY FaultyTyped DEF Begin
<1>3. bar \in 0 .. LastBar /\ bar \in 1 .. bar
  BY DEF Typed, TypeOK, Bars, ConstantsOK
<1>4. /\ pc' \in [Runs -> Places] /\ pc'[r] = "coin" /\ upto' \in [Runs -> 0 .. LastBar]
      /\ upto'[r] = bar
  BY <1>3 DEF Begin, Goto, Typed, TypeOK, Places
<1>5. targets' \in [Runs -> SUBSET Coins] /\ fresh' \in [Runs -> SUBSET Coins]
  BY <1>1 DEF Begin, Typed, TypeOK
<1>6. UNCHANGED <<market, tables, off, days, read>>
  BY DEF Begin
<1>7. OthersStay(r)
  BY <1>6 DEF Begin, Goto, Typed, TypeOK, OthersStay, days, read
<1>8. open[r] = {} /\ open'[r] = {}
  BY <1>6 DEF Begin, Typed, RunOK, read
<1>9. TypeOK'
  BY <1>2, <1>4, <1>5, <1>6 DEF Typed, TypeOK, Places, market, tables, days, read
<1>10. RunOK'
  BY <1>3, <1>4, <1>6, <1>7, <1>8 DEF Typed, RunOK, OthersStay, Source, market
<1> QED BY <1>6, <1>7, <1>9, <1>10 DEF read

\* The daily bars are read, from the cache or the exchange.
LEMMA ReadDailyTyped ==
  ASSUME Typed, NEW r \in Runs, ReadDaily(r)
  PROVE  TypeOK' /\ RunOK' /\ OthersStay(r) /\ open' = open
<1>1. PICK c \in targets[r] :
       /\ coin' = [coin EXCEPT ![r] = c]
       /\ \/ /\ Cached(r, c)
             /\ UNCHANGED <<cache, off, faults>>
          \/ /\ ~Cached(r, c)
             /\ \E e \in Exchanges :
                  /\ cache' = [cache EXCEPT ![r][c] = e]
                  /\ CASE off[r] \/ refusing -> e = "okx" /\ UNCHANGED faults
                       [] e = "okx" -> Faulty
                       [] OTHER -> UNCHANGED faults
             /\ off' = [off EXCEPT ![r] = @ \/ refusing]
  BY DEF ReadDaily
<1>2. /\ c \in Coins /\ pc[r] = "coin" /\ Goto(r, "bars")
      /\ UNCHANGED <<market, tables, targets, fresh, upto, oldDay, open>>
  BY DEF ReadDaily, Typed, TypeOK
<1>3. /\ cache' \in [Runs -> [Coins -> Exchanges \cup {None}]] /\ off' \in [Runs -> BOOLEAN]
      /\ cache'[r][c] \in Exchanges /\ \A o \in Runs \ {r} : cache'[o] = cache[o]
  <2>1. CASE Cached(r, c) /\ UNCHANGED <<cache, off, faults>>
    BY <1>2, <2>1 DEF Cached, Typed, TypeOK
  <2>2. ASSUME NEW e \in Exchanges, cache' = [cache EXCEPT ![r][c] = e],
               off' = [off EXCEPT ![r] = @ \/ refusing]
        PROVE  /\ cache' \in [Runs -> [Coins -> Exchanges \cup {None}]] /\ off' \in [Runs -> BOOLEAN]
               /\ cache'[r][c] \in Exchanges /\ \A o \in Runs \ {r} : cache'[o] = cache[o]
    <3>1. cache' \in [Runs -> [Coins -> Exchanges \cup {None}]]
      BY <1>2, <2>2 DEF Typed, TypeOK
    <3>2. off' \in [Runs -> BOOLEAN]
      BY <2>2, Zenon DEF Typed, TypeOK
    <3>3. cache'[r][c] \in Exchanges /\ \A o \in Runs \ {r} : cache'[o] = cache[o]
      BY <1>2, <2>2 DEF Typed, TypeOK
    <3> QED BY <3>1, <3>2, <3>3
  <2> QED BY <1>1, <2>1, <2>2
<1>4. faults' \in 0 .. MaxFaults
  <2>1. Faulty \/ UNCHANGED faults
    <3>1. CASE Cached(r, c)
      BY <1>1, <3>1
    <3>2. CASE ~Cached(r, c)
      <4>1. PICK e \in Exchanges : CASE off[r] \/ refusing -> e = "okx" /\ UNCHANGED faults
                                     [] e = "okx" -> Faulty
                                     [] OTHER -> UNCHANGED faults
        BY <1>1, <3>2
      <4>2. CASE off[r] \/ refusing
        BY <4>1, <4>2 DEF Faulty
      <4>3. CASE ~(off[r] \/ refusing)
        BY <4>1, <4>3
      <4> QED BY <4>2, <4>3
    <3> QED BY <3>1, <3>2
  <2> QED BY <2>1, FaultyTyped
<1>5. /\ coin' \in [Runs -> Coins \cup {None}] /\ coin'[r] = c
      /\ \A o \in Runs \ {r} : coin'[o] = coin[o]
  BY <1>1, <1>2 DEF Typed, TypeOK
<1>6. pc' \in [Runs -> Places] /\ pc'[r] = "bars" /\ \A o \in Runs \ {r} : pc'[o] = pc[o]
  BY <1>2 DEF Goto, Typed, TypeOK, Places
<1>7. TypeOK'
  BY <1>2, <1>3, <1>4, <1>5, <1>6 DEF Typed, TypeOK, Places, market, tables
<1>8. OthersStay(r)
  BY <1>2, <1>3, <1>5, <1>6 DEF OthersStay
<1>9. RunOK'
  BY <1>2, <1>3, <1>5, <1>6, <1>8 DEF Typed, RunOK, OthersStay, Source, market
<1> QED BY <1>2, <1>7, <1>8, <1>9

\* A run that goes on to the next coin, whatever it has done to the tables.
LEMMA NextCoinTyped ==
  ASSUME Typed, NEW r \in Runs, NEW refused \in BOOLEAN, NextCoin(r, refused), UNCHANGED market,
         pc[r] # "idle", SetupsTyped', alerted' \in [Keys -> 0 .. 2], Faulty \/ UNCHANGED faults
  PROVE  TypeOK' /\ RunOK' /\ OthersStay(r)
<1>1. RunTyped' /\ OthersStay(r)
  BY NextCoinFacts
<1>2. RunOK'
  BY NextCoinKeeps DEF market
<1>3. faults' \in 0 .. MaxFaults
  BY FaultyTyped
<1> QED BY <1>1, <1>2, <1>3 DEF Typed, TypeOK, RunTyped, SetupsTyped, Places, market

\* The same, when it has done nothing to them.
LEMMA MovesOnTyped ==
  ASSUME Typed, NEW r \in Runs, NEW refused \in BOOLEAN, NextCoin(r, refused),
         UNCHANGED <<market, tables>>,
         pc[r] # "idle", Faulty \/ UNCHANGED faults
  PROVE  TypeOK' /\ RunOK' /\ OthersStay(r)
<1>1. SetupsTyped' /\ alerted' \in [Keys -> 0 .. 2]
  BY DEF Typed, TypeOK, SetupsTyped, tables, Key
<1> QED BY <1>1, NextCoinTyped

\* Whether a run has given up Binance is yes or no.
LEMMA OffTyped == ASSUME Typed, NEW r \in Runs PROVE off[r] \in BOOLEAN /\ TRUE \in BOOLEAN
BY DEF Typed, TypeOK

\* scanSetups reads the open setups of the coin.
LEMMA ReadOpenTyped ==
  ASSUME Typed, NEW r \in Runs, ReadOpen(r)
  PROVE  TypeOK' /\ RunOK' /\ OthersStay(r)
<1>1. {Key(s) : s \in {z \in Open : z.coin = coin[r] /\ SameVenue(z, Source(r))}} \subseteq Keys
  BY DEF Open, Key, Keys, Typed, TypeOK, Setups
<1>2. open' \in [Runs -> SUBSET Keys] /\ \A o \in Runs \ {r} : open'[o] = open[o]
  BY <1>1 DEF ReadOpen, Typed, TypeOK
<1>3. pc' \in [Runs -> Places] /\ pc'[r] = "judge" /\ \A o \in Runs \ {r} : pc'[o] = pc[o]
  BY DEF ReadOpen, Goto, Typed, TypeOK, Places
<1>4. pc[r] = "bars" /\ UNCHANGED <<market, tables, plan, days, coin, faults>>
  BY DEF ReadOpen
<1>5. TypeOK'
  BY <1>2, <1>3, <1>4 DEF Typed, TypeOK, Places, market, tables, plan, days, Key
<1>6. OthersStay(r)
  BY <1>2, <1>3, <1>4 DEF OthersStay, plan, days
<1>7. RunOK'
  BY <1>3, <1>4, <1>6 DEF Typed, RunOK, OthersStay, Source, market, plan, days
<1> QED BY <1>5, <1>6, <1>7

\* A set of bars that is not empty has a first one.
LEMMA Least ==
  ASSUME NEW S \in SUBSET Nat, S # {}
  PROVE  \E t \in S : \A u \in S : t <= u
<1> DEFINE R == OpToRel(<, Nat)
<1>1. IsWellFoundedOn(R, Nat)
  BY NatLessThanWellFounded
<1>2. \A x, y \in Nat : y < x => <<y, x>> \in R
  BY DEF OpToRel
<1> HIDE DEF R
<1>3. PICK t \in S : \A u \in S : ~ (<<u, t>> \in R)
  BY <1>1, WFMin
<1>4. ASSUME NEW u \in S PROVE t <= u
  <2>1. ~(u < t)
    BY <1>2, <1>3
  <2> QED BY <2>1
<1> QED BY <1>4

\* What a setup has come to is that it is open, or a level that was touched.
LEMMA FirstTouchTyped ==
  ASSUME Typed, NEW e \in Exchanges, NEW ts \in SUBSET Bars
  PROVE  FirstTouch(e, ts) \in {"open", "stop", "target"}
<1> DEFINE hits == {t \in ts : touch[e][t] # "none"}
           t0   == CHOOSE t \in hits : \A u \in hits : t <= u
<1>1. CASE hits = {}
  BY <1>1 DEF FirstTouch
<1>2. CASE hits # {}
  <2>1. hits \in SUBSET Nat
    <3> HIDE DEF t0
    <3>1. Bars \subseteq Nat
      BY DEF Bars
    <3>2. hits \subseteq ts
      OBVIOUS
    <3> HIDE DEF hits
    <3> QED BY <3>1, <3>2
  <2>2. \E t \in hits : \A u \in hits : t <= u
    BY <1>2, <2>1, Least
  <2>3. t0 \in hits
    BY <2>2
  <2>4. FirstTouch(e, ts) = touch[e][t0]
    BY <1>2 DEF FirstTouch
  <2> HIDE DEF t0
  <2>5. touch[e][t0] \in {"none", "stop", "target"} /\ touch[e][t0] # "none"
    BY <2>3 DEF Typed, TypeOK
  <2> QED BY <2>4, <2>5
<1> QED BY <1>1, <1>2

\* A setup after it was judged.
Judged(s, k, e, last) ==
  IF Key(s) = k /\ Closable(s) /\ Outcome(e, last, k.bar) # "open"
    THEN [s EXCEPT !.status = Outcome(e, last, k.bar), !.at = last] ELSE s

\* A resolving run judges each setup it holds as open.
LEMMA ResolveFacts ==
  ASSUME NEW r \in Runs, Resolve(r)
  PROVE  \E k \in open[r] : /\ setups' = {Judged(s, k, Source(r), upto[r]) : s \in setups}
                            /\ open' = [open EXCEPT ![r] = @ \ {k}]
BY DEF Resolve, Judged

\* A judged setup is a setup.
LEMMA JudgedTyped ==
  ASSUME Typed, NEW s \in Setups, NEW k \in Keys, NEW e \in Exchanges, NEW last \in 0 .. LastBar
  PROVE  Judged(s, k, e, last) \in Setups /\ Key(Judged(s, k, e, last)) = Key(s)
<1> DEFINE o == Outcome(e, last, k.bar)
<1>1. After(last, k.bar) \in SUBSET Bars
  BY DEF After
<1>2. FirstTouch(e, After(last, k.bar)) \in {"open", "stop", "target"}
  BY <1>1, FirstTouchTyped
<1>3. o \in {"open", "stop", "target", "expired"}
  BY <1>2 DEF Outcome
<1> HIDE DEF o
<1>4. CASE Judged(s, k, e, last) = s
  BY <1>4
<1>5. CASE Judged(s, k, e, last) = [s EXCEPT !.status = o, !.at = last]
  BY <1>3, <1>5 DEF Setups, Statuses, Key
<1> QED BY <1>4, <1>5 DEF Judged, o

\* resolveTradeSetup.
LEMMA ResolveTyped ==
  ASSUME Typed, NEW r \in Runs, Resolve(r)
  PROVE  TypeOK' /\ RunOK' /\ OthersStay(r)
<1>1. PICK k \in open[r] : /\ setups' = {Judged(s, k, Source(r), upto[r]) : s \in setups}
                          /\ open' = [open EXCEPT ![r] = @ \ {k}]
  BY ResolveFacts
<1>2. pc[r] = "judge" /\ UNCHANGED <<market, alerted, pc, plan, days, coin, faults>>
  BY DEF Resolve
<1>3. k \in Keys /\ Source(r) \in Exchanges /\ upto[r] \in 0 .. LastBar
  BY <1>2 DEF Typed, TypeOK, RunOK
<1>4. \A s \in setups : /\ Judged(s, k, Source(r), upto[r]) \in Setups
                       /\ Key(Judged(s, k, Source(r), upto[r])) = Key(s)
  BY <1>3, JudgedTyped DEF Typed, TypeOK
<1>5. SetupsTyped'
  <2>1. setups' \subseteq Setups
    BY <1>1, <1>4
  <2>2. \A s, z \in setups' : Key(s) = Key(z) => s = z
    BY <1>1, <1>4 DEF Typed, TypeOK
  <2> QED BY <2>1, <2>2 DEF SetupsTyped, Key
<1>6. open' \in [Runs -> SUBSET Keys] /\ \A o \in Runs \ {r} : open'[o] = open[o]
  BY <1>1 DEF Typed, TypeOK
<1>7. TypeOK'
  BY <1>2, <1>5, <1>6 DEF Typed, TypeOK, SetupsTyped, market, plan, days
<1>8. OthersStay(r)
  BY <1>2, <1>6 DEF OthersStay, plan, days
<1>9. RunOK'
  BY <1>2, <1>8 DEF Typed, RunOK, OthersStay, Source, market, plan, days
<1> QED BY <1>7, <1>8, <1>9

\* A run that stays with its coin, at another place where it has nothing to judge.
LEMMA GotoTyped ==
  ASSUME Typed, NEW r \in Runs, NEW place \in {"insert", "alert"}, Goto(r, place),
         UNCHANGED <<plan, days, read>>,
         UNCHANGED <<market, alerted, faults>>, SetupsTyped', pc[r] \notin {"idle", "coin"},
              open[r] = {}
  PROVE  TypeOK' /\ RunOK' /\ OthersStay(r)
<1>1. pc' \in [Runs -> Places] /\ pc'[r] = place /\ \A o \in Runs \ {r} : pc'[o] = pc[o]
  BY DEF Goto, Typed, TypeOK, Places
<1>2. TypeOK'
  BY <1>1 DEF Typed, TypeOK, SetupsTyped, Places, market, plan, days, read
<1>3. OthersStay(r)
  BY <1>1 DEF OthersStay, plan, days, read
<1>4. RunOK'
  BY <1>1, <1>3 DEF Typed, RunOK, OthersStay, Source, market, plan, days, read
<1> QED BY <1>2, <1>3, <1>4

\* detectSetups.
LEMMA DetectTyped ==
  ASSUME Typed, NEW r \in Runs, Detect(r)
  PROVE  TypeOK' /\ RunOK' /\ OthersStay(r)
<1>1. pc[r] = "judge" /\ open[r] = {} /\ UNCHANGED <<market, tables, faults>>
  BY DEF Detect
<1>2. CASE Goto(r, "insert") /\ UNCHANGED <<plan, days, read>>
  <2>1. SetupsTyped'
    BY <1>1 DEF Typed, TypeOK, SetupsTyped, tables, Key
  <2> QED BY <1>1, <1>2, <2>1, GotoTyped DEF tables
<1>3. CASE NextCoin(r, off[r])
  BY <1>1, <1>3, OffTyped, MovesOnTyped
<1> QED BY <1>2, <1>3 DEF Detect

\* Where it is inserted and alerted, a setup is one of Keys.
LEMMA FoundTyped ==
  ASSUME Typed, NEW r \in Runs, pc[r] \notin {"idle", "coin"}
  PROVE  Found(r) \in Keys
<1>1. upto[r] \in 1 .. bar /\ bar \in 1 .. LastBar /\ coin[r] \in Coins
  BY DEF Typed, TypeOK, RunOK, Bars
<1>2. upto[r] \in Bars
  BY <1>1 DEF Bars, Typed, ConstantsOK
<1> QED BY <1>1, <1>2 DEF Found, Keys

\* insertTradeSetup.
LEMMA InsertTyped ==
  ASSUME Typed, NEW r \in Runs, Insert(r)
  PROVE  TypeOK' /\ RunOK' /\ OthersStay(r)
<1>1. pc[r] = "insert" /\ UNCHANGED <<market, alerted, faults>> /\ open[r] = {}
  BY DEF Insert, Typed, RunOK
<1>2. Found(r) \in Keys /\ Source(r) \in Exchanges
  BY <1>1, FoundTyped DEF Typed, RunOK
<1> DEFINE s == [coin |-> coin[r], bar |-> upto[r], exchange |-> Source(r), status |-> "open", at |-> 0]
<1>3. s \in Setups /\ Key(s) = Found(r)
  BY <1>2 DEF Found, Keys, Setups, Statuses, Key, Typed, ConstantsOK
<1>4. setups' = IF Clash(Found(r)) THEN setups ELSE setups \cup {s}
  BY DEF Insert
<1> HIDE DEF s
<1>5. SetupsTyped'
  <2>1. CASE Clash(Found(r))
    BY <1>4, <2>1 DEF Typed, TypeOK, SetupsTyped, Key
  <2>2. CASE ~Clash(Found(r))
    <3>1. setups' = setups \cup {s} /\ \A z \in setups : Key(z) # Key(s)
      BY <1>3, <1>4, <2>2 DEF Clash
    <3>2. \A y, z \in setups' : Key(y) = Key(z) => y = z
      BY <3>1 DEF Typed, TypeOK
    <3> QED BY <1>3, <3>1, <3>2 DEF Typed, TypeOK, SetupsTyped, Key
  <2> QED BY <2>1, <2>2
<1>6. CASE Goto(r, "alert") /\ UNCHANGED <<plan, days, read>>
  BY <1>1, <1>5, <1>6, GotoTyped
<1>7. CASE NextCoin(r, off[r])
  BY <1>1, <1>5, <1>7, OffTyped, NextCoinTyped DEF Typed, TypeOK
<1> QED BY <1>6, <1>7 DEF Insert

\* alertSetup.
LEMMA AlertTyped ==
  ASSUME Typed, NEW r \in Runs, Alert(r)
  PROVE  TypeOK' /\ RunOK' /\ OthersStay(r)
<1>1. pc[r] = "alert" /\ NextCoin(r, off[r]) /\ UNCHANGED <<market, setups, faults>>
  BY DEF Alert
<1>2. Found(r) \in Keys
  BY <1>1, FoundTyped
<1>3. alerted[Found(r)] \in 0 .. 2
  BY <1>2 DEF Typed, TypeOK
<1>4. (IF alerted[Found(r)] = 2 THEN 2 ELSE alerted[Found(r)] + 1) \in 0 .. 2
  BY <1>3
<1>5. alerted' = [alerted EXCEPT ![Found(r)] = IF @ = 2 THEN 2 ELSE @ + 1]
  BY DEF Alert
<1>6. alerted' \in [Keys -> 0 .. 2]
  BY <1>2, <1>4, <1>5 DEF Typed, TypeOK
<1>7. SetupsTyped'
  BY <1>1 DEF Typed, TypeOK, SetupsTyped, Key
<1> QED BY <1>1, <1>6, <1>7, OffTyped, NextCoinTyped

\* The worker dies and starts again.
LEMMA DiesTyped ==
  ASSUME Typed, NEW r \in Runs, Dies(r)
  PROVE  TypeOK' /\ RunOK' /\ OthersStay(r) /\ pc'[r] = "idle" /\ open'[r] = {}
<1>1. pc' \in [Runs -> Places] /\ pc'[r] = "idle" /\ \A o \in Runs \ {r} : pc'[o] = pc[o]
  BY DEF Dies, Goto, Typed, TypeOK, Places
<1>2. targets' \in [Runs -> SUBSET Coins] /\ fresh' \in [Runs -> SUBSET Coins]
  BY DEF Dies, Typed, TypeOK
<1>3. off' \in [Runs -> BOOLEAN] /\ oldDay' \in [Runs -> BOOLEAN]
  BY DEF Dies, Typed, TypeOK
<1>4. upto' \in [Runs -> 0 .. LastBar] /\ \A o \in Runs \ {r} : upto'[o] = upto[o]
  BY DEF Dies, Typed, TypeOK, ConstantsOK
<1>5. NoCache \in [Coins -> Exchanges \cup {None}]
  BY DEF NoCache
<1>6. /\ cache' \in [Runs -> [Coins -> Exchanges \cup {None}]]
      /\ \A o \in Runs \ {r} : cache'[o] = cache[o]
  BY <1>5 DEF Dies, Typed, TypeOK
<1>7. /\ coin' \in [Runs -> Coins \cup {None}] /\ \A o \in Runs \ {r} : coin'[o] = coin[o]
      /\ open' \in [Runs -> SUBSET Keys] /\ open'[r] = {}
      /\ \A o \in Runs \ {r} : open'[o] = open[o]
  BY DEF Dies, Forget, Typed, TypeOK
<1>8. faults' \in 0 .. MaxFaults
  BY FaultyTyped DEF Dies
<1>9. UNCHANGED <<market, tables>>
  BY DEF Dies
<1>10. TypeOK'
  BY <1>1, <1>2, <1>3, <1>4, <1>6, <1>7, <1>8, <1>9 DEF Typed, TypeOK, Places, market, tables, Key
<1>11. OthersStay(r)
  BY <1>1, <1>4, <1>6, <1>7 DEF OthersStay
<1>12. RunOK'
  BY <1>1, <1>7, <1>9, <1>11 DEF Typed, RunOK, OthersStay, Source, market
<1> QED BY <1>1, <1>7, <1>10, <1>11, <1>12

\* A bar closes.
LEMMA BarClosesTyped ==
  ASSUME Typed, BarCloses
  PROVE  TypeOK' /\ RunOK'
<1>1. bar' \in Bars /\ bar' = bar + 1 /\ bar \in Nat
  BY DEF BarCloses, Typed, TypeOK, Bars, ConstantsOK
<1>2. PICK b \in {"none", "stop", "target"}, o \in {"none", "stop", "target"} :
         touch' = [touch EXCEPT !["binance"][bar + 1] = b, !["okx"][bar + 1] = o]
  BY DEF BarCloses
<1>3. touch' \in [Exchanges -> [Bars -> {"none", "stop", "target"}]]
  BY <1>1, <1>2 DEF Typed, TypeOK, Exchanges
<1>4. UNCHANGED <<refusing, scanned, tables, pc, plan, days, read, faults>>
  BY DEF BarCloses
<1>5. TypeOK'
  BY <1>1, <1>3, <1>4 DEF Typed, TypeOK, tables, plan, days, read, Key
<1>6. \A r \in Runs : upto[r] \in 1 .. bar => upto'[r] \in 1 .. bar'
  BY <1>1, <1>4 DEF plan
<1>7. RunOK'
  BY <1>4, <1>6 DEF Typed, RunOK, Source, plan, days, read
<1> QED BY <1>5, <1>7

\* A day ends.
LEMMA DayEndsTyped ==
  ASSUME Typed, DayEnds
  PROVE  /\ TypeOK' /\ RunOK'
         /\ \A r \in Runs : pc[r] # "idle" => cache'[r] = cache[r]
<1>1. NoCache \in [Coins -> Exchanges \cup {None}]
  BY DEF NoCache
<1>2. /\ oldDay' = [r \in Runs |-> pc[r] # "idle"]
      /\ cache' = [r \in Runs |-> IF pc[r] = "idle" THEN NoCache ELSE cache[r]]
      /\ UNCHANGED <<market, tables, pc, plan, read, faults>>
  BY DEF DayEnds
<1>3. oldDay' \in [Runs -> BOOLEAN]
  BY <1>2, Zenon
<1>4. /\ cache' \in [Runs -> [Coins -> Exchanges \cup {None}]]
      /\ \A r \in Runs : pc[r] # "idle" => cache'[r] = cache[r]
  BY <1>1, <1>2 DEF Typed, TypeOK
<1>5. TypeOK'
  BY <1>2, <1>3, <1>4 DEF Typed, TypeOK, market, tables, plan, read, Key
<1>6. RunOK'
  BY <1>2, <1>4 DEF Typed, RunOK, Source, market, plan, read
<1> QED BY <1>4, <1>5, <1>6

\* Each step keeps the types, with what a run holds between two awaits.
LEMMA TypeStep ==
  ASSUME Typed, [Next]_vars
  PROVE  Typed'
<1>1. ASSUME NEW r \in Runs, Step(r) PROVE TypeOK' /\ RunOK'
  <2>1. CASE Begin(r) BY <2>1, BeginTyped
  <2>2. CASE ReadDaily(r) BY <2>2, ReadDailyTyped
  <2>3. CASE ReadOpen(r) BY <2>3, ReadOpenTyped
  <2>4. CASE Fetch4hRefused(r)
    BY <2>4, OffTyped, MovesOnTyped DEF Fetch4hRefused
  <2>5. CASE Resolve(r) BY <2>5, ResolveTyped
  <2>6. CASE Detect(r) BY <2>6, DetectTyped
  <2>7. CASE Insert(r) BY <2>7, InsertTyped
  <2>8. CASE Alert(r) BY <2>8, AlertTyped
  <2> QED BY <1>1, <2>1, <2>2, <2>3, <2>4, <2>5, <2>6, <2>7, <2>8 DEF Step
<1>2. ASSUME NEW r \in Runs, CoinFails(r) PROVE TypeOK' /\ RunOK'
  BY <1>2, OffTyped, MovesOnTyped DEF CoinFails
<1>3. ASSUME NEW r \in Runs, Dies(r) PROVE TypeOK' /\ RunOK'
  BY <1>3, DiesTyped
<1>4. CASE BarCloses BY <1>4, BarClosesTyped DEF Typed
<1>5. CASE DayEnds BY <1>5, DayEndsTyped DEF Typed
<1>6. CASE ScanChanges
  <2>1. UNCHANGED <<bar, touch, refusing, setups, alerted, pc, targets, fresh, upto, off, cache,
       oldDay, coin, open, faults>>
    BY <1>6 DEF ScanChanges, tables, plan, days, read
  <2>2. TypeOK'
    BY <1>6, <2>1 DEF ScanChanges, Typed, TypeOK, Key
  <2> QED BY <2>1, <2>2 DEF Typed, RunOK, Source
<1>7. CASE BinanceTurns
  <2>1. UNCHANGED <<bar, touch, scanned, setups, alerted, pc, targets, fresh, upto, off, cache,
       oldDay, coin, open>>
    BY <1>7 DEF BinanceTurns, tables, plan, days, read
  <2>2. faults' \in 0 .. MaxFaults
    BY <1>7, FaultyTyped DEF BinanceTurns
  <2>3. refusing' \in BOOLEAN
    BY <1>7 DEF BinanceTurns
  <2>4. TypeOK'
    BY <2>1, <2>2, <2>3 DEF Typed, TypeOK, Key
  <2> QED BY <2>1, <2>4 DEF Typed, RunOK, Source
<1>8. CASE UNCHANGED vars
  <2>1. UNCHANGED <<bar, touch, refusing, scanned, setups, alerted, pc, targets, fresh, upto,
       off, cache, oldDay, coin, open, faults>>
    BY <1>8 DEF vars, market, tables, plan, days, read
  <2> QED BY <2>1 DEF Typed, TypeOK, RunOK, Source, Key
<1> QED BY <1>1, <1>2, <1>3, <1>4, <1>5, <1>6, <1>7, <1>8 DEF Next, Typed

\* They hold at first.
LEMMA TypeInit == ASSUME ConstantsOK, Init PROVE Typed
<1>1. 1 \in Bars /\ 0 \in 0 .. LastBar /\ 0 \in 0 .. MaxFaults
  BY DEF ConstantsOK, Bars
<1>2. RunOK
  BY DEF Init, RunOK
<1>3. TypeOK
  BY <1>1 DEF Init, TypeOK
<1> QED BY <1>2, <1>3 DEF Typed

\* Every variable keeps its type.
THEOREM TypeCorrect == ASSUME ConstantsOK PROVE Spec => []TypeOK
<1>1. Init => Typed
  BY TypeInit
<1>2. Typed /\ [Next]_vars => Typed'
  BY TypeStep
<1>3. Typed => TypeOK
  BY DEF Typed
<1> QED BY <1>1, <1>2, <1>3, PTL DEF Spec
-----------------------------------------------------------------------------
(* Closed once, alerted once. *)

\* What a step does to the setups: nothing, it judges one, or it adds one.
LEMMA SetupsStep ==
  ASSUME Typed, [Next]_vars
  PROVE  \/ UNCHANGED setups
         \/ \E r \in Runs : Resolve(r)
         \/ \E r \in Runs : Insert(r)
<1>1. ASSUME NEW r \in Runs, Step(r)
      PROVE  UNCHANGED setups \/ Resolve(r) \/ Insert(r)
  BY <1>1 DEF Step, Begin, ReadDaily, ReadOpen, Fetch4hRefused, Detect, Alert, tables
<1>2. ASSUME NEW r \in Runs, CoinFails(r) \/ Dies(r)
      PROVE  UNCHANGED setups
  BY <1>2 DEF CoinFails, Dies, tables
<1>3. BarCloses \/ DayEnds \/ ScanChanges \/ BinanceTurns \/ UNCHANGED vars => UNCHANGED setups
  BY DEF BarCloses, DayEnds, ScanChanges, BinanceTurns, vars, tables
<1> QED BY <1>1, <1>2, <1>3 DEF Next

\* resolveTradeSetup: what is closed is left alone, and no row goes.
LEMMA SetupsStand ==
  ASSUME Typed, [Next]_vars
  PROVE  ResolvedStands /\ \A k \in Keys : Clash(k) => Clash(k)'
<1>1. CASE UNCHANGED setups
  BY <1>1 DEF ResolvedStands, Clash, Key
<1>2. ASSUME NEW r \in Runs, Resolve(r)
      PROVE  ResolvedStands /\ \A k \in Keys : Clash(k) => Clash(k)'
  <2>1. PICK j \in open[r] : /\ setups' = {Judged(s, j, Source(r), upto[r]) : s \in setups}
                            /\ open' = [open EXCEPT ![r] = @ \ {j}]
    BY <1>2, ResolveFacts
  <2>2. j \in Keys /\ Source(r) \in Exchanges /\ upto[r] \in 0 .. LastBar
    BY <1>2 DEF Resolve, Typed, TypeOK, RunOK
  <2>3. \A s \in setups : Key(Judged(s, j, Source(r), upto[r])) = Key(s)
    BY <2>2, JudgedTyped DEF Typed, TypeOK
  <2>4. \A s \in setups : s.status # "open" => Judged(s, j, Source(r), upto[r]) = s
    BY DEF Judged, Closable
  <2>5. ResolvedStands
    BY <2>1, <2>4 DEF ResolvedStands
  <2>6. ASSUME NEW k \in Keys, Clash(k)
        PROVE  Clash(k)'
    BY <2>1, <2>3, <2>6 DEF Clash, Key
  <2> QED BY <2>5, <2>6
<1>3. ASSUME NEW r \in Runs, Insert(r)
      PROVE  ResolvedStands /\ \A k \in Keys : Clash(k) => Clash(k)'
  <2>1. setups \subseteq setups'
    BY <1>3 DEF Insert
  <2> QED BY <2>1 DEF ResolvedStands, Clash, Key
<1> QED BY <1>1, <1>2, <1>3, SetupsStep

\* resolveTradeSetup: a setup is closed once, whoever still holds it as open.
THEOREM ResolvedSetupsStay == ASSUME ConstantsOK PROVE Spec => ResolvedStays
<1>1. Init => Typed
  BY TypeInit
<1>2. Typed /\ [Next]_vars => Typed'
  BY TypeStep
<1>3. Typed /\ [Next]_vars => [ResolvedStands]_vars
  BY SetupsStand
<1> QED BY <1>1, <1>2, <1>3, PTL DEF Spec, ResolvedStays

\* A run that alerts has inserted the row, which nobody else alerts or alerted;
\* what was alerted has a row.
AlertInv ==
  /\ Typed
  /\ \A r \in Runs : pc[r] = "alert" => Clash(Found(r)) /\ alerted[Found(r)] = 0
  /\ \A r, o \in Runs : r # o /\ pc[r] = "alert" /\ pc[o] = "alert" => Found(r) # Found(o)
  /\ \A k \in Keys : alerted[k] > 0 => Clash(k)
  /\ AlertedOnce

\* A step of r that neither alerts nor comes to alert.
LEMMA AlertKeeps ==
  ASSUME AlertInv, [Next]_vars, NEW r \in Runs, OthersStay(r), pc'[r] # "alert", UNCHANGED alerted
  PROVE  AlertInv'
<1>1. Typed /\ Typed'
  BY TypeStep DEF AlertInv
<1>2. \A k \in Keys : Clash(k) => Clash(k)'
  BY <1>1, SetupsStand
<1>3. ASSUME NEW o \in Runs, pc'[o] = "alert"
      PROVE  o # r /\ pc[o] = "alert" /\ Found(o)' = Found(o) /\ Found(o) \in Keys
  <2>1. o # r /\ pc[o] = "alert"
    BY <1>3 DEF OthersStay
  <2> QED BY <1>1, <2>1, FoundTyped DEF OthersStay, Found
<1>4. \A o \in Runs : pc'[o] = "alert" => Clash(Found(o))' /\ alerted'[Found(o)'] = 0
  BY <1>2, <1>3 DEF AlertInv, Clash, Key
<1>5. \A p, o \in Runs : p # o /\ pc'[p] = "alert" /\ pc'[o] = "alert" => Found(p)' # Found(o)'
  BY <1>3 DEF AlertInv
<1>6. \A k \in Keys : alerted'[k] > 0 => Clash(k)'
  BY <1>2 DEF AlertInv
<1> QED BY <1>1, <1>4, <1>5, <1>6 DEF AlertInv, AlertedOnce

\* Where a run goes that does not insert.
LEMMA NotToAlert ==
  ASSUME Typed, NEW r \in Runs,
         Begin(r) \/ ReadDaily(r) \/ ReadOpen(r) \/ Fetch4hRefused(r) \/ Resolve(r) \/ Detect(r) \/ CoinFails(r) \/ Dies(r)
  PROVE  pc'[r] # "alert" /\ OthersStay(r) /\ UNCHANGED alerted
<1>1. ASSUME NEW refused \in BOOLEAN, NextCoin(r, refused)
      PROVE  pc'[r] # "alert"
  BY <1>1, NextCoinFacts
<1>2. CASE Begin(r)
  BY <1>2, BeginTyped DEF Begin, Goto, Typed, TypeOK, tables
<1>3. CASE ReadDaily(r)
  BY <1>3, ReadDailyTyped DEF ReadDaily, Goto, Typed, TypeOK, tables
<1>4. CASE ReadOpen(r)
  BY <1>4, ReadOpenTyped DEF ReadOpen, Goto, Typed, TypeOK, tables
<1>5. CASE Fetch4hRefused(r)
  BY <1>1, <1>5, OffTyped, MovesOnTyped DEF Fetch4hRefused, tables
<1>6. CASE Resolve(r)
  BY <1>6, ResolveTyped DEF Resolve
<1>7. CASE Detect(r)
  <2>1. UNCHANGED alerted /\ OthersStay(r)
    BY <1>7, DetectTyped DEF Detect, tables
  <2>2. CASE Goto(r, "insert")
    BY <2>1, <2>2 DEF Goto, Typed, TypeOK
  <2>3. CASE NextCoin(r, off[r])
    BY <1>1, <2>1, <2>3, OffTyped
  <2> QED BY <1>7, <2>2, <2>3, <2>1 DEF Detect
<1>8. CASE CoinFails(r)
  BY <1>1, <1>8, OffTyped, MovesOnTyped DEF CoinFails, tables
<1>9. CASE Dies(r)
  BY <1>9, DiesTyped DEF Dies, tables
<1> QED BY <1>2, <1>3, <1>4, <1>5, <1>6, <1>7, <1>8, <1>9

\* Each step keeps who may alert which setup.
LEMMA AlertStep ==
  ASSUME AlertInv, [Next]_vars
  PROVE  AlertInv'
<1>0. Typed /\ Typed' /\ \A k \in Keys : Clash(k) => Clash(k)'
  BY TypeStep, SetupsStand DEF AlertInv
<1>1. ASSUME NEW r \in Runs,
             Begin(r) \/ ReadDaily(r) \/ ReadOpen(r) \/ Fetch4hRefused(r) \/ Resolve(r) \/ Detect(r) \/ CoinFails(r) \/ Dies(r)
      PROVE  AlertInv'
  BY <1>0, <1>1, NotToAlert, AlertKeeps
<1>2. ASSUME NEW r \in Runs, Insert(r)
      PROVE  AlertInv'
  <2>1. OthersStay(r) /\ UNCHANGED alerted /\ pc[r] = "insert" /\ Found(r) \in Keys
    BY <1>0, <1>2, InsertTyped, FoundTyped DEF Insert
  <2>2. CASE NextCoin(r, off[r])
    BY <1>0, <2>1, <2>2, OffTyped, NextCoinFacts, AlertKeeps
  <2>3. CASE ~NextCoin(r, off[r])
    <3>1. IsNew(Found(r)) /\ Goto(r, "alert") /\ UNCHANGED <<plan, days, read>>
      BY <1>2, <2>3 DEF Insert
    <3>2. ~Clash(Found(r)) /\ alerted[Found(r)] \in 0 .. 2
      BY <1>0, <2>1, <3>1 DEF IsNew, Typed, TypeOK
    <3>3. alerted[Found(r)] = 0
      BY <2>1, <3>2 DEF AlertInv
    <3>4. Clash(Found(r))'
      <4> DEFINE s == [coin |-> coin[r], bar |-> upto[r], exchange |-> Source(r), status |-> "open", at |-> 0]
      <4>1. s \in setups' /\ Key(s) = Found(r)
        BY <1>2, <3>2 DEF Insert, Key, Found
      <4>2. Found(r)' = Found(r)
        BY <3>1 DEF Found, plan, read
      <4> QED BY <4>1, <4>2 DEF Clash, Key
    <3>5. \A o \in Runs : Found(o)' = Found(o) /\ (pc'[o] = "alert" => o = r \/ pc[o] = "alert")
      BY <2>1, <3>1 DEF Found, plan, read, OthersStay
    <3>6. ASSUME NEW o \in Runs, o # r, pc[o] = "alert"
          PROVE  Found(o) \in Keys /\ Clash(Found(o)) /\ Found(o) # Found(r)
      BY <1>0, <3>2, <3>6, FoundTyped DEF AlertInv
    <3>7. ASSUME NEW o \in Runs, pc'[o] = "alert"
          PROVE  Clash(Found(o))' /\ alerted'[Found(o)'] = 0
      <4>1. CASE o = r
        BY <2>1, <3>3, <3>4, <3>5, <4>1
      <4>2. CASE o # r
        <5>1. pc[o] = "alert" /\ Found(o) \in Keys
          BY <3>5, <3>6, <3>7, <4>2
        <5>2. Clash(Found(o)) /\ alerted[Found(o)] = 0
          BY <5>1 DEF AlertInv
        <5>3. \E s \in setups' : Key(s) = Found(o)
          BY <1>0, <5>1, <5>2 DEF Clash, Key
        <5> QED BY <2>1, <3>5, <5>2, <5>3 DEF Clash, Key
      <4> QED BY <4>1, <4>2
    <3>8. \A p, o \in Runs : p # o /\ pc'[p] = "alert" /\ pc'[o] = "alert" => Found(p)' # Found(o)'
      BY <3>5, <3>6 DEF AlertInv
    <3>9. \A k \in Keys : alerted'[k] > 0 => Clash(k)'
      BY <1>0, <2>1 DEF AlertInv
    <3> QED BY <1>0, <2>1, <3>7, <3>8, <3>9 DEF AlertInv, AlertedOnce
  <2> QED BY <2>2, <2>3
<1>3. ASSUME NEW r \in Runs, Alert(r)
      PROVE  AlertInv'
  <2>1. OthersStay(r) /\ pc'[r] # "alert" /\ pc[r] = "alert" /\ UNCHANGED setups
    BY <1>0, <1>3, AlertTyped, OffTyped, NextCoinFacts DEF Alert
  <2>2. Found(r) \in Keys /\ alerted[Found(r)] = 0 /\ Clash(Found(r))
    BY <1>0, <2>1, FoundTyped DEF AlertInv
  <2>3. alerted' = [alerted EXCEPT ![Found(r)] = 1]
    BY <1>3, <2>2 DEF Alert
  <2>4. alerted'[Found(r)] = 1 /\ \A k \in Keys : k # Found(r) => alerted'[k] = alerted[k]
    BY <1>0, <2>2, <2>3 DEF Typed, TypeOK
  <2>5. ASSUME NEW o \in Runs, pc'[o] = "alert"
        PROVE  /\ o # r /\ pc[o] = "alert" /\ Found(o)' = Found(o) /\ Found(o) \in Keys
               /\ Found(o) # Found(r)
    BY <1>0, <2>1, <2>5, FoundTyped DEF OthersStay, Found, AlertInv
  <2>6. \A k : Clash(k)' <=> Clash(k)
    BY <2>1 DEF Clash, Key
  <2>7. ASSUME NEW o \in Runs, pc'[o] = "alert"
        PROVE  Clash(Found(o))' /\ alerted'[Found(o)'] = 0
    <3>1. Clash(Found(o)) /\ alerted'[Found(o)] = 0
      BY <2>4, <2>5, <2>7 DEF AlertInv
    <3> QED BY <2>1, <2>5, <2>7, <3>1 DEF Clash, Key
  <2>8. \A p, o \in Runs : p # o /\ pc'[p] = "alert" /\ pc'[o] = "alert" => Found(p)' # Found(o)'
    BY <2>5 DEF AlertInv
  <2>9. \A k \in Keys : alerted'[k] > 0 => Clash(k)
    BY <2>2, <2>4 DEF AlertInv
  <2>10. AlertedOnce'
    BY <2>4 DEF AlertInv, AlertedOnce
  <2> QED BY <1>0, <2>6, <2>7, <2>8, <2>9, <2>10 DEF AlertInv
<1>4. CASE BarCloses \/ DayEnds \/ ScanChanges \/ BinanceTurns \/ UNCHANGED vars
  <2>1. UNCHANGED <<setups, alerted, pc, upto, coin>>
    BY <1>4 DEF BarCloses, DayEnds, ScanChanges, BinanceTurns, vars, tables, plan, read
  <2> QED BY <1>0, <2>1 DEF AlertInv, AlertedOnce, Found, Clash, Key
<1> QED BY <1>1, <1>2, <1>3, <1>4 DEF Next, Step

\* insertTradeSetup: no setup is alerted twice, however many runs find it.
THEOREM NoSetupAlertedTwice == ASSUME ConstantsOK PROVE Spec => []AlertedOnce
<1>1. Init => AlertInv
  <2> SUFFICES ASSUME Init PROVE AlertInv
    OBVIOUS
  <2>1. Typed
    BY TypeInit
  <2>2. (\A r \in Runs : pc[r] = "idle") /\ \A k \in Keys : alerted[k] = 0
    BY DEF Init
  <2> QED BY <2>1, <2>2 DEF AlertInv, AlertedOnce
<1>2. AlertInv /\ [Next]_vars => AlertInv'
  BY AlertStep
<1>3. AlertInv => AlertedOnce
  BY DEF AlertInv
<1> QED BY <1>1, <1>2, <1>3, PTL DEF Spec
-----------------------------------------------------------------------------
(* The first touch decides. *)

\* FirstTouch of any wicks.
Hits(f, e, ts)     == {t \in ts : f[e][t] # "none"}
FirstOf(ts)        == CHOOSE t \in ts : \A u \in ts : t <= u
TouchedIn(f, e, ts) == IF Hits(f, e, ts) = {} THEN "open" ELSE f[e][FirstOf(Hits(f, e, ts))]

\* The first touch depends on the touches only,
LEMMA TouchOf == \A e, ts : FirstTouch(e, ts) = TouchedIn(touch, e, ts)
BY DEF FirstTouch, TouchedIn, Hits, FirstOf

\* What did not touch then does not matter now.
LEMMA SameTouches ==
  ASSUME NEW f, NEW g, NEW e, NEW ts \in SUBSET Nat, \A t \in ts : f[e][t] = g[e][t]
  PROVE  TouchedIn(f, e, ts) = TouchedIn(g, e, ts)
<1>1. Hits(f, e, ts) = Hits(g, e, ts)
  BY DEF Hits
<1>2. CASE Hits(f, e, ts) = {}
  BY <1>1, <1>2 DEF TouchedIn
<1>3. CASE Hits(f, e, ts) # {}
  <2>1. \E t \in Hits(f, e, ts) : \A u \in Hits(f, e, ts) : t <= u
    BY <1>3, Least DEF Hits
  <2>2. FirstOf(Hits(f, e, ts)) \in Hits(f, e, ts)
    BY <2>1 DEF FirstOf
  <2>3. FirstOf(Hits(f, e, ts)) \in ts
    BY <2>2 DEF Hits
  <2> QED BY <1>1, <2>3 DEF TouchedIn
<1> QED BY <1>2, <1>3

\* The record of a setup, of wicks f.
Recorded(f, s) ==
  LET first == TouchedIn(f, s.exchange, {t \in Bars : s.bar < t /\ t <= s.at})
  IN  s.status = IF first = "open" THEN "expired" ELSE first

RecordsOf(f, S) == \A s \in S : s.status # "open" /\ s.at - s.bar <= Window => Recorded(f, s)

\* and so does what a record has to be.
LEMMA RecordsAre == (FirstTouchDecides <=> RecordsOf(touch, setups)) /\ (FirstTouchDecides' <=> RecordsOf(touch', setups'))
<1>1. FirstTouchDecides <=> RecordsOf(touch, setups)
  BY TouchOf DEF FirstTouchDecides, RecordsOf, Recorded
<1>2. FirstTouchDecides' <=> RecordsOf(touch', setups')
  BY DEF FirstTouchDecides, FirstTouch, RecordsOf, Recorded, TouchedIn, Hits, FirstOf
<1> QED BY <1>1, <1>2

\* A run judges setups of the exchange it reads, and no record is of a bar to come.
FirstInv ==
  /\ Typed
  /\ \A r \in Runs : \A k \in open[r] : \E s \in setups : Key(s) = k /\ s.exchange = Source(r)
  /\ \A s \in setups : s.at <= bar
  /\ RecordsOf(touch, setups)

\* The setups a run still has to judge are those it had, on the exchange it had.
JudgesOn(r) == open'[r] \subseteq open[r] /\ (open'[r] # {} => Source(r)' = Source(r))

\* Only ReadOpen gives a run setups to judge.
LEMMA JudgesOnStep ==
  ASSUME Typed, NEW r \in Runs, (Step(r) /\ ~ReadOpen(r)) \/ CoinFails(r) \/ Dies(r)
  PROVE  JudgesOn(r) /\ OthersStay(r)
<1>1. ASSUME NEW refused \in BOOLEAN, NextCoin(r, refused)
      PROVE  JudgesOn(r) /\ OthersStay(r)
  BY <1>1, NextCoinFacts DEF JudgesOn
<1>2. CASE Begin(r)
  BY <1>2, BeginTyped DEF Begin, JudgesOn, Source, days, read
<1>3. CASE ReadDaily(r)
  <2>1. open' = open /\ open[r] = {}
    BY <1>3, ReadDailyTyped DEF ReadDaily, Typed, RunOK
  <2> QED BY <1>3, <2>1, ReadDailyTyped DEF JudgesOn
<1>4. CASE Fetch4hRefused(r)
  BY <1>1, <1>4 DEF Fetch4hRefused
<1>5. CASE Resolve(r)
  <2>1. PICK k \in open[r] : open' = [open EXCEPT ![r] = @ \ {k}]
    BY <1>5, ResolveFacts
  <2>2. open'[r] = open[r] \ {k}
    BY <2>1 DEF Typed, TypeOK
  <2> QED BY <1>5, <2>2, ResolveTyped DEF Resolve, JudgesOn, Source, days
<1>6. CASE Detect(r)
  BY <1>1, <1>6, OffTyped, DetectTyped DEF Detect, JudgesOn, Source, days, read
<1>7. CASE Insert(r)
  BY <1>1, <1>7, OffTyped, InsertTyped DEF Insert, JudgesOn, Source, days, read
<1>8. CASE Alert(r)
  BY <1>1, <1>8, OffTyped DEF Alert
<1>9. CASE CoinFails(r)
  BY <1>1, <1>9, OffTyped DEF CoinFails
<1>10. CASE Dies(r)
  BY <1>10, DiesTyped DEF JudgesOn
<1> QED BY <1>2, <1>3, <1>4, <1>5, <1>6, <1>7, <1>8, <1>9, <1>10 DEF Step

\* No setup goes, and none changes its exchange.
LEMMA ExchangesStay ==
  ASSUME Typed, [Next]_vars, NEW s \in setups
  PROVE  \E z \in setups' : Key(z) = Key(s) /\ z.exchange = s.exchange
<1>1. CASE UNCHANGED setups
  BY <1>1
<1>2. ASSUME NEW r \in Runs, Resolve(r)
      PROVE  \E z \in setups' : Key(z) = Key(s) /\ z.exchange = s.exchange
  <2>1. PICK j \in open[r] : setups' = {Judged(x, j, Source(r), upto[r]) : x \in setups}
    BY <1>2, ResolveFacts
  <2>2. j \in Keys /\ Source(r) \in Exchanges /\ upto[r] \in 0 .. LastBar
    BY <1>2 DEF Resolve, Typed, TypeOK, RunOK
  <2> DEFINE z == Judged(s, j, Source(r), upto[r])
  <2>3. Key(z) = Key(s)
    BY <2>2, JudgedTyped DEF Typed, TypeOK
  <2>4. z.exchange = s.exchange
    BY DEF Judged, Typed, TypeOK, Setups
  <2>5. z \in setups'
    BY <2>1
  <2> QED BY <2>3, <2>4, <2>5
<1>3. ASSUME NEW r \in Runs, Insert(r)
      PROVE  \E z \in setups' : Key(z) = Key(s) /\ z.exchange = s.exchange
  <2>1. setups \subseteq setups'
    BY <1>3 DEF Insert
  <2> QED BY <2>1
<1> QED BY <1>1, <1>2, <1>3, SetupsStep

\* What every run has to judge stays of the exchange it reads.
LEMMA JudgesStep ==
  ASSUME FirstInv, [Next]_vars
  PROVE  \A r \in Runs : \A k \in open'[r] : \E z \in setups' : Key(z) = k /\ z.exchange = Source(r)'
<1>0. Typed
  BY DEF FirstInv
<1>1. ASSUME NEW o \in Runs, JudgesOn(o)
      PROVE  \A k \in open'[o] : \E z \in setups' : Key(z) = k /\ z.exchange = Source(o)'
  <2> SUFFICES ASSUME NEW k \in open'[o]
               PROVE  \E z \in setups' : Key(z) = k /\ z.exchange = Source(o)'
    OBVIOUS
  <2>1. k \in open[o] /\ Source(o)' = Source(o)
    BY <1>1 DEF JudgesOn
  <2>2. PICK s \in setups : Key(s) = k /\ s.exchange = Source(o)
    BY <2>1 DEF FirstInv
  <2> QED BY <1>0, <2>1, <2>2, ExchangesStay
<1>2. ASSUME NEW r \in Runs, OthersStay(r)
      PROVE  \A o \in Runs \ {r} : JudgesOn(o)
  BY <1>2 DEF OthersStay, JudgesOn, Source
<1>3. ASSUME NEW r \in Runs, (Step(r) /\ ~ReadOpen(r)) \/ CoinFails(r) \/ Dies(r)
      PROVE  \A o \in Runs : JudgesOn(o)
  BY <1>0, <1>2, <1>3, JudgesOnStep
<1>4. ASSUME NEW r \in Runs, ReadOpen(r)
      PROVE  \A k \in open'[r] : \E z \in setups' : Key(z) = k /\ z.exchange = Source(r)'
  <2>1. open'[r] = {Key(s) : s \in {z \in Open : z.coin = coin[r] /\ SameVenue(z, Source(r))}}
    BY <1>0, <1>4 DEF ReadOpen, Typed, TypeOK
  <2>2. setups' = setups /\ Source(r)' = Source(r)
    BY <1>4 DEF ReadOpen, tables, days, Source
  <2>3. \A k \in open'[r] : \E z \in setups : Key(z) = k /\ z.exchange = Source(r)
    BY <2>1 DEF Open, SameVenue
  <2> QED BY <2>2, <2>3
<1>5. CASE DayEnds
  <2>1. \A o \in Runs : open'[o] # {} => cache'[o] = cache[o] /\ coin' = coin /\ open' = open
    BY <1>0, <1>5, DayEndsTyped DEF DayEnds, read, Typed, RunOK
  <2>2. open' = open
    BY <1>5 DEF DayEnds, read
  <2>3. \A o \in Runs : JudgesOn(o)
    BY <2>1, <2>2 DEF JudgesOn, Source
  <2> QED BY <1>1, <2>3
<1>6. CASE BarCloses \/ ScanChanges \/ BinanceTurns \/ UNCHANGED vars
  <2>1. UNCHANGED <<open, coin, cache>>
    BY <1>6 DEF BarCloses, ScanChanges, BinanceTurns, vars, days, read
  <2>2. \A o \in Runs : JudgesOn(o)
    BY <2>1 DEF JudgesOn, Source
  <2> QED BY <1>1, <2>2
<1>7. ASSUME NEW r \in Runs, ReadOpen(r)
      PROVE  \A o \in Runs \ {r} : JudgesOn(o)
  BY <1>0, <1>2, <1>7, ReadOpenTyped
<1> QED BY <1>1, <1>3, <1>4, <1>5, <1>6, <1>7 DEF Next

\* A run that closes a setup within the reach of its bars sees all of them.
LEMMA ResolveRecords ==
  ASSUME FirstInv, NEW r \in Runs, Resolve(r)
  PROVE  (\A s \in setups' : s.at <= bar) /\ RecordsOf(touch, setups')
<1>1. Typed
  BY DEF FirstInv
<1>2. PICK k \in open[r] : setups' = {Judged(s, k, Source(r), upto[r]) : s \in setups}
  BY ResolveFacts
<1>3. k \in Keys /\ Source(r) \in Exchanges /\ upto[r] \in 0 .. LastBar /\ upto[r] \in 1 .. bar
  BY <1>1 DEF Resolve, Typed, TypeOK, RunOK
<1>4. PICK z \in setups : Key(z) = k /\ z.exchange = Source(r)
  BY DEF FirstInv
<1>5. bar \in Nat /\ LastBar \in Nat /\ Window \in Nat /\ Expiry \in Nat
  BY <1>1 DEF Typed, TypeOK, Bars, ConstantsOK
<1> SUFFICES ASSUME NEW s \in setups
             PROVE  LET j == Judged(s, k, Source(r), upto[r])
                    IN  j.at <= bar /\ (j.status # "open" /\ j.at - j.bar <= Window => Recorded(touch, j))
  BY <1>2 DEF RecordsOf
<1> DEFINE j == Judged(s, k, Source(r), upto[r])
           last == upto[r]
           out == Outcome(Source(r), last, k.bar)
<1>6. s \in Setups
  BY <1>1 DEF Typed, TypeOK
<1>7. CASE j = s
  BY <1>7 DEF FirstInv, RecordsOf
<1>8. CASE Key(s) = k /\ out # "open" /\ j = [s EXCEPT !.status = out, !.at = last]
  <2>1. s = z
    BY <1>1, <1>4, <1>8 DEF Typed, TypeOK
  <2>2. s.exchange = Source(r) /\ s.bar = k.bar /\ s.bar \in Nat
    BY <1>4, <1>6, <1>8, <2>1 DEF Key, Setups, Bars
  <2>3. j.status = out /\ j.at = last /\ j.bar = s.bar /\ j.exchange = s.exchange
    BY <1>6, <1>8 DEF Setups
  <2> HIDE DEF j
  <2>4. j.at <= bar
    BY <1>3, <1>5, <2>3
  <2>5. ASSUME last - k.bar <= Window
        PROVE  Recorded(touch, j)
    <3> DEFINE ts == {t \in Bars : k.bar < t /\ t <= last}
               first == FirstTouch(Source(r), ts)
    <3>1. After(last, k.bar) = ts
      BY <1>3, <1>5, <2>2, <2>5 DEF After, Bars
    <3>2. ts \in SUBSET Bars
      OBVIOUS
    <3> HIDE DEF ts
    <3>3. first \in {"open", "stop", "target"}
      BY <1>1, <1>3, <3>2, FirstTouchTyped
    <3>4. out = IF first = "open" /\ last > k.bar + Expiry THEN "expired" ELSE first
      BY <3>1 DEF Outcome
    <3> HIDE DEF out, first
    <3>5. out = IF first = "open" THEN "expired" ELSE first
      BY <1>8, <3>4
    <3>6. first = TouchedIn(touch, Source(r), ts)
      BY TouchOf DEF first
    <3>7. ts = {t \in Bars : j.bar < t /\ t <= j.at}
      BY <2>2, <2>3 DEF ts
    <3> QED BY <2>2, <2>3, <3>5, <3>6, <3>7 DEF Recorded
  <2> QED BY <2>2, <2>3, <2>4, <2>5 DEF j
<1> QED BY <1>7, <1>8 DEF Judged

\* A bar that closes touches nothing that was recorded before.
LEMMA BarClosesRecords ==
  ASSUME FirstInv, BarCloses
  PROVE  (\A s \in setups' : s.at <= bar') /\ RecordsOf(touch', setups')
<1>1. Typed /\ bar \in Nat /\ bar' = bar + 1 /\ setups' = setups
  BY DEF FirstInv, Typed, TypeOK, Bars, ConstantsOK, BarCloses, tables
<1>2. PICK b, o : touch' = [touch EXCEPT !["binance"][bar + 1] = b, !["okx"][bar + 1] = o]
  BY DEF BarCloses
<1>3. \A e \in Exchanges : \A t \in Bars : t # bar + 1 => touch'[e][t] = touch[e][t]
  BY <1>1, <1>2 DEF Typed, TypeOK, Exchanges
<1>4. \A s \in setups : s.at <= bar /\ s.at \in Nat /\ s.exchange \in Exchanges
  BY <1>1 DEF FirstInv, Typed, TypeOK, Setups
<1>5. ASSUME NEW s \in setups, Recorded(touch, s)
      PROVE  Recorded(touch', s)
  <2> DEFINE ts == {t \in Bars : s.bar < t /\ t <= s.at}
  <2>1. ts \in SUBSET Nat /\ \A t \in ts : touch'[s.exchange][t] = touch[s.exchange][t]
    BY <1>1, <1>3, <1>4 DEF Bars
  <2>2. TouchedIn(touch', s.exchange, ts) = TouchedIn(touch, s.exchange, ts)
    BY <2>1, SameTouches
  <2> QED BY <1>5, <2>2 DEF Recorded
<1>6. \A s \in setups' : s.at <= bar'
  BY <1>1, <1>4
<1> QED BY <1>1, <1>5, <1>6 DEF FirstInv, RecordsOf

\* Each step keeps the records those of the first touch.
LEMMA FirstStep ==
  ASSUME FirstInv, [Next]_vars
  PROVE  FirstInv'
<1>1. Typed /\ Typed'
  BY TypeStep DEF FirstInv
<1>2. \A r \in Runs : \A k \in open'[r] : \E z \in setups' : Key(z) = k /\ z.exchange = Source(r)'
  BY JudgesStep
<1>3. (\A s \in setups' : s.at <= bar') /\ RecordsOf(touch', setups')
  <2>1. ASSUME NEW r \in Runs, Resolve(r)
        PROVE  UNCHANGED <<bar, touch>>
    BY <2>1 DEF Resolve, market
  <2>2. ASSUME NEW r \in Runs, Insert(r)
        PROVE  (\A s \in setups' : s.at <= bar') /\ RecordsOf(touch', setups')
    <3>1. UNCHANGED <<bar, touch>> /\ bar \in Nat
      BY <1>1, <2>2 DEF Insert, market, Typed, TypeOK, Bars
    <3>2. \A s \in setups' : s \in setups \/ (s.at = 0 /\ s.status = "open")
      BY <2>2 DEF Insert
    <3> QED BY <3>1, <3>2 DEF FirstInv, RecordsOf
  <2>3. CASE BarCloses
    BY <2>3, BarClosesRecords
  <2>4. CASE UNCHANGED setups /\ ~BarCloses
    <3>1. UNCHANGED <<bar, touch>>
      <4>1. ASSUME NEW r \in Runs, Step(r) \/ CoinFails(r) \/ Dies(r)
            PROVE  UNCHANGED <<bar, touch>>
        BY <4>1 DEF Step, Begin, ReadDaily, ReadOpen, Fetch4hRefused, Resolve, Detect, Insert,
             Alert,
                    CoinFails, Dies, market
      <4>2. DayEnds \/ ScanChanges \/ BinanceTurns \/ UNCHANGED vars => UNCHANGED <<bar, touch>>
        BY DEF DayEnds, ScanChanges, BinanceTurns, vars, market
      <4> QED BY <2>4, <4>1, <4>2 DEF Next
    <3> QED BY <2>4, <3>1 DEF FirstInv
  <2> QED BY <1>1, <2>1, <2>2, <2>3, <2>4, SetupsStep, ResolveRecords
<1> QED BY <1>1, <1>2, <1>3 DEF FirstInv, Key

\* scanSetups: the record of a setup is what its own exchange did first, whichever
\* runs, refusals and exchanges came between.
THEOREM FirstTouchWins == ASSUME ConstantsOK PROVE Spec => []FirstTouchDecides
<1>1. Init => FirstInv
  <2> SUFFICES ASSUME Init PROVE FirstInv
    OBVIOUS
  <2>1. Typed
    BY TypeInit
  <2>2. (\A r \in Runs : open[r] = {}) /\ setups = {}
    BY DEF Init
  <2> QED BY <2>1, <2>2 DEF FirstInv, RecordsOf
<1>2. FirstInv /\ [Next]_vars => FirstInv'
  BY FirstStep
<1>3. FirstInv => FirstTouchDecides
  BY RecordsAre DEF FirstInv
<1> QED BY <1>1, <1>2, <1>3, PTL DEF Spec
=============================================================================
