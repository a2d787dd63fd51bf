--------------------------- MODULE BrokerFeeProofs ---------------------------
(***************************************************************************)
(* Theorems about BrokerFee, for any requests, traders and chains, any     *)
(* list of reductions, any expiry time and any set of failures.            *)
(***************************************************************************)
EXTENDS BrokerFee, Positions, SequenceTheorems, TLAPS

(* The price list is what vip3ToFeeMap makes of the setting.               *)
PricesOK == setting \in Settings /\ fees = vip3ToFeeMap(setting)

Busy == {"get", "rest", "set", "expire", "fee"}

(* A request that was taken asks for a trader; only one that found a price *)
(* list goes on; none has an answer before the end, and a new one has left *)
(* no trace.                                                               *)
RequestsOK ==
    \A r \in Request :
        /\ pc[r] # "new" => trader[r] \in Trader
        /\ pc[r] \in Busy => fees # None
        /\ pc[r] # "answered" => fee[r] = None
        /\ pc[r] = "new" => level[r] = 0 /\ r \notin skipped

(* A level above 0, in Redis or in the hand of a request, is one that the  *)
(* service gave its trader.                                                *)
LevelsEarned ==
    /\ \A t \in Trader : cached[t] # None /\ cached[t] > 0 => t \in reported
    /\ \A r \in Request : level[r] > 0 => trader[r] \in reported

Shape == TypeOK /\ PricesOK /\ RequestsOK

FeeInv == Shape /\ LevelsEarned /\ ReductionIsEarned /\ LevelExpires /\ SanePricesAreSafe

-----------------------------------------------------------------------------
(* Prices                                                                  *)

(* One percentage gives a fee that fits into 16 bits, whatever Atoi reads. *)
LEMMA ReducedType ==
    ASSUME NEW perc \in Int
    PROVE  Reduced(perc) \in Uint16
<1> DEFINE n == (100 - perc) * BaseFee
<1>1. n \in Int
  BY FeeAssumption DEF Uint16
<1>2. Hundredth(n) \in Int
  <2> HIDE DEF n
  <2>1. QED
    BY <1>1 DEF Hundredth
<1>3. QED
  BY <1>2 DEF Reduced, Uint16

(* A percentage from 0 to 100 never raises the fee.                        *)
LEMMA ReducedBound ==
    ASSUME NEW perc \in 0..100
    PROVE  Reduced(perc) <= BaseFee
<1> DEFINE n == (100 - perc) * BaseFee
<1>1. BaseFee \in Nat /\ BaseFee < 65536
  BY FeeAssumption DEF Uint16
<1>2. n \in Int /\ 0 <= n /\ n <= 100 * BaseFee
  <2>1. 100 - perc \in 0..100
    OBVIOUS
  <2>2. \A a \in 0..100 : a * BaseFee \in Int /\ 0 <= a * BaseFee /\ a * BaseFee <= 100 * BaseFee
    BY <1>1, Z3
  <2>3. QED
    BY <2>1, <2>2
<1>3. Hundredth(n) \in 0..BaseFee
  <2> HIDE DEF n
  <2>1. QED
    BY <1>1, <1>2 DEF Hundredth
<1>4. QED
  BY <1>1, <1>3 DEF Reduced

(* vip3ToFeeMap prices just the chains of the setting, each by one of its  *)
(* parts, and the fees of a chain are those of its percentages from the    *)
(* second on.                                                              *)
LEMMA FeeMap ==
    ASSUME PricesOK, fees # None, NEW c \in DOMAIN fees
    PROVE  /\ c \in Chain
           /\ \E i \in Parts(c) :
                 /\ setting[i] # None
                 /\ setting[i].percs \in Seq(Int) \ {<<>>}
                 /\ fees[c] = Fees(setting[i].percs)
<1>1. /\ setting \in Seq([chain : Chain, percs : Seq(Int) \ {<<>>}] \cup {None})
      /\ fees = vip3ToFeeMap(setting)
  BY FeeAssumption DEF PricesOK
<1>2. /\ Len(setting) \in Nat
      /\ DOMAIN setting = 1..Len(setting)
      /\ \A i \in DOMAIN setting : setting[i] \in [chain : Chain, percs : Seq(Int) \ {<<>>}] \cup {None}
  BY <1>1
<1> DEFINE Last(d) == CHOOSE i \in DOMAIN setting : setting[i].chain = d
                          /\ \A j \in DOMAIN setting : setting[j].chain = d => j <= i
<1>3. /\ \A i \in DOMAIN setting : setting[i] # None
      /\ fees = [d \in {setting[i].chain : i \in DOMAIN setting} |-> Fees(setting[Last(d)].percs)]
  BY <1>1, Zenon DEF vip3ToFeeMap
<1>4. c \in {setting[i].chain : i \in DOMAIN setting}
  <2> HIDE DEF Last
  <2>1. QED
    BY <1>3
<1>5. fees[c] = Fees(setting[Last(c)].percs)
  <2> HIDE DEF Last
  <2>1. QED
    BY <1>3, <1>4
<1>6. Parts(c) \in SUBSET (1..Len(setting)) /\ Parts(c) # {}
  <2>1. Parts(c) \subseteq DOMAIN setting
    BY DEF Parts
  <2>2. PICK i \in DOMAIN setting : setting[i].chain = c
    BY <1>4
  <2>3. i \in Parts(c)
    BY <2>2 DEF Parts
  <2>4. QED
    BY <1>2, <2>1, <2>3
<1>7. PICK i \in Parts(c) : \A j \in Parts(c) : j <= i
  BY <1>2, <1>6, LastOf
<1>8. /\ Last(c) \in DOMAIN setting
      /\ setting[Last(c)].chain = c
  <2>1. \E k \in DOMAIN setting : setting[k].chain = c
                          /\ \A j \in DOMAIN setting : setting[j].chain = c => j <= k
    BY <1>7 DEF Parts
  <2>2. QED
    BY <2>1
<1> HIDE DEF Last
<1>9. Last(c) \in Parts(c) /\ setting[Last(c)] \in [chain : Chain, percs : Seq(Int) \ {<<>>}]
  BY <1>2, <1>3, <1>8 DEF Parts
<1>10. c \in Chain /\ setting[Last(c)].percs \in Seq(Int) \ {<<>>}
  BY <1>8, <1>9
<1>11. QED
  BY <1>3, <1>5, <1>8, <1>9, <1>10

(* A list of fees of one chain.                                            *)
LEMMA FeesType ==
    ASSUME NEW percs \in Seq(Int) \ {<<>>}
    PROVE  /\ Len(percs) \in Nat \ {0}
           /\ Len(Fees(percs)) = Len(percs) - 1
           /\ DOMAIN Fees(percs) = 1..(Len(percs) - 1)
           /\ \A k \in 1..(Len(percs) - 1) :
                 k + 1 \in DOMAIN percs /\ Fees(percs)[k] = Reduced(percs[k + 1])
           /\ Fees(percs) = <<>> <=> Len(percs) = 1
<1>1. Len(percs) \in Nat \ {0} /\ DOMAIN percs = 1..Len(percs)
  OBVIOUS
<1>2. \A k \in DOMAIN percs : Reduced(percs[k]) \in Uint16
  BY ReducedType
<1> DEFINE f == Fees(percs)
           n == Len(percs) - 1
<1>3. n \in Nat /\ \A k \in 1..n : k + 1 \in DOMAIN percs
  BY <1>1
<1>4. f = [k \in 1..n |-> Reduced(percs[k + 1])]
  BY DEF Fees
<1>5. DOMAIN f = 1..n /\ \A k \in 1..n : f[k] = Reduced(percs[k + 1])
  BY <1>4
<1>6. f \in Seq(Uint16) /\ Len(f) = n
  <2> HIDE DEF f, n
  <2>1. f \in [1..n -> Uint16]
    BY <1>2, <1>3, <1>4
  <2>2. f \in Seq(Uint16)
    <3>1. [1..n -> Uint16] \in {[1..m -> Uint16] : m \in Nat}
      BY <1>3
    <3>2. f \in UNION {[1..m -> Uint16] : m \in Nat}
      BY <2>1, <3>1, Zenon
    <3>3. QED
      BY <3>2, SeqDef, Zenon
  <2>3. QED
    BY <1>3, <1>5, <2>2, LenProperties
<1>7. f = <<>> <=> n = 0
  <2> HIDE DEF f, n
  <2>1. QED
    BY <1>3, <1>6, EmptySeq
<1>8. n = 0 <=> Len(percs) = 1
  BY <1>1
<1>9. QED
  BY <1>1, <1>3, <1>5, <1>6, <1>7, <1>8

(* What ReduceFee answers: the base fee, or a reduction of the chain the   *)
(* request may mean; and only a list without fees makes it panic.          *)
LEMMA FeeAnswered ==
    ASSUME PricesOK, fees # None, NEW c \in Chain \cup DOMAIN fees, NEW l \in Int, ~CanPanic(c, l)
    PROVE  \/ FeeOn(c, l) = BaseFee
           \/ /\ l > 0 /\ c \in Chain
              /\ \E i \in Parts(c) :
                    /\ setting[i] # None
                    /\ \E k \in DOMAIN setting[i].percs :
                          setting[i].percs[k] \in Int /\ FeeOn(c, l) = Reduced(setting[i].percs[k])
<1>1. CASE l = 0 \/ c \notin DOMAIN fees
  BY <1>1 DEF FeeOn
<1>2. CASE l # 0 /\ c \in DOMAIN fees
  <2>1. PICK i \in Parts(c) :
           /\ setting[i] # None
           /\ setting[i].percs \in Seq(Int) \ {<<>>}
           /\ fees[c] = Fees(setting[i].percs)
    BY <1>2, FeeMap
  <2>2. c \in Chain
    BY <1>2, FeeMap
  <2> DEFINE percs == setting[i].percs
             k == IF l > Len(fees[c]) THEN Len(fees[c]) ELSE l
  <2>3. FeeOn(c, l) = fees[c][k]
    BY <1>2 DEF FeeOn
  <2>4. fees[c] # <<>> /\ l > 0
    BY <1>2 DEF CanPanic
  <2>5. Len(percs) \in Nat \ {0, 1} /\ Len(fees[c]) = Len(percs) - 1
    BY <2>1, <2>4, FeesType
  <2>6. k \in 1..(Len(percs) - 1)
    <3>1. \A a \in Nat \ {0}, m \in Nat \ {0, 1} : (IF a > m - 1 THEN m - 1 ELSE a) \in 1..(m - 1)
      OBVIOUS
    <3>2. k = IF l > Len(percs) - 1 THEN Len(percs) - 1 ELSE l
      BY <2>5
    <3> HIDE DEF k, percs
    <3>3. QED
      BY <2>4, <2>5, <3>1, <3>2
  <2>7. k + 1 \in DOMAIN percs /\ fees[c][k] = Reduced(percs[k + 1])
    <3> HIDE DEF k
    <3>1. QED
      BY <2>1, <2>6, FeesType
  <2>8. percs[k + 1] \in Int
    BY <2>1, <2>7
  <2>9. QED
    BY <2>1, <2>2, <2>3, <2>4, <2>7, <2>8
<1>3. QED
  BY <1>1, <1>2
-----------------------------------------------------------------------------
(* Types                                                                   *)

(* Every step keeps the setting and the price list made of it.             *)
LEMMA PricesKept ==
    ASSUME [Next]_vars
    PROVE  UNCHANGED prices
BY DEF Next, vars, AskFee, GetCached, RestGetVip3Level, SetCached, SetExpiry, ReduceFee,
       ChangeLevel, ClockTick, BrokerCrash

(* What the steps need of the constants.                                   *)
LEMMA ConstantsOK ==
    /\ Levels \subseteq Int /\ 0 \in Levels /\ Expiry \in Nat \ {0} /\ BaseFee \in Uint16
    /\ AnyChain \notin Chain
BY FeeAssumption

(* At the start all have their shape.                                      *)
LEMMA ShapeInit == Init => Shape
<1> SUFFICES ASSUME Init
             PROVE  Shape
  OBVIOUS
<1> USE FeeAssumption
<1>1. TypeOK
  BY DEF Init, TypeOK
<1>2. PricesOK
  BY DEF Init, PricesOK
<1>3. RequestsOK
  BY DEF Init, RequestsOK, Busy
<1>4. QED
  BY <1>1, <1>2, <1>3 DEF Shape

(* Every step keeps the shape.                                             *)
LEMMA ShapeStep ==
    ASSUME Shape, [Next]_vars
    PROVE  Shape'
<1> USE ConstantsOK
<1>0. PricesOK'
  BY PricesKept DEF Shape, PricesOK, prices
<1>1. ASSUME NEW r \in Request, NEW t \in Trader, NEW c \in Chain \cup {AnyChain}, AskFee(r, t, c)
      PROVE  TypeOK' /\ RequestsOK'
  BY <1>1 DEF Shape, TypeOK, RequestsOK, AskFee, Goto, prices, redis, Busy
<1>2. ASSUME NEW r \in Request, GetCached(r)
      PROVE  TypeOK' /\ RequestsOK'
  BY <1>2 DEF Shape, TypeOK, RequestsOK, GetCached, Goto, Learn, prices, redis, Busy
<1>3. ASSUME NEW r \in Request, RestGetVip3Level(r)
      PROVE  TypeOK' /\ RequestsOK'
  BY <1>3 DEF Shape, TypeOK, RequestsOK, RestGetVip3Level, Goto, Learn, prices, redis, Busy
<1>4. ASSUME NEW r \in Request, SetCached(r)
      PROVE  TypeOK' /\ RequestsOK'
  BY <1>4 DEF Shape, TypeOK, RequestsOK, SetCached, Goto, prices, redis, Busy
<1>5. ASSUME NEW r \in Request, SetExpiry(r)
      PROVE  TypeOK' /\ RequestsOK'
  BY <1>5 DEF Shape, TypeOK, RequestsOK, SetExpiry, Goto, prices, redis, Busy
<1>6. ASSUME NEW r \in Request, ReduceFee(r)
      PROVE  TypeOK' /\ RequestsOK'
  <2>1. pc[r] = "fee" /\ fees # None /\ level[r] \in Int
    BY <1>6 DEF Shape, TypeOK, RequestsOK, ReduceFee, Busy
  <2>2. fee' \in [Request -> Uint16 \cup {None}]
    <3>1. PICK c \in IF chain[r] = AnyChain THEN DOMAIN fees ELSE {chain[r]} :
             \/ UNCHANGED fee
             \/ ~CanPanic(c, level[r]) /\ fee' = [fee EXCEPT ![r] = FeeOn(c, level[r])]
      BY <1>6 DEF ReduceFee
    <3>2. c \in Chain \cup DOMAIN fees
      BY DEF Shape, TypeOK
    <3>3. ~CanPanic(c, level[r]) => FeeOn(c, level[r]) \in Uint16
      BY <2>1, <3>2, FeeAnswered, ReducedType DEF Shape
    <3>4. QED
      BY <3>1, <3>3 DEF Shape, TypeOK
  <2>3. \/ pc' = [pc EXCEPT ![r] = "panicked"] /\ UNCHANGED fee
        \/ pc' = [pc EXCEPT ![r] = "answered"] /\ \E f : fee' = [fee EXCEPT ![r] = f]
    BY <1>6 DEF ReduceFee, Goto
  <2>4. TypeOK'
    BY <1>6, <2>2, <2>3 DEF Shape, TypeOK, ReduceFee, prices, redis
  <2>5. RequestsOK'
    BY <1>6, <2>1, <2>3 DEF Shape, TypeOK, RequestsOK, ReduceFee, prices, redis, Busy
  <2>6. QED
    BY <2>4, <2>5
<1>7. ASSUME NEW t \in Trader, ChangeLevel(t)
      PROVE  TypeOK' /\ RequestsOK'
  BY <1>7 DEF Shape, TypeOK, RequestsOK, ChangeLevel, prices, redis, Busy
<1>8. ASSUME ClockTick
      PROVE  TypeOK' /\ RequestsOK'
  BY <1>8 DEF Shape, TypeOK, RequestsOK, ClockTick, prices, redis, Busy
<1>9. ASSUME BrokerCrash
      PROVE  TypeOK' /\ RequestsOK'
  BY <1>9 DEF Shape, TypeOK, RequestsOK, BrokerCrash, prices, redis, Busy
<1>10. ASSUME UNCHANGED vars
       PROVE  TypeOK' /\ RequestsOK'
  BY <1>10 DEF Shape, TypeOK, RequestsOK, vars, prices, redis, Busy
<1>11. QED
  BY <1>0, <1>1, <1>2, <1>3, <1>4, <1>5, <1>6, <1>7, <1>8, <1>9, <1>10 DEF Next, Shape
-----------------------------------------------------------------------------
(* Reductions                                                              *)

(* Every step keeps a level above 0 with the trader the service gave it to.*)
LEMMA LevelsStep ==
    ASSUME Shape, LevelsEarned, [Next]_vars
    PROVE  LevelsEarned' /\ reported \subseteq reported'
<1> USE ConstantsOK DEF Shape, LevelsEarned
<1>1. ASSUME NEW r \in Request, NEW t \in Trader, NEW c \in Chain \cup {AnyChain}, AskFee(r, t, c)
      PROVE  LevelsEarned' /\ reported \subseteq reported'
  BY <1>1 DEF TypeOK, RequestsOK, AskFee, redis
<1>2. ASSUME NEW r \in Request, GetCached(r)
      PROVE  LevelsEarned' /\ reported \subseteq reported'
  BY <1>2 DEF TypeOK, RequestsOK, GetCached, Learn, redis
<1>3. ASSUME NEW r \in Request, RestGetVip3Level(r)
      PROVE  LevelsEarned' /\ reported \subseteq reported'
  BY <1>3 DEF TypeOK, RequestsOK, RestGetVip3Level, Learn, redis
<1>4. ASSUME NEW r \in Request, SetCached(r)
      PROVE  LevelsEarned' /\ reported \subseteq reported'
  BY <1>4 DEF TypeOK, RequestsOK, SetCached, redis
<1>5. ASSUME NEW r \in Request, SetExpiry(r)
      PROVE  LevelsEarned' /\ reported \subseteq reported'
  BY <1>5 DEF TypeOK, SetExpiry
<1>6. ASSUME NEW r \in Request, ReduceFee(r)
      PROVE  LevelsEarned' /\ reported \subseteq reported'
  BY <1>6 DEF TypeOK, ReduceFee, redis
<1>7. ASSUME NEW t \in Trader, ChangeLevel(t)
      PROVE  LevelsEarned' /\ reported \subseteq reported'
  BY <1>7 DEF TypeOK, ChangeLevel, redis
<1>8. ASSUME ClockTick
      PROVE  LevelsEarned' /\ reported \subseteq reported'
  BY <1>8 DEF TypeOK, ClockTick
<1>9. ASSUME BrokerCrash
      PROVE  LevelsEarned' /\ reported \subseteq reported'
  BY <1>9 DEF TypeOK, BrokerCrash, redis
<1>10. ASSUME UNCHANGED vars
       PROVE  LevelsEarned' /\ reported \subseteq reported'
  BY <1>10 DEF vars, redis
<1>11. QED
  BY <1>1, <1>2, <1>3, <1>4, <1>5, <1>6, <1>7, <1>8, <1>9, <1>10 DEF Next

(* What a step does to the answer of a request: it stays as it is, with    *)
(* the trader and the chain it was asked for; or there is none; or it is   *)
(* the base fee; or ReduceFee gives it.                                    *)
LEMMA AnswerStep ==
    ASSUME Shape, [Next]_vars, NEW r \in Request
    PROVE  \/ /\ fee'[r] = fee[r]
              /\ trader'[r] = trader[r]
              /\ chain'[r] = chain[r]
           \/ fee'[r] \in {None, BaseFee}
           \/ /\ ReduceFee(r)
              /\ trader'[r] = trader[r] /\ chain'[r] = chain[r]
              /\ \E c \in IF chain[r] = AnyChain THEN DOMAIN fees ELSE {chain[r]} :
                    ~CanPanic(c, level[r]) /\ fee'[r] = FeeOn(c, level[r])
<1> DEFINE Claim ==
       \/ fee'[r] = fee[r] /\ trader'[r] = trader[r] /\ chain'[r] = chain[r]
       \/ fee'[r] \in {None, BaseFee}
       \/ /\ ReduceFee(r)
          /\ trader'[r] = trader[r] /\ chain'[r] = chain[r]
          /\ \E c \in IF chain[r] = AnyChain THEN DOMAIN fees ELSE {chain[r]} :
                ~CanPanic(c, level[r]) /\ fee'[r] = FeeOn(c, level[r])
<1>1. ASSUME NEW q \in Request, NEW t \in Trader, NEW c \in Chain \cup {AnyChain}, AskFee(q, t, c)
      PROVE  Claim
  BY <1>1 DEF Shape, TypeOK, RequestsOK, AskFee
<1>2. ASSUME NEW q \in Request, ReduceFee(q)
      PROVE  Claim
  <2>1. UNCHANGED <<trader, chain>>
    BY <1>2 DEF ReduceFee
  <2>2. PICK c \in IF chain[q] = AnyChain THEN DOMAIN fees ELSE {chain[q]} :
           \/ UNCHANGED fee
           \/ ~CanPanic(c, level[q]) /\ fee' = [fee EXCEPT ![q] = FeeOn(c, level[q])]
    BY <1>2 DEF ReduceFee
  <2>3. fee \in [Request -> Uint16 \cup {None}]
    BY DEF Shape, TypeOK
  <2>4. CASE q = r
    BY <1>2, <2>1, <2>2, <2>3, <2>4
  <2>5. CASE q # r
    BY <2>1, <2>2, <2>3, <2>5
  <2>6. QED
    BY <2>4, <2>5
<1>3. ASSUME BrokerCrash
      PROVE  Claim
  BY <1>3 DEF Shape, TypeOK, RequestsOK, BrokerCrash
<1>4. ASSUME \/ \E q \in Request : \/ GetCached(q) \/ RestGetVip3Level(q)
                                   \/ SetCached(q) \/ SetExpiry(q)
             \/ \E t \in Trader : ChangeLevel(t)
             \/ ClockTick
             \/ UNCHANGED vars
      PROVE  UNCHANGED <<fee, trader, chain>>
  BY <1>4 DEF GetCached, RestGetVip3Level, SetCached, SetExpiry, ChangeLevel, ClockTick, vars
<1>5. QED
  BY <1>1, <1>2, <1>3, <1>4 DEF Next

(* Every step keeps reductions earned.                                     *)
LEMMA ReductionStep ==
    ASSUME Shape, LevelsEarned, ReductionIsEarned, [Next]_vars
    PROVE  ReductionIsEarned'
<1> SUFFICES ASSUME NEW r \in Request, fee'[r] \notin {None, BaseFee}
             PROVE  /\ trader'[r] \in reported'
                    /\ \E c \in IF chain'[r] = AnyChain THEN Chain ELSE {chain'[r]} :
                          \E i \in Parts(c)' : \E k \in DOMAIN setting'[i].percs :
                             fee'[r] = Reduced(setting'[i].percs[k])
  BY Zenon DEF ReductionIsEarned
<1>1. setting' = setting /\ \A c : Parts(c)' = Parts(c)
  BY PricesKept DEF prices, Parts
<1>2. reported \subseteq reported'
  BY LevelsStep
<1>3. CASE fee'[r] = fee[r] /\ trader'[r] = trader[r] /\ chain'[r] = chain[r]
  BY <1>1, <1>2, <1>3 DEF ReductionIsEarned
<1>4. ASSUME NEW c \in IF chain[r] = AnyChain THEN DOMAIN fees ELSE {chain[r]},
             ReduceFee(r), trader'[r] = trader[r], chain'[r] = chain[r],
             ~CanPanic(c, level[r]), fee'[r] = FeeOn(c, level[r])
      PROVE  /\ trader'[r] \in reported'
             /\ \E d \in IF chain'[r] = AnyChain THEN Chain ELSE {chain'[r]} :
                   \E i \in Parts(d)' : \E k \in DOMAIN setting'[i].percs :
                      fee'[r] = Reduced(setting'[i].percs[k])
  <2>1. fees # None /\ level[r] \in Int /\ PricesOK /\ chain[r] \in Chain \cup {AnyChain}
    BY <1>4, ConstantsOK DEF Shape, TypeOK, RequestsOK, ReduceFee, Busy
  <2>2. FeeOn(c, level[r]) # BaseFee
    BY <1>4
  <2>3. c \in Chain \cup DOMAIN fees
    BY <2>1
  <2>4. /\ level[r] > 0 /\ c \in Chain
        /\ \E i \in Parts(c) : \E k \in DOMAIN setting[i].percs :
              FeeOn(c, level[r]) = Reduced(setting[i].percs[k])
    BY <1>4, <2>1, <2>2, <2>3, FeeAnswered
  <2>5. trader[r] \in reported
    BY <2>1, <2>4 DEF LevelsEarned
  <2>6. c \in IF chain'[r] = AnyChain THEN Chain ELSE {chain'[r]}
    BY <1>4, <2>4
  <2>7. QED
    BY <1>1, <1>2, <1>4, <2>4, <2>5, <2>6
<1>5. QED
  BY <1>3, <1>4, AnswerStep
-----------------------------------------------------------------------------
(* Levels expire                                                           *)

(* The level of a trader has a time to live, or it is somebody's failure.  *)
Expires(t) == cached[t] # None => ttl[t] > 0 \/ \E r \in Request :
    trader[r] = t /\ (pc[r] = "expire" \/ r \in skipped)

(* Every step keeps each level on its way to expire.                       *)
LEMMA ExpiryStep ==
    ASSUME Shape, LevelExpires, [Next]_vars
    PROVE  LevelExpires'
<1> USE ConstantsOK
<1> SUFFICES ASSUME NEW t \in Trader
             PROVE  Expires(t)'
  BY DEF LevelExpires, Expires
<1>0. Expires(t)
  BY DEF LevelExpires, Expires
<1>1. ASSUME NEW r \in Request, NEW u \in Trader, NEW c \in Chain \cup {AnyChain}, AskFee(r, u, c)
      PROVE  Expires(t)'
  <2>1. \A q \in Request : pc[q] = "expire" \/ q \in skipped => q # r
    BY <1>1 DEF Shape, RequestsOK, AskFee
  <2>2. \A q \in Request : q # r => trader'[q] = trader[q] /\ pc'[q] = pc[q]
    BY <1>1 DEF Shape, TypeOK, AskFee, Goto
  <2>3. UNCHANGED <<cached, ttl, skipped>>
    BY <1>1 DEF AskFee, redis
  <2>4. QED
    BY <1>0, <2>1, <2>2, <2>3 DEF Expires
<1>2. ASSUME NEW r \in Request, GetCached(r) \/ RestGetVip3Level(r) \/ ReduceFee(r)
      PROVE  Expires(t)'
  <2>1. \A q \in Request : pc[q] = "expire" => pc'[q] = "expire"
    BY <1>2 DEF Shape, TypeOK, GetCached, RestGetVip3Level, ReduceFee, Goto
  <2>2. UNCHANGED <<cached, ttl, trader, skipped>>
    BY <1>2 DEF GetCached, RestGetVip3Level, ReduceFee, redis
  <2>3. QED
    BY <1>0, <2>1, <2>2 DEF Expires
<1>3. ASSUME NEW r \in Request, SetCached(r)
      PROVE  Expires(t)'
  <2>1. pc' = [pc EXCEPT ![r] = "expire"] /\ UNCHANGED <<trader, skipped>>
    BY <1>3 DEF SetCached, Goto
  <2>2. CASE t = trader[r]
    BY <2>1, <2>2 DEF Shape, TypeOK, Expires
  <2>3. CASE t # trader[r]
    <3>1. cached'[t] = cached[t] /\ ttl'[t] = ttl[t]
      BY <1>3, <2>3 DEF Shape, TypeOK, SetCached, redis
    <3>2. \A q \in Request : trader[q] = t => pc'[q] = pc[q]
      BY <2>1, <2>3 DEF Shape, TypeOK
    <3>3. QED
      BY <1>0, <2>1, <3>1, <3>2 DEF Expires
  <2>4. QED
    BY <2>2, <2>3
<1>4. ASSUME NEW r \in Request, SetExpiry(r)
      PROVE  Expires(t)'
  <2>1. UNCHANGED <<cached, trader>> /\ pc' = [pc EXCEPT ![r] = "fee"]
    BY <1>4 DEF SetExpiry, Goto
  <2>2. skipped \subseteq skipped'
    BY <1>4 DEF SetExpiry
  <2>3. CASE t = trader[r]
    <3>1. CASE r \in skipped'
      BY <2>1, <2>3, <3>1 DEF Expires
    <3>2. CASE r \notin skipped'
      BY <1>4, <2>1, <2>3, <3>2 DEF Shape, TypeOK, SetExpiry, Expires
    <3>3. QED
      BY <3>1, <3>2
  <2>4. CASE t # trader[r]
    <3>1. ttl'[t] = ttl[t]
      BY <1>4, <2>4 DEF Shape, TypeOK, SetExpiry
    <3>2. \A q \in Request : trader[q] = t => pc'[q] = pc[q]
      BY <2>1, <2>4 DEF Shape, TypeOK
    <3>3. QED
      BY <1>0, <2>1, <2>2, <3>1, <3>2 DEF Expires
  <2>5. QED
    BY <2>3, <2>4
<1>5. ASSUME ClockTick
      PROVE  Expires(t)'
  <2>1. UNCHANGED <<trader, pc, skipped>>
    BY <1>5 DEF ClockTick
  <2>2. ttl[t] \in Nat
    BY DEF Shape, TypeOK
  <2>3. /\ ttl'[t] = IF ttl[t] > 0 THEN ttl[t] - 1 ELSE 0
        /\ cached'[t] = IF ttl[t] = 1 THEN None ELSE cached[t]
    BY <1>5 DEF ClockTick
  <2>4. QED
    BY <1>0, <2>1, <2>2, <2>3 DEF Expires
<1>6. ASSUME BrokerCrash
      PROVE  Expires(t)'
  <2>1. \A q \in Request : pc[q] = "expire" \/ q \in skipped => q \in skipped'
    BY <1>6 DEF BrokerCrash
  <2>2. UNCHANGED <<cached, ttl, trader>>
    BY <1>6 DEF BrokerCrash, redis
  <2>3. QED
    BY <1>0, <2>1, <2>2 DEF Expires
<1>7. ASSUME \/ \E u \in Trader : ChangeLevel(u)
             \/ UNCHANGED vars
      PROVE  Expires(t)'
  BY <1>0, <1>7 DEF ChangeLevel, vars, redis, Expires
<1>8. QED
  BY <1>1, <1>2, <1>3, <1>4, <1>5, <1>6, <1>7 DEF Next

-----------------------------------------------------------------------------
(* Sane prices                                                             *)

(* With a sane list of prices only a level below 0 makes the index panic,  *)
(* and none raises the fee.                                                *)
LEMMA SaneFee ==
    ASSUME PricesOK, fees # None, Sane, NEW c \in Chain \cup DOMAIN fees, NEW l \in Int
    PROVE  /\ CanPanic(c, l) => l < 0
           /\ ~CanPanic(c, l) => FeeOn(c, l) <= BaseFee
<1>1. CanPanic(c, l) => l < 0
  <2>1. SUFFICES ASSUME c \in DOMAIN fees
                 PROVE  fees[c] # <<>>
    BY DEF CanPanic
  <2>2. PICK i \in Parts(c) :
           /\ setting[i] # None
           /\ setting[i].percs \in Seq(Int) \ {<<>>}
           /\ fees[c] = Fees(setting[i].percs)
    BY <2>1, FeeMap
  <2>3. Len(setting[i].percs) >= 2
    BY <2>2 DEF Sane, Parts
  <2>4. QED
    BY <2>2, <2>3, FeesType
<1>2. CASE FeeOn(c, l) = BaseFee
  BY <1>1, <1>2, ConstantsOK DEF Uint16
<1>3. ASSUME NEW i \in Parts(c), setting[i] # None,
             NEW k \in DOMAIN setting[i].percs, FeeOn(c, l) = Reduced(setting[i].percs[k])
      PROVE  FeeOn(c, l) <= BaseFee
  <2>1. setting[i].percs[k] \in 0..100
    BY <1>3 DEF Sane, Parts
  <2>2. QED
    BY <1>3, <2>1, ReducedBound
<1>4. QED
  BY <1>1, <1>2, <1>3, FeeAnswered

(* Every step keeps sane prices safe.                                      *)
LEMMA SaneStep ==
    ASSUME Shape, SanePricesAreSafe, [Next]_vars
    PROVE  SanePricesAreSafe'
<1>1. SUFFICES ASSUME Sane, NEW r \in Request
               PROVE  /\ pc'[r] = "panicked" => level'[r] < 0
                      /\ fee'[r] # None => fee'[r] <= BaseFee
  BY PricesKept DEF SanePricesAreSafe, Sane, prices
<1>2. (pc[r] = "panicked" => level[r] < 0) /\ (fee[r] # None => fee[r] <= BaseFee)
  BY <1>1 DEF SanePricesAreSafe
<1>3. ASSUME NEW q \in Request, NEW c \in IF chain[q] = AnyChain THEN DOMAIN fees ELSE {chain[q]},
             ReduceFee(q)
      PROVE  /\ CanPanic(c, level[q]) => level[q] < 0
             /\ ~CanPanic(c, level[q]) => FeeOn(c, level[q]) <= BaseFee
  <2>1. fees # None /\ level[q] \in Int /\ PricesOK /\ chain[q] \in Chain \cup {AnyChain}
    BY <1>3, ConstantsOK DEF Shape, TypeOK, RequestsOK, ReduceFee, Busy
  <2>2. c \in Chain \cup DOMAIN fees
    BY <2>1
  <2>3. QED
    BY <1>1, <2>1, <2>2, SaneFee
<1>4. fee'[r] # None => fee'[r] <= BaseFee
  <2>1. BaseFee <= BaseFee
    BY ConstantsOK DEF Uint16
  <2>2. QED
    BY <1>2, <1>3, <2>1, AnswerStep
<1>5. pc'[r] = "panicked" => level'[r] < 0
  <2>1. ASSUME NEW q \in Request, ReduceFee(q)
        PROVE  pc'[r] = "panicked" => level'[r] < 0
    <3>1. level' = level
      BY <2>1 DEF ReduceFee
    <3>2. pc' = [pc EXCEPT ![q] = "answered"] \/ level[q] < 0
      BY <1>3, <2>1 DEF ReduceFee, Goto
    <3>3. q # r => pc'[r] = pc[r]
      BY <2>1 DEF Shape, TypeOK, ReduceFee, Goto
    <3>4. QED
      BY <1>2, <3>1, <3>2, <3>3 DEF Shape, TypeOK
  <2>2. ASSUME NEW q \in Request, \/ \E t \in Trader, c \in Chain \cup {AnyChain} : AskFee(q, t, c)
                                  \/ GetCached(q) \/ RestGetVip3Level(q)
                                  \/ SetCached(q) \/ SetExpiry(q)
        PROVE  pc'[r] = "panicked" => level'[r] < 0
    <3>1. pc'[q] # "panicked" /\ pc[q] # "panicked"
      BY <2>2 DEF Shape, TypeOK, AskFee, GetCached, RestGetVip3Level, SetCached, SetExpiry, Goto
    <3>2. q # r => pc'[r] = pc[r] /\ level'[r] = level[r]
      BY <2>2 DEF Shape, TypeOK, AskFee, GetCached, RestGetVip3Level, SetCached, SetExpiry, Goto, Learn
    <3>3. QED
      BY <1>2, <3>1, <3>2
  <2>3. ASSUME BrokerCrash
        PROVE  pc'[r] = "panicked" => level'[r] < 0
    BY <1>2, <2>3 DEF BrokerCrash
  <2>4. ASSUME (\E t \in Trader : ChangeLevel(t)) \/ ClockTick \/ UNCHANGED vars
        PROVE  pc'[r] = "panicked" => level'[r] < 0
    BY <1>2, <2>4 DEF ChangeLevel, ClockTick, vars
  <2>5. QED
    BY <2>1, <2>2, <2>3, <2>4 DEF Next
<1>6. QED
  BY <1>4, <1>5

-----------------------------------------------------------------------------
(* Theorems                                                                *)

(* The inductive invariant: the shape, earned levels and what follows.     *)
LEMMA FeeInvariant == Spec => []FeeInv
<1>1. Init => FeeInv
  <2> SUFFICES ASSUME Init
               PROVE  FeeInv
    OBVIOUS
  <2>1. Shape
    BY ShapeInit
  <2>2. LevelsEarned /\ LevelExpires
    BY DEF Init, LevelsEarned, LevelExpires
  <2>3. ReductionIsEarned
    BY DEF Init, ReductionIsEarned
  <2>4. SanePricesAreSafe
    BY DEF Init, SanePricesAreSafe
  <2>5. QED
    BY <2>1, <2>2, <2>3, <2>4 DEF FeeInv
<1>2. FeeInv /\ [Next]_vars => FeeInv'
  BY ShapeStep, LevelsStep, ReductionStep, ExpiryStep, SaneStep DEF FeeInv
<1>3. QED
  BY <1>1, <1>2, PTL DEF Spec

(* Every variable has its type; a fee fits into uint16, whatever numbers   *)
(* VIP3_REDUCTION_PERC holds.                                              *)
THEOREM TypeCorrect == Spec => []TypeOK
<1>1. FeeInv => TypeOK
  BY DEF FeeInv, Shape
<1>2. QED
  BY <1>1, FeeInvariant, PTL

(* Whoever pays less than the base fee was given a level by the service,   *)
(* and pays what the setting names for a chain the request may mean.       *)
THEOREM Earned == Spec => []ReductionIsEarned
<1>1. FeeInv => ReductionIsEarned
  BY DEF FeeInv
<1>2. QED
  BY <1>1, FeeInvariant, PTL

(* A level without a time to live is about to get one, unless its EXPIRE   *)
(* failed or the broker died before it.                                    *)
THEOREM Expire == Spec => []LevelExpires
<1>1. FeeInv => LevelExpires
  BY DEF FeeInv
<1>2. QED
  BY <1>1, FeeInvariant, PTL

(* With two or more percentages from 0 to 100 for each chain no request    *)
(* panics but on a level below 0, and nobody pays more than the base fee.  *)
THEOREM SaneIsSafe == Spec => []SanePricesAreSafe
<1>1. FeeInv => SanePricesAreSafe
  BY DEF FeeInv
<1>2. QED
  BY <1>1, FeeInvariant, PTL
=============================================================================
