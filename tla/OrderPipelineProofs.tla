------------------------- MODULE OrderPipelineProofs -------------------------
(***************************************************************************)
(* Theorems about OrderPipeline, for any number of requests, orders and    *)
(* topics, any expiry time and any set of failures.                        *)
(***************************************************************************)
EXTENDS OrderPipeline, SequenceTheorems, TLAPS

(* A request works on an id of its batch.                                  *)
PositionsOK ==
    \A r \in Request :
        /\ pc[r] = "new" => pos[r] = 1
        /\ pc[r] \in Working => pos[r] <= Len(batch[r]) /\ Len(batch[r]) <= MaxBatch

(* The handler drains a topic, and an id in its hand belongs to it.        *)
HandlerOK ==
    /\ wsPc # "idle" => wsTopic \in Topic
    /\ wsPc \in {"fetch", "send"} => wsEntry \in Entry

Shape == TypeOK /\ PositionsOK /\ HandlerOK

(* Who knows an order: the hash was written for it by a request that found *)
(* it signable, and a request about to push it has seen that hash.         *)
KnownOK ==
    /\ stored \subseteq known
    /\ known \subseteq Signable
    /\ \A r \in Request :
          /\ pc[r] \in {"hset", "expire"} => Current(r) \in Signable
          /\ pc[r] = "push" => Current(r) \in known
    /\ \A e \in pushed : e.order \in known

(* A request has not yet pushed the entry it is about to push.             *)
Unpushed ==
    \A e \in pushed :
        \/ e.pos < pos[e.req]
        \/ e.pos = pos[e.req] /\ pc[e.req] \in {"publish", "success", "error"} \cup Died

-----------------------------------------------------------------------------
(* Lists                                                                   *)

(* LPUSH: the list stays a list and holds one more element; if that is a   *)
(* new one, elements stay distinct.                                        *)
LEMMA PushedList ==
    ASSUME NEW S, NEW s \in Seq(S), NEW e \in S
    PROVE  /\ <<e>> \o s \in Seq(S)
           /\ <<e>> \o s # <<>>
           /\ Range(<<e>> \o s) = {e} \cup Range(s)
           /\ IsInjective(s) /\ e \notin Range(s) => IsInjective(<<e>> \o s)
<1>1. <<e>> \in Seq(S) /\ Len(<<e>>) = 1 /\ <<e>>[1] = e
  OBVIOUS
<1> DEFINE t == <<e>> \o s
<1>2. /\ t \in Seq(S)
      /\ Len(t) = 1 + Len(s)
      /\ \A i \in 1..(1 + Len(s)) : t[i] = IF i <= 1 THEN <<e>>[i] ELSE s[i - 1]
  BY <1>1, ConcatProperties
<1>3. t # <<>>
  BY <1>2, EmptySeq
<1>4. Range(t) = {e} \cup Range(s)
  <2>1. DOMAIN s = 1..Len(s) /\ DOMAIN t = 1..(1 + Len(s)) /\ Len(s) \in Nat
    BY <1>2, LenProperties
  <2>2. t[1] = e /\ \A i \in 2..(1 + Len(s)) : t[i] = s[i - 1] /\ i - 1 \in DOMAIN s
    BY <1>1, <1>2, <2>1
  <2>3. \A i \in DOMAIN s : i + 1 \in DOMAIN t /\ t[i + 1] = s[i]
    BY <1>2, <2>1
  <2>4. Range(t) \subseteq {e} \cup Range(s)
    BY <2>1, <2>2 DEF Range
  <2>5. {e} \cup Range(s) \subseteq Range(t)
    <3>1. 1 \in DOMAIN t
      BY <2>1
    <3>2. e \in Range(t)
      BY <2>2, <3>1 DEF Range
    <3>3. ASSUME NEW x \in Range(s)
          PROVE  x \in Range(t)
      <4>1. PICK i \in DOMAIN s : x = s[i]
        BY DEF Range
      <4>2. i + 1 \in DOMAIN t /\ t[i + 1] = x
        BY <2>3, <4>1
      <4>3. QED
        BY <4>2 DEF Range
    <3>4. QED
      BY <3>2, <3>3
  <2>6. QED
    BY <2>4, <2>5
<1>5. ASSUME IsInjective(s), e \notin Range(s)
      PROVE  IsInjective(t)
  <2>1. DOMAIN s = 1..Len(s) /\ DOMAIN t = 1..(1 + Len(s)) /\ Len(s) \in Nat
    BY <1>2, LenProperties
  <2>2. SUFFICES ASSUME NEW i \in 1..(1 + Len(s)), NEW j \in 1..(1 + Len(s)), t[i] = t[j]
                 PROVE  i = j
    BY <2>1 DEF IsInjective
  <2>3. \A k \in 2..(1 + Len(s)) : t[k] = s[k - 1] /\ k - 1 \in DOMAIN s /\ t[k] # e
    BY <1>2, <1>5, <2>1 DEF Range
  <2>4. t[1] = e
    BY <1>1, <1>2, <2>1
  <2>5. CASE i = 1 \/ j = 1
    BY <2>1, <2>2, <2>3, <2>4, <2>5
  <2>6. CASE i # 1 /\ j # 1
    BY <1>5, <2>1, <2>2, <2>3, <2>6 DEF IsInjective
  <2>7. QED
    BY <2>5, <2>6
<1>6. QED
  BY <1>2, <1>3, <1>4, <1>5

(* LPOP: the head leaves the list; if elements were distinct, it is gone.  *)
LEMMA PoppedList ==
    ASSUME NEW S, NEW s \in Seq(S), s # <<>>
    PROVE  /\ Head(s) \in S
           /\ Tail(s) \in Seq(S)
           /\ Range(s) = {Head(s)} \cup Range(Tail(s))
           /\ IsInjective(s) => IsInjective(Tail(s)) /\ Head(s) \notin Range(Tail(s))
<1>1. /\ Head(s) \in S
      /\ Tail(s) \in Seq(S)
      /\ Len(Tail(s)) = Len(s) - 1
      /\ \A i \in 1..Len(Tail(s)) : Tail(s)[i] = s[i + 1]
  BY HeadTailProperties
<1>2. /\ Len(s) \in Nat \ {0}
      /\ DOMAIN s = 1..Len(s)
      /\ DOMAIN Tail(s) = 1..(Len(s) - 1)
  BY <1>1, EmptySeq, LenProperties
<1>3. Head(s) = s[1]
  OBVIOUS
<1>4. Range(s) = {Head(s)} \cup Range(Tail(s))
  <2>1. ASSUME NEW x \in Range(s)
        PROVE  x \in {Head(s)} \cup Range(Tail(s))
    <3>1. PICK i \in 1..Len(s) : x = s[i]
      BY <1>2 DEF Range
    <3>2. CASE i = 1
      BY <1>3, <3>1, <3>2
    <3>3. CASE i # 1
      <4>1. i - 1 \in DOMAIN Tail(s) /\ Tail(s)[i - 1] = s[i]
        BY <1>1, <1>2, <3>3
      <4>2. QED
        BY <3>1, <4>1 DEF Range
    <3>4. QED
      BY <3>2, <3>3
  <2>2. ASSUME NEW x \in {Head(s)} \cup Range(Tail(s))
        PROVE  x \in Range(s)
    BY <1>1, <1>2, <1>3 DEF Range
  <2>3. QED
    BY <2>1, <2>2
<1>5. ASSUME IsInjective(s)
      PROVE  IsInjective(Tail(s)) /\ Head(s) \notin Range(Tail(s))
  <2>1. \A i \in DOMAIN Tail(s) : i + 1 \in DOMAIN s /\ Tail(s)[i] = s[i + 1] /\ i + 1 # 1
    BY <1>1, <1>2
  <2>2. IsInjective(Tail(s))
    BY <1>2, <1>5, <2>1 DEF IsInjective
  <2>3. Head(s) \notin Range(Tail(s))
    BY <1>2, <1>3, <1>5, <2>1 DEF IsInjective, Range
  <2>4. QED
    BY <2>2, <2>3
<1>6. QED
  BY <1>1, <1>4, <1>5

(* PUBLISH appends to the channel and takes nothing from it.               *)
LEMMA AppendedList ==
    ASSUME NEW S, NEW s \in Seq(S), NEW e \in S
    PROVE  Append(s, e) \in Seq(S) /\ Range(Append(s, e)) = Range(s) \cup {e}
<1> DEFINE t == Append(s, e)
<1>1. /\ t \in Seq(S)
      /\ Len(t) = Len(s) + 1
      /\ \A i \in 1..Len(s) : t[i] = s[i]
      /\ t[Len(s) + 1] = e
  BY AppendProperties
<1>2. DOMAIN s = 1..Len(s) /\ DOMAIN t = 1..(Len(s) + 1) /\ Len(s) \in Nat
  BY <1>1, LenProperties
<1>3. Range(t) \subseteq Range(s) \cup {e}
  BY <1>1, <1>2 DEF Range
<1>4. Range(s) \cup {e} \subseteq Range(t)
  BY <1>1, <1>2 DEF Range
<1>5. QED
  BY <1>1, <1>3, <1>4

(* A list cut in two holds what its two parts hold.                        *)
LEMMA SplitList ==
    ASSUME NEW S, NEW s \in Seq(S), NEW n \in 0..Len(s)
    PROVE  /\ SubSeq(s, 1, n) \in Seq(S)
           /\ SubSeq(s, n + 1, Len(s)) \in Seq(S)
           /\ Range(s) = Range(SubSeq(s, 1, n)) \cup Range(SubSeq(s, n + 1, Len(s)))
<1> DEFINE t == SubSeq(s, 1, n)
           u == SubSeq(s, n + 1, Len(s))
<1>1. /\ Len(s) \in Nat /\ n \in Nat /\ n <= Len(s)
      /\ DOMAIN s = 1..Len(s)
      /\ \A i \in 1..Len(s) : s[i] \in S
  BY LenProperties, ElementOfSeq
<1>2. /\ t \in Seq(S) /\ Len(t) = n
      /\ DOMAIN t = 1..n /\ \A i \in 1..n : t[i] = s[i]
  BY <1>1, SMT
<1>3. /\ u \in Seq(S) /\ Len(u) = Len(s) - n
      /\ DOMAIN u = 1..(Len(s) - n) /\ \A i \in 1..(Len(s) - n) : u[i] = s[n + i]
  <2>1. n + 1 \in Int /\ Len(s) \in Int /\ \A i \in (n + 1)..Len(s) : s[i] \in S
    BY <1>1
  <2>2. /\ u \in Seq(S)
        /\ Len(u) = IF n + 1 <= Len(s) THEN Len(s) - (n + 1) + 1 ELSE 0
        /\ \A i \in 1..(Len(s) - (n + 1) + 1) : u[i] = s[(n + 1) + i - 1]
    BY <2>1, SubSeqProperties
  <2> HIDE DEF u
  <2>3. Len(u) = Len(s) - n
    <3>1. \A k \in Nat : n <= k => k - n = IF n + 1 <= k THEN k - (n + 1) + 1 ELSE 0
      BY <1>1
    <3>2. QED
      BY <1>1, <2>2, <3>1, Zenon
  <2>4. ASSUME NEW i \in 1..(Len(s) - n) PROVE u[i] = s[n + i]
    <3>1. i \in 1..(Len(s) - (n + 1) + 1) /\ (n + 1) + i - 1 = n + i
      BY <1>1
    <3>2. u[i] = s[(n + 1) + i - 1]
      BY <2>2, <3>1
    <3>3. QED
      BY <3>1, <3>2, Zenon
  <2>5. QED
    BY <2>2, <2>3, <2>4, LenProperties
<1> HIDE DEF t, u
<1>4. Range(s) \subseteq Range(t) \cup Range(u)
  <2>1. SUFFICES ASSUME NEW i \in 1..Len(s) PROVE s[i] \in Range(t) \cup Range(u)
    BY <1>1 DEF Range
  <2>2. CASE i <= n
    BY <1>1, <1>2, <2>2 DEF Range
  <2>3. CASE i > n
    <3>1. i - n \in 1..(Len(s) - n) /\ u[i - n] = s[i]
      BY <1>1, <1>3, <2>3
    <3>2. QED
      BY <1>3, <3>1 DEF Range
  <2>4. QED
    BY <1>1, <2>2, <2>3
<1>5. Range(t) \subseteq Range(s)
  BY <1>1, <1>2 DEF Range
<1>6. Range(u) \subseteq Range(s)
  <2>1. \A i \in 1..(Len(s) - n) : n + i \in 1..Len(s)
    BY <1>1
  <2>2. QED
    BY <1>1, <1>3, <2>1 DEF Range
<1>7. QED
  BY <1>2, <1>3, <1>4, <1>5, <1>6 DEF t, u

-----------------------------------------------------------------------------
(* Shape                                                                   *)

(* What a working request names is an order, a topic and an entry.         *)
LEMMA CurrentIsEntry ==
    ASSUME Shape, NEW r \in Request, pc[r] \in Working
    PROVE  /\ Current(r) \in Order
           /\ CurrentTopic(r) \in Topic
           /\ CurrentEntry(r) \in Entry
           /\ CurrentEntry(r).req = r
           /\ CurrentEntry(r).pos = pos[r]
           /\ CurrentEntry(r).order = Current(r)
<1>1. pos[r] \in 1..Len(batch[r]) /\ pos[r] \in 1..MaxBatch /\ batch[r] \in Seq(Order)
  BY ConstantsAssumption DEF Shape, TypeOK, PositionsOK
<1>2. Current(r) \in Order
  BY <1>1 DEF Current
<1>3. QED
  BY <1>1, <1>2, ConstantsAssumption DEF CurrentTopic, CurrentEntry, Entry

(* The initial state has the shape.                                        *)
LEMMA ShapeInit == Init => Shape
<1> SUFFICES ASSUME Init PROVE Shape
  OBVIOUS
<1> USE DEF Init
<1>1. TypeOK
  <2>1. /\ 0 \in 0..Expiry
        /\ 1 \in 1..MaxBatch
        /\ <<>> \in Seq(Entry) /\ <<>> \in Seq(Topic) /\ <<>> \in Seq(Order)
    BY ConstantsAssumption, ExpiryAssumption
  <2>2. QED
    BY <2>1 DEF TypeOK, Working, Answered
<1>2. PositionsOK /\ HandlerOK
  BY DEF PositionsOK, HandlerOK, Working
<1>3. QED
  BY <1>1, <1>2 DEF Shape

(* Every step keeps types, positions and what the handler holds.           *)
LEMMA ShapeStep == Shape /\ [Next]_vars => Shape'
<1> SUFFICES ASSUME Shape, [Next]_vars PROVE Shape'
  OBVIOUS
<1> USE ConstantsAssumption, ExpiryAssumption DEF Shape
<1>1. ASSUME NEW r \in Request, NEW o \in Order, SignOrder(r, o)
      PROVE  Shape'
  <2>1. <<o>> \in Seq(Order) /\ Len(<<o>>) = 1
    OBVIOUS
  <2>2. TypeOK'
    BY <1>1, <2>1 DEF SignOrder, Goto, TypeOK, redis, handler, fates, Working, Answered
  <2>3. PositionsOK'
    BY <1>1, <2>1 DEF SignOrder, Goto, TypeOK, PositionsOK, Working
  <2>4. HandlerOK'
    BY <1>1 DEF SignOrder, HandlerOK, handler
  <2>5. QED
    BY <2>2, <2>3, <2>4
<1>2. ASSUME NEW r \in Request, NEW ids \in Batches, OrdersSubmitted(r, ids)
      PROVE  Shape'
  <2>1. ids \in Seq(Order) /\ Len(ids) <= MaxBatch
    OBVIOUS
  <2>2. TypeOK'
    BY <1>2, <2>1 DEF OrdersSubmitted, Goto, TypeOK, redis, handler, fates, Working, Answered
  <2>3. PositionsOK'
    <3>1. ids # <<>> => 1 <= Len(ids)
      BY <2>1, EmptySeq, LenProperties
    <3>2. QED
      BY <1>2, <2>1, <3>1 DEF OrdersSubmitted, Goto, TypeOK, PositionsOK, Working
  <2>4. HandlerOK'
    BY <1>2 DEF OrdersSubmitted, HandlerOK, handler
  <2>5. QED
    BY <2>2, <2>3, <2>4
<1>3. ASSUME NEW r \in Request, StoreOrder(r)
      PROVE  Shape'
  <2>1. Current(r) \in Order /\ CurrentEntry(r) \in Entry
    BY <1>3, CurrentIsEntry DEF StoreOrder, Working
  <2>2. TypeOK'
    BY <1>3, <2>1 DEF StoreOrder, HSet, Ignore, Goto, TypeOK, records, pubsub, handler, fates, Working, Answered
  <2>3. PositionsOK'
    BY <1>3 DEF StoreOrder, Goto, TypeOK, PositionsOK, Working
  <2>4. HandlerOK'
    BY <1>3 DEF StoreOrder, HandlerOK, handler
  <2>5. QED
    BY <2>2, <2>3, <2>4
<1>4. ASSUME NEW r \in Request, SetExpiry(r)
      PROVE  Shape'
  <2>1. stored' = stored /\ ttl' \in [Order -> 0..Expiry]
    <3>1. PICK out \in Outcome :
              IF Executed(out) THEN ExpireKey(Current(r)) ELSE UNCHANGED records
      BY <1>4 DEF SetExpiry
    <3>2. CASE ExpireKey(Current(r))
      <4> DEFINE n == IF Current(r) \in stored THEN Expiry ELSE 0
      <4>1. n \in 0..Expiry
        OBVIOUS
      <4>2. stored' = stored /\ ttl' = [ttl EXCEPT ![Current(r)] = n]
        BY <3>2 DEF ExpireKey
      <4>3. ttl \in [Order -> 0..Expiry]
        BY DEF TypeOK
      <4> HIDE DEF n
      <4>4. QED
        BY <4>1, <4>2, <4>3
    <3>3. CASE UNCHANGED records
      BY <3>3 DEF TypeOK, records
    <3>4. QED
      BY <3>1, <3>2, <3>3
  <2>2. TypeOK'
    <3>1. CurrentEntry(r) \in Entry
      BY <1>4, CurrentIsEntry DEF SetExpiry, Working
    <3>2. QED
      BY <1>4, <2>1, <3>1 DEF SetExpiry, Ignore, Goto, TypeOK, pubsub, handler, fates, Working, Answered
  <2>3. PositionsOK'
    BY <1>4 DEF SetExpiry, Goto, TypeOK, PositionsOK, Working
  <2>4. HandlerOK'
    BY <1>4 DEF SetExpiry, HandlerOK, handler
  <2>5. QED
    BY <2>2, <2>3, <2>4
<1>5. ASSUME NEW r \in Request, LookUpOrder(r)
      PROVE  Shape'
  <2>1. TypeOK'
    BY <1>5 DEF LookUpOrder, Goto, TypeOK, redis, records, pubsub, handler, fates, Working, Answered
  <2>2. PositionsOK'
    BY <1>5 DEF LookUpOrder, Goto, TypeOK, PositionsOK, Working
  <2>3. HandlerOK'
    BY <1>5 DEF LookUpOrder, HandlerOK, handler
  <2>4. QED
    BY <2>1, <2>2, <2>3
<1>6. ASSUME NEW r \in Request, PushOrder(r)
      PROVE  Shape'
  <2>1. CurrentTopic(r) \in Topic /\ CurrentEntry(r) \in Entry
    BY <1>6, CurrentIsEntry DEF PushOrder, Working
  <2>2. stack' \in [Topic -> Seq(Entry)]
    <3>1. <<CurrentEntry(r)>> \o stack[CurrentTopic(r)] \in Seq(Entry)
      BY <2>1, PushedList DEF TypeOK
    <3>2. QED
      BY <1>6, <2>1, <3>1 DEF PushOrder, LPush, TypeOK
  <2>3. TypeOK'
    BY <1>6, <2>1, <2>2 DEF PushOrder, Ignore, Goto, TypeOK, records, pubsub, handler, fates, Working, Answered
  <2>4. PositionsOK'
    BY <1>6 DEF PushOrder, Goto, TypeOK, PositionsOK, Working
  <2>5. HandlerOK'
    BY <1>6 DEF PushOrder, HandlerOK, handler
  <2>6. QED
    BY <2>3, <2>4, <2>5
<1>7. ASSUME NEW r \in Request, PublishOrder(r)
      PROVE  Shape'
  <2>1. CurrentTopic(r) \in Topic
    BY <1>7, CurrentIsEntry DEF PublishOrder, Working
  <2>2. channel' \in Seq(Topic) /\ subscribed' \in BOOLEAN
    <3>1. Append(channel, CurrentTopic(r)) \in Seq(Topic)
      BY <2>1, AppendedList DEF TypeOK
    <3>2. QED
      BY <1>7, <3>1 DEF PublishOrder, Publish, TypeOK, pubsub
  <2>3. /\ pos' \in [Request -> 1..MaxBatch]
        /\ pc' \in [Request -> {"new"} \cup Died \cup Working \cup Answered]
        /\ PositionsOK'
    <3>1. pos[r] \in 1..MaxBatch /\ Len(batch[r]) \in Nat /\ pos[r] <= Len(batch[r]) /\ Len(batch[r]) <= MaxBatch
      BY <1>7 DEF PublishOrder, TypeOK, PositionsOK, Working
    <3>2. batch' = batch
      BY <1>7 DEF PublishOrder
    <3>3. CASE pos[r] < Len(batch[r]) /\ pos' = [pos EXCEPT ![r] = @ + 1] /\ Goto(r, "get")
      BY <1>7, <3>1, <3>2, <3>3 DEF PublishOrder, Goto, TypeOK, PositionsOK, Working, Answered
    <3>4. CASE UNCHANGED pos /\ (Goto(r, "success") \/ Goto(r, "error"))
      BY <1>7, <3>1, <3>2, <3>4 DEF PublishOrder, Goto, TypeOK, PositionsOK, Working, Answered
    <3>5. QED
      BY <1>7, <3>3, <3>4 DEF PublishOrder, NextOrder
  <2>4. TypeOK'
    BY <1>7, <2>1, <2>2, <2>3 DEF PublishOrder, TypeOK, records, handler, fates
  <2>5. HandlerOK'
    BY <1>7 DEF PublishOrder, HandlerOK, handler
  <2>6. QED
    BY <2>3, <2>4, <2>5
<1>8. ASSUME BrokerCrash
      PROVE  Shape'
  <2>1. \A r \in Request : pc[r] = "publish" => CurrentTopic(r) \in Topic
    BY CurrentIsEntry DEF Working
  <2>2. TypeOK'
    BY <1>8, <2>1 DEF BrokerCrash, TypeOK, redis, records, pubsub, handler, fates, Died, Working,
       Answered
  <2>3. PositionsOK'
    BY <1>8 DEF BrokerCrash, TypeOK, PositionsOK, Working
  <2>4. HandlerOK'
    BY <1>8 DEF BrokerCrash, HandlerOK, handler
  <2>5. QED
    BY <2>2, <2>3, <2>4
<1>9. ASSUME Subscribe
      PROVE  Shape'
  BY <1>9 DEF Subscribe, TypeOK, PositionsOK, HandlerOK, records, requests, handler, fates
<1>10. ASSUME HandleNewOrder
       PROVE  Shape'
  <2>1. Head(channel) \in Topic /\ Tail(channel) \in Seq(Topic)
    BY <1>10, PoppedList DEF HandleNewOrder, TypeOK
  <2>2. QED
    BY <1>10, <2>1 DEF HandleNewOrder, TypeOK, PositionsOK, HandlerOK, records, requests, fates
<1>11. ASSUME FetchOrder
       PROVE  Shape'
  BY <1>11 DEF FetchOrder, TypeOK, PositionsOK, HandlerOK, redis, records, pubsub, requests
<1>12. ASSUME SendUpdate
       PROVE  Shape'
  BY <1>12 DEF SendUpdate, TypeOK, PositionsOK, HandlerOK, redis, records, pubsub, requests
<1>13. ASSUME PopOrder
       PROVE  Shape'
  <2>1. wsTopic \in Topic
    BY <1>13 DEF PopOrder, HandlerOK
  <2>2. stack[wsTopic] \in Seq(Entry)
    BY <2>1 DEF TypeOK
  <2>3. stack[wsTopic] # <<>> =>
           Head(stack[wsTopic]) \in Entry /\ Tail(stack[wsTopic]) \in Seq(Entry)
    BY <2>2, PoppedList
  <2>4. /\ stack' \in [Topic -> Seq(Entry)]
        /\ lost' \in SUBSET Entry
    <3>1. lost \in SUBSET Entry /\ stack \in [Topic -> Seq(Entry)]
      BY DEF TypeOK
    <3>2. CASE LPop(wsTopic) /\ stack[wsTopic] # <<>>
               /\ (UNCHANGED lost \/ lost' = lost \cup Popped(wsTopic))
      BY <2>1, <2>3, <3>1, <3>2 DEF LPop, Popped
    <3>3. CASE UNCHANGED <<stack, lost>>
      BY <3>1, <3>3
    <3>4. QED
      BY <1>13, <3>2, <3>3 DEF PopOrder
  <2>5. /\ wsPc' \in {"idle", "fetch"}
        /\ wsPc' = "fetch" => wsEntry' \in Entry /\ wsTopic' \in Topic
        /\ wsTopic' \in Topic \cup {None}
        /\ wsEntry' \in Entry \cup {None}
        /\ missed' \in SUBSET Topic
    BY <1>13, <2>1, <2>3 DEF PopOrder, TypeOK
  <2>6. TypeOK' /\ HandlerOK'
    BY <1>13, <2>4, <2>5 DEF PopOrder, TypeOK, HandlerOK, records, pubsub, requests
  <2>7. PositionsOK'
    BY <1>13 DEF PopOrder, PositionsOK, requests
  <2>8. QED
    BY <2>6, <2>7
<1>14. ASSUME WsCrash
       PROVE  Shape'
  <2>1. InHand \subseteq Entry
    BY DEF InHand, HandlerOK
  <2>2. Awaited \cup Draining \subseteq Topic
    BY DEF Awaited, Draining, Range, TypeOK, HandlerOK
  <2>3. PositionsOK' /\ HandlerOK'
    BY <1>14 DEF WsCrash, PositionsOK, HandlerOK, requests
  <2>4. TypeOK'
    <3>1. channel' \in Seq(Topic)
      BY <1>14 DEF WsCrash
    <3>2. lost' \in SUBSET Entry /\ missed' \in SUBSET Topic
      BY <1>14, <2>1, <2>2 DEF WsCrash, TypeOK
    <3>3. QED
      BY <1>14, <3>1, <3>2 DEF WsCrash, TypeOK, records, requests
  <2>5. QED
    BY <2>3, <2>4
<1>15. ASSUME ClockTick
       PROVE  Shape'
  <2>1. stored' \in SUBSET Order /\ ttl' \in [Order -> 0..Expiry]
    BY <1>15 DEF ClockTick, Tick, TypeOK
  <2>2. QED
    BY <1>15, <2>1 DEF ClockTick, Tick, TypeOK, PositionsOK, HandlerOK, requests, handler, fates
<1>16. ASSUME LoseConnection
       PROVE  Shape'
  <2>1. channel' \in Seq(Topic) /\ missed' \in SUBSET Topic
    <3>1. PICK n \in 0..Len(channel) :
            /\ channel' = SubSeq(channel, 1, n)
            /\ missed' = missed \cup Range(SubSeq(channel, n + 1, Len(channel)))
      BY <1>16 DEF LoseConnection
    <3>2. Range(channel) \subseteq Topic
      BY DEF TypeOK, Range
    <3>3. QED
      BY <3>1, <3>2, SplitList DEF TypeOK
  <2>2. QED
    BY <1>16, <2>1 DEF LoseConnection, TypeOK, PositionsOK, HandlerOK, records, requests, handler,
                       fates
<1>17. ASSUME UNCHANGED vars
       PROVE  Shape'
  BY <1>17 DEF vars, redis, records, pubsub, requests, handler, fates, TypeOK, PositionsOK, HandlerOK
<1>18. QED
  BY <1>1, <1>2, <1>3, <1>4, <1>5, <1>6, <1>7, <1>8, <1>9, <1>10, <1>11, <1>12,
     <1>13, <1>14, <1>15, <1>16, <1>17 DEF Next, Serve, Drain

(* Type correctness: every variable keeps its type; in particular every    *)
(* goroutine works at an index within its batch and the handler's topic    *)
(* and id are real ones.                                                   *)
THEOREM TypeCorrect == Spec => []TypeOK
<1>1. Shape => TypeOK
  BY DEF Shape
<1>2. QED
  BY <1>1, ShapeInit, ShapeStep, PTL DEF Spec

-----------------------------------------------------------------------------
(* Which orders reach the stacks                                           *)

(* At the start nothing is stored and nothing pushed.                      *)
LEMMA KnownInit == Init => KnownOK
  BY DEF Init, KnownOK

(* An order that is stored was signed, and stays known after its record    *)
(* expired.                                                                *)
LEMMA KnownStep == Shape /\ KnownOK /\ [Next]_vars => KnownOK'
<1> SUFFICES ASSUME Shape, KnownOK, [Next]_vars PROVE KnownOK'
  OBVIOUS
<1> DEFINE OthersKeep(r) ==
      \A q \in Request \ {r} : pc'[q] = pc[q] /\ Current(q)' = Current(q)
<1>1. ASSUME NEW r \in Request, NEW o \in Order, SignOrder(r, o)
      PROVE  KnownOK'
  <2>1. Current(r)' = o /\ (pc'[r] = "hset" => o \in Signable) /\ pc'[r] \in {"hset", "error"}
    BY <1>1 DEF SignOrder, Goto, Current, Shape, TypeOK, PositionsOK
  <2>2. OthersKeep(r)
    BY <1>1 DEF SignOrder, Goto, Current, Shape, TypeOK
  <2>3. QED
    BY <1>1, <2>1, <2>2 DEF SignOrder, KnownOK, redis, records
<1>2. ASSUME NEW r \in Request, NEW ids \in Batches, OrdersSubmitted(r, ids)
      PROVE  KnownOK'
  <2>1. OthersKeep(r) /\ pc'[r] \in {"error", "get"}
    BY <1>2 DEF OrdersSubmitted, Goto, Current, Shape, TypeOK
  <2>2. QED
    BY <1>2, <2>1 DEF OrdersSubmitted, KnownOK, redis, records
<1>3. ASSUME NEW r \in Request, StoreOrder(r)
      PROVE  KnownOK'
  <2>1. /\ OthersKeep(r)
        /\ pc'[r] \in {"expire", "signed"}
        /\ Current(r)' = Current(r)
        /\ Current(r) \in Signable
    BY <1>3 DEF StoreOrder, Goto, Current, Shape, TypeOK, KnownOK
  <2>2. \/ UNCHANGED <<stored, known>>
        \/ stored' = stored \cup {Current(r)} /\ known' = known \cup {Current(r)}
    BY <1>3 DEF StoreOrder, HSet, records
  <2>3. pushed' = pushed
    BY <1>3 DEF StoreOrder
  <2>4. QED
    BY <2>1, <2>2, <2>3 DEF KnownOK
<1>4. ASSUME NEW r \in Request, SetExpiry(r)
      PROVE  KnownOK'
  <2>1. OthersKeep(r) /\ pc'[r] = "signed"
    BY <1>4 DEF SetExpiry, Goto, Current, Shape, TypeOK
  <2>2. UNCHANGED <<stored, known, pushed>>
    BY <1>4 DEF SetExpiry, ExpireKey, records
  <2>3. QED
    BY <2>1, <2>2 DEF KnownOK
<1>5. ASSUME NEW r \in Request, LookUpOrder(r)
      PROVE  KnownOK'
  <2>1. /\ OthersKeep(r)
        /\ Current(r)' = Current(r)
        /\ pc'[r] = "error" \/ (pc'[r] = "push" /\ Current(r) \in known)
    <3>1. /\ UNCHANGED <<batch, pos>>
          /\ \/ Current(r) \in stored /\ Goto(r, "push")
             \/ Goto(r, "error")
      BY <1>5 DEF LookUpOrder
    <3>2. /\ \A q \in Request \ {r} : pc'[q] = pc[q]
          /\ pc'[r] = "error" \/ (pc'[r] = "push" /\ Current(r) \in known)
      BY <3>1 DEF Goto, Shape, TypeOK, KnownOK
    <3>3. QED
      BY <3>1, <3>2 DEF Current
  <2>2. UNCHANGED <<stored, known, pushed>>
    BY <1>5 DEF LookUpOrder, redis, records
  <2>3. QED
    BY <2>1, <2>2 DEF KnownOK
<1>6. ASSUME NEW r \in Request, PushOrder(r)
      PROVE  KnownOK'
  <2>1. OthersKeep(r) /\ pc'[r] = "publish"
    BY <1>6 DEF PushOrder, Goto, Current, Shape, TypeOK
  <2>2. CurrentEntry(r).order \in known
    BY <1>6, CurrentIsEntry DEF PushOrder, KnownOK, Working
  <2>3. /\ UNCHANGED <<stored, known>>
        /\ pushed' = pushed \/ pushed' = pushed \cup {CurrentEntry(r)}
    BY <1>6 DEF PushOrder, records
  <2>4. QED
    BY <2>1, <2>2, <2>3 DEF KnownOK
<1>7. ASSUME NEW r \in Request, PublishOrder(r)
      PROVE  KnownOK'
  <2>1. OthersKeep(r) /\ pc'[r] \in {"get", "success", "error"}
    <3>1. /\ batch' = batch
          /\ \A q \in Request \ {r} : pos'[q] = pos[q] /\ pc'[q] = pc[q]
          /\ pc'[r] \in {"get", "success", "error"}
      <4>1. batch' = batch /\ (NextOrder(r) \/ (UNCHANGED pos /\ Goto(r, "error")))
        BY <1>7 DEF PublishOrder
      <4>2. QED
        BY <4>1 DEF NextOrder, Goto, Shape, TypeOK
    <3>2. QED
      BY <3>1 DEF Current
  <2>2. UNCHANGED <<stored, known, pushed>>
    BY <1>7 DEF PublishOrder, records
  <2>3. QED
    BY <2>1, <2>2 DEF KnownOK
<1>8. ASSUME BrokerCrash
      PROVE  KnownOK'
  <2>1. \A r \in Request : pc'[r] \in {pc[r]} \cup Died /\ Current(r)' = Current(r)
    BY <1>8 DEF BrokerCrash, Current, Died
  <2>2. QED
    BY <1>8, <2>1 DEF BrokerCrash, KnownOK, redis, records, Died
<1>9. ASSUME Subscribe \/ Drain \/ SendUpdate \/ WsCrash \/ LoseConnection \/ UNCHANGED vars
      PROVE  KnownOK'
  <2>1. UNCHANGED <<stored, known, pushed, pc, batch, pos>>
    BY <1>9 DEF Subscribe, Drain, HandleNewOrder, PopOrder, FetchOrder, SendUpdate,
                WsCrash, LoseConnection, vars, redis, records, requests
  <2>2. QED
    BY <2>1 DEF KnownOK, Current
<1>10. ASSUME ClockTick
       PROVE  KnownOK'
  <2>1. stored' \subseteq stored /\ UNCHANGED <<known, pushed, pc, batch, pos>>
    BY <1>10 DEF ClockTick, Tick, requests
  <2>2. QED
    BY <2>1 DEF KnownOK, Current
<1>11. QED
  BY <1>1, <1>2, <1>3, <1>4, <1>5, <1>6, <1>7, <1>8, <1>9, <1>10 DEF Next, Serve

(* Only orders that the broker signed and stored reach the executors,      *)
(* whatever ids clients submit and whatever fails: the HGETALL that        *)
(* OrderSubmission does before it pushes is enough, although the hash may  *)
(* expire between the two.                                                 *)
THEOREM SignedOnly == Spec => []OnlySignedOrders
<1>1. Init => Shape /\ KnownOK
  BY ShapeInit, KnownInit
<1>2. Shape /\ KnownOK /\ [Next]_vars => (Shape /\ KnownOK)'
  BY ShapeStep, KnownStep
<1>3. KnownOK => OnlySignedOrders
  BY DEF KnownOK, OnlySignedOrders
<1>4. QED
  BY <1>1, <1>2, <1>3, PTL DEF Spec

-----------------------------------------------------------------------------
(* Every submission is pushed at most once                                 *)

(* At the start no entry is in any history.                                *)
LEMMA UnpushedInit == Init => Unpushed
  BY DEF Init, Unpushed

(* A request is never behind an entry of its own that was pushed.          *)
LEMMA UnpushedStep == Shape /\ Unpushed /\ [Next]_vars => Unpushed'
<1> SUFFICES ASSUME Shape, Unpushed, [Next]_vars PROVE Unpushed'
  OBVIOUS
<1> DEFINE Closed == {"publish", "success", "error"} \cup Died
<1>0. /\ pc \in [Request -> {"new"} \cup Died \cup Working \cup Answered]
      /\ pos \in [Request -> Nat]
      /\ \A e \in pushed : e.req \in Request /\ e.pos \in Nat
  BY ConstantsAssumption DEF Shape, TypeOK, Entry
<1>1. ASSUME UNCHANGED <<pushed, pos>>,
             \A r \in Request : pc[r] \in Closed => pc'[r] \in Closed
      PROVE  Unpushed'
  BY <1>0, <1>1 DEF Unpushed
<1>2. ASSUME NEW r \in Request,
             \/ \E o \in Order : SignOrder(r, o)
             \/ \E ids \in Batches : OrdersSubmitted(r, ids)
             \/ StoreOrder(r) \/ SetExpiry(r) \/ LookUpOrder(r)
      PROVE  Unpushed'
  <2>1. UNCHANGED <<pushed, pos>> /\ \A q \in Request : pc[q] \in Closed => pc'[q] = pc[q]
    BY <1>0, <1>2 DEF SignOrder, OrdersSubmitted, StoreOrder, SetExpiry, LookUpOrder, Goto, Died
  <2>2. QED
    BY <1>1, <2>1
<1>3. ASSUME NEW r \in Request, PushOrder(r)
      PROVE  Unpushed'
  <2>1. /\ pos' = pos
        /\ pc[r] = "push" /\ pc'[r] = "publish"
        /\ \A q \in Request \ {r} : pc'[q] = pc[q]
    BY <1>0, <1>3 DEF PushOrder, Goto
  <2>2. CurrentEntry(r).req = r /\ CurrentEntry(r).pos = pos[r]
    BY <2>1, CurrentIsEntry DEF Working
  <2>3. pushed' = pushed \/ pushed' = pushed \cup {CurrentEntry(r)}
    BY <1>3 DEF PushOrder
  <2>4. QED
    BY <1>0, <2>1, <2>2, <2>3 DEF Unpushed
<1>4. ASSUME NEW r \in Request, PublishOrder(r)
      PROVE  Unpushed'
  <2>1. pushed' = pushed
    BY <1>4 DEF PublishOrder
  <2>2. /\ \A q \in Request \ {r} : pos'[q] = pos[q] /\ pc'[q] = pc[q]
        /\ \/ pos'[r] = pos[r] + 1
           \/ pos'[r] = pos[r] /\ pc'[r] \in {"success", "error"}
    BY <1>0, <1>4 DEF PublishOrder, NextOrder, Goto
  <2>3. QED
    BY <1>0, <2>1, <2>2 DEF Unpushed
<1>5. ASSUME BrokerCrash
      PROVE  Unpushed'
  BY <1>0, <1>1, <1>5 DEF BrokerCrash, Died, Working
<1>6. ASSUME Subscribe \/ Drain \/ SendUpdate \/ WsCrash \/ LoseConnection \/ ClockTick \/ UNCHANGED vars
      PROVE  Unpushed'
  <2>1. UNCHANGED <<pushed, pos, pc>>
    BY <1>6 DEF Subscribe, Drain, HandleNewOrder, PopOrder, FetchOrder, SendUpdate,
                WsCrash, LoseConnection, ClockTick, vars, requests
  <2>2. QED
    BY <1>1, <2>1
<1>7. QED
  BY <1>2, <1>3, <1>4, <1>5, <1>6 DEF Next, Serve

-----------------------------------------------------------------------------
(* Every pushed entry is in exactly one place                              *)

(* The steps by which an entry changes place, seen from the places.        *)
Settle(e) ==
    \/ sent' = sent \cup {e} /\ UNCHANGED <<expired, lost>>
    \/ expired' = expired \cup {e} /\ UNCHANGED <<sent, lost>>
    \/ lost' = lost \cup {e} /\ UNCHANGED <<sent, expired>>

StackOK(t) ==
    /\ IsInjective(stack[t])
    /\ \A e \in Range(stack[t]) : TopicOf[e.order] = t

(* At the start there are no entries.                                      *)
LEMMA ConservationInit == Init => Conservation
<1> SUFFICES ASSUME Init PROVE Conservation
  OBVIOUS
<1>1. \A t \in Topic : stack[t] = <<>>
  BY DEF Init
<1>2. Range(<<>>) = {} /\ IsInjective(<<>>)
  BY DEF Range, IsInjective
<1>3. Queued = {}
  BY <1>1, <1>2 DEF Queued
<1>4. InHand = {} /\ Settled = {} /\ pushed = {} /\ sent = {} /\ expired = {} /\ lost = {}
  BY DEF Init, InHand, Settled
<1>5. QED
  BY <1>1, <1>2, <1>3, <1>4 DEF Conservation

(* Nothing moves.                                                          *)
LEMMA NothingMoves ==
    ASSUME Conservation, UNCHANGED <<stack, pushed, sent, expired, lost>>, InHand' = InHand
    PROVE  Conservation'
  BY DEF Conservation, Queued, Settled

(* The entry in hand is settled.                                           *)
LEMMA HandSettled ==
    ASSUME Conservation, NEW e, InHand = {e}, InHand' = {}, Settle(e),
           UNCHANGED <<stack, pushed>>
    PROVE  Conservation'
<1>1. Settled' = Settled \cup {e} /\ Queued' = Queued
  BY DEF Settle, Settled, Queued
<1>2. e \notin sent /\ e \notin expired /\ e \notin lost /\ e \notin Queued
  BY DEF Conservation, Settled
<1>3. /\ (sent \cap (expired \cup lost) = {})'
      /\ (expired \cap lost = {})'
  BY <1>2 DEF Settle, Conservation
<1>4. QED
  BY <1>1, <1>2, <1>3 DEF Conservation

(* The head of a stack leaves it.                                          *)
LEMMA HeadLeaves ==
    ASSUME Shape, Conservation, NEW t \in Topic, stack[t] # <<>>, LPop(t)
    PROVE  /\ Head(stack[t]) \in Queued
           /\ Head(stack[t]) \notin Queued'
           /\ Queued = Queued' \cup {Head(stack[t])}
           /\ \A u \in Topic : StackOK(u)'
<1> DEFINE h == Head(stack[t])
<1>0. stack \in [Topic -> Seq(Entry)] /\ stack' = [stack EXCEPT ![t] = Tail(@)]
  BY DEF Shape, TypeOK, LPop
<1>1. /\ Range(stack[t]) = {h} \cup Range(Tail(stack[t]))
      /\ IsInjective(Tail(stack[t]))
      /\ h \notin Range(Tail(stack[t]))
  BY <1>0, PoppedList DEF Conservation
<1>2. stack'[t] = Tail(stack[t]) /\ \A u \in Topic \ {t} : stack'[u] = stack[u]
  BY <1>0
<1>3. TopicOf[h.order] = t
  BY <1>1 DEF Conservation
<1>4. \A u \in Topic \ {t} : h \notin Range(stack[u])
  BY <1>3 DEF Conservation
<1>5. h \in Queued /\ h \notin Queued' /\ Queued = Queued' \cup {h}
  BY <1>1, <1>2, <1>4 DEF Queued
<1>6. \A u \in Topic : StackOK(u)'
  BY <1>1, <1>2 DEF StackOK, Conservation
<1>7. QED
  BY <1>5, <1>6

(* Every step leaves an entry where it is, or moves it to one other        *)
(* place.                                                                  *)
LEMMA ConservationStep ==
    Shape /\ Unpushed /\ Conservation /\ [Next]_vars => Conservation'
<1> SUFFICES ASSUME Shape, Unpushed, Conservation, [Next]_vars PROVE Conservation'
  OBVIOUS
<1>1. ASSUME NEW r \in Request,
             \/ \E o \in Order : SignOrder(r, o)
             \/ \E ids \in Batches : OrdersSubmitted(r, ids)
             \/ StoreOrder(r) \/ SetExpiry(r) \/ LookUpOrder(r) \/ PublishOrder(r)
      PROVE  Conservation'
  <2>1. UNCHANGED <<stack, pushed, sent, expired, lost, wsPc, wsEntry>>
    BY <1>1 DEF SignOrder, OrdersSubmitted, StoreOrder, SetExpiry, LookUpOrder,
                PublishOrder, redis, handler, fates
  <2>2. QED
    BY <2>1, NothingMoves DEF InHand
<1>2. ASSUME \/ BrokerCrash \/ Subscribe \/ HandleNewOrder \/ LoseConnection
             \/ ClockTick \/ UNCHANGED vars
      PROVE  Conservation'
  <2>1. UNCHANGED <<stack, pushed, sent, expired, lost>> /\ InHand' = InHand
    BY <1>2 DEF BrokerCrash, Subscribe, HandleNewOrder, LoseConnection, ClockTick, Tick, vars,
                redis, handler, fates, InHand
  <2>2. QED
    BY <2>1, NothingMoves
<1>3. ASSUME NEW r \in Request, PushOrder(r)
      PROVE  Conservation'
  <2>0. UNCHANGED <<sent, expired, lost, wsPc, wsEntry>>
    BY <1>3 DEF PushOrder, handler, fates
  <2>1. CASE UNCHANGED <<stack, pushed>>
    BY <2>0, <2>1, NothingMoves DEF InHand
  <2>2. CASE LPush(CurrentTopic(r), CurrentEntry(r)) /\ pushed' = pushed \cup {CurrentEntry(r)}
    <3> DEFINE e == CurrentEntry(r)
               t == CurrentTopic(r)
    <3>1. /\ t \in Topic /\ e \in Entry /\ e.req = r /\ e.pos = pos[r]
          /\ TopicOf[e.order] = t
      BY <1>3, CurrentIsEntry DEF PushOrder, Working, CurrentTopic
    <3>2. e \notin pushed
      <4>1. pc[r] = "push" /\ pos[r] \in Nat
        BY <1>3, ConstantsAssumption DEF PushOrder, Shape, TypeOK
      <4> HIDE DEF e
      <4>2. QED
        BY <3>1, <4>1 DEF Unpushed, Died
    <3>3. e \notin Queued /\ e \notin InHand /\ e \notin Settled
      BY <3>2 DEF Conservation
    <3>4. stack \in [Topic -> Seq(Entry)] /\ stack' = [stack EXCEPT ![t] = <<e>> \o @]
      BY <2>2 DEF Shape, TypeOK, LPush
    <3> HIDE DEF e, t
    <3>5. stack'[t] = <<e>> \o stack[t] /\ \A u \in Topic \ {t} : stack'[u] = stack[u]
      BY <3>1, <3>4
    <3>6. e \notin Range(stack[t])
      BY <3>1, <3>3 DEF Queued
    <3>7. Range(stack'[t]) = {e} \cup Range(stack[t]) /\ IsInjective(stack'[t])
      BY <3>1, <3>4, <3>5, <3>6, PushedList DEF Conservation
    <3>8. Queued' = Queued \cup {e}
      <4>1. \A u \in Topic : \A x : x \in Range(stack'[u]) <=>
               x \in Range(stack[u]) \/ (u = t /\ x = e)
        BY <3>5, <3>7
      <4>2. \A x : x \in Queued' <=> x \in Queued \/ x = e
        BY <3>1, <4>1 DEF Queued
      <4>3. QED
        BY <4>2
    <3>9. \A u \in Topic : StackOK(u)'
      BY <3>1, <3>5, <3>7 DEF StackOK, Conservation
    <3>10. InHand' = InHand /\ Settled' = Settled
      BY <2>0 DEF InHand, Settled
    <3>11. pushed' = pushed \cup {e}
      BY <2>2 DEF e
    <3>12. QED
      BY <2>0, <3>3, <3>8, <3>9, <3>10, <3>11 DEF Conservation, StackOK
  <2>3. QED
    BY <1>3, <2>1, <2>2 DEF PushOrder
<1>4. ASSUME PopOrder
      PROVE  Conservation'
  <2> DEFINE h == Head(stack[wsTopic])
  <2>1. wsTopic \in Topic /\ wsPc = "pop" /\ InHand = {}
    BY <1>4 DEF PopOrder, Shape, HandlerOK, InHand
  <2>2. UNCHANGED <<pushed, sent, expired>>
    BY <1>4 DEF PopOrder
  <2>3. CASE UNCHANGED <<stack, lost>> /\ wsPc' = "idle"
    BY <2>1, <2>2, <2>3, NothingMoves DEF InHand
  <2>4. CASE stack[wsTopic] # <<>> /\ LPop(wsTopic) /\ wsEntry' = h /\ wsPc' = "fetch"
             /\ lost' = lost
    <3>1. InHand' = {h} /\ Settled' = Settled
      BY <2>2, <2>4 DEF InHand, Settled
    <3>2. /\ h \in Queued /\ h \notin Queued' /\ Queued = Queued' \cup {h}
          /\ \A u \in Topic : StackOK(u)'
      BY <2>1, <2>4, HeadLeaves
    <3> HIDE DEF h
    <3>3. h \notin Settled
      BY <3>2 DEF Conservation
    <3>4. /\ (pushed = Queued \cup InHand \cup Settled)'
          /\ (Queued \cap (InHand \cup Settled) = {})'
          /\ (InHand \cap Settled = {})'
      BY <2>1, <2>2, <3>1, <3>2, <3>3 DEF Conservation
    <3>5. QED
      BY <2>2, <2>4, <3>2, <3>4 DEF Conservation, StackOK
  <2>5. CASE stack[wsTopic] # <<>> /\ LPop(wsTopic) /\ wsPc' = "idle"
             /\ lost' = lost \cup Popped(wsTopic)
    <3>1. InHand' = {} /\ lost' = lost \cup {h} /\ Settled' = Settled \cup {h}
      BY <2>2, <2>5 DEF InHand, Settled, Popped
    <3>2. /\ h \in Queued /\ h \notin Queued' /\ Queued = Queued' \cup {h}
          /\ \A u \in Topic : StackOK(u)'
      BY <2>1, <2>5, HeadLeaves
    <3> HIDE DEF h
    <3>3. h \notin sent \cup expired
      BY <3>2 DEF Conservation, Settled
    <3>4. /\ (pushed = Queued \cup InHand \cup Settled)'
          /\ (Queued \cap (InHand \cup Settled) = {})'
          /\ (InHand \cap Settled = {})'
      BY <2>1, <2>2, <3>1, <3>2 DEF Conservation
    <3>5. /\ (sent \cap (expired \cup lost) = {})'
          /\ (expired \cap lost = {})'
      BY <2>2, <3>1, <3>3 DEF Conservation
    <3>6. QED
      BY <3>2, <3>4, <3>5 DEF Conservation, StackOK
  <2>6. QED
    BY <1>4, <2>3, <2>4, <2>5 DEF PopOrder
<1>5. ASSUME FetchOrder
      PROVE  Conservation'
  <2>1. InHand = {wsEntry} /\ UNCHANGED <<stack, pushed, sent>>
    BY <1>5 DEF FetchOrder, InHand, redis
  <2>2. CASE wsPc' = "send" /\ UNCHANGED <<wsEntry, expired, lost>>
    BY <2>1, <2>2, NothingMoves DEF InHand
  <2>3. CASE wsPc' = "pop" /\ Settle(wsEntry)
    BY <2>1, <2>3, HandSettled DEF InHand
  <2>4. QED
    BY <1>5, <2>1, <2>2, <2>3 DEF FetchOrder, Settle
<1>6. ASSUME SendUpdate
      PROVE  Conservation'
  BY <1>6, HandSettled DEF SendUpdate, InHand, Settle, redis
<1>7. ASSUME WsCrash
      PROVE  Conservation'
  <2>1. InHand' = {} /\ lost' = lost \cup InHand /\ UNCHANGED <<stack, pushed, sent, expired>>
    BY <1>7 DEF WsCrash, InHand
  <2>2. CASE InHand = {}
    BY <2>1, <2>2, NothingMoves
  <2>3. CASE InHand = {wsEntry}
    BY <2>1, <2>3, HandSettled DEF Settle
  <2>4. QED
    BY <2>2, <2>3 DEF InHand
<1>8. QED
  BY <1>1, <1>2, <1>3, <1>4, <1>5, <1>6, <1>7 DEF Next, Serve, Drain

(* No submission is duplicated and none vanishes: however requests, the    *)
(* handler, the clock, errors and crashes interleave, every entry ever     *)
(* pushed is in exactly one place.  The strengthening is Unpushed: the     *)
(* entry a request is about to push is new.                                *)
THEOREM Conserved == Spec => []Conservation
<1>1. Init => Shape /\ Unpushed /\ Conservation
  BY ShapeInit, UnpushedInit, ConservationInit
<1>2. Shape /\ Unpushed /\ Conservation /\ [Next]_vars => (Shape /\ Unpushed /\ Conservation)'
  BY ShapeStep, UnpushedStep, ConservationStep
<1>3. QED
  BY <1>1, <1>2, PTL DEF Spec

-----------------------------------------------------------------------------
(* No lost wake-up                                                         *)

Covered(t) ==
    \/ t \in Awaited \cup Draining \cup missed
    \/ \E r \in Request : pc[r] = "publish" /\ CurrentTopic(r) = t

(* At the start no stack holds an id.                                      *)
LEMMA WakeupInit == Init => NoLostWakeup
  BY DEF Init, NoLostWakeup

(* Enough for a step: stacks only become non-empty when covered, and a     *)
(* covered non-empty stack stays covered.                                  *)
LEMMA CoverageKept ==
    ASSUME NoLostWakeup,
           \A t \in Topic : stack'[t] # <<>> =>
              (stack[t] # <<>> /\ (Covered(t) => Covered(t)')) \/ Covered(t)'
    PROVE  NoLostWakeup'
  BY DEF NoLostWakeup, Covered

(* Whoever takes a wake-up away leaves an empty stack, another wake-up,    *)
(* or a topic marked as missed.                                            *)
LEMMA WakeupStep == Shape /\ NoLostWakeup /\ [Next]_vars => NoLostWakeup'
<1> SUFFICES ASSUME Shape, NoLostWakeup, [Next]_vars PROVE NoLostWakeup'
  OBVIOUS
<1> DEFINE OthersKeep(r) ==
      \A q \in Request \ {r} : pc'[q] = pc[q] /\ CurrentTopic(q)' = CurrentTopic(q)
<1>0. /\ pc \in [Request -> {"new"} \cup Died \cup Working \cup Answered]
      /\ batch \in [Request -> Seq(Order)]
      /\ pos \in [Request -> 1..MaxBatch]
      /\ stack \in [Topic -> Seq(Entry)]
      /\ channel \in Seq(Topic)
  BY DEF Shape, TypeOK
<1>1. ASSUME NEW r \in Request,
             \/ \E o \in Order : SignOrder(r, o)
             \/ \E ids \in Batches : OrdersSubmitted(r, ids)
             \/ StoreOrder(r) \/ SetExpiry(r) \/ LookUpOrder(r)
      PROVE  NoLostWakeup'
  <2>1. pc[r] # "publish" /\ \A q \in Request \ {r} : pc'[q] = pc[q]
    BY <1>0, <1>1 DEF SignOrder, OrdersSubmitted, StoreOrder, SetExpiry, LookUpOrder, Goto
  <2>2. pos' = pos /\ \A q \in Request \ {r} : batch'[q] = batch[q]
    BY <1>0, <1>1 DEF SignOrder, OrdersSubmitted, StoreOrder, SetExpiry, LookUpOrder
  <2>3. UNCHANGED <<stack, channel, wsPc, wsTopic, missed>>
    BY <1>1 DEF SignOrder, OrdersSubmitted, StoreOrder, SetExpiry, LookUpOrder, redis, pubsub,
                handler
  <2>4. OthersKeep(r) /\ Awaited' = Awaited /\ Draining' = Draining
    BY <2>1, <2>2, <2>3 DEF CurrentTopic, Current, Awaited, Draining
  <2>5. \A t \in Topic : Covered(t) => Covered(t)'
    BY <2>1, <2>3, <2>4 DEF Covered
  <2>6. QED
    BY <2>3, <2>5, CoverageKept
<1>2. ASSUME NEW r \in Request, PushOrder(r)
      PROVE  NoLostWakeup'
  <2>1. /\ pc[r] = "push" /\ pc'[r] = "publish"
        /\ \A q \in Request \ {r} : pc'[q] = pc[q]
    BY <1>0, <1>2 DEF PushOrder, Goto
  <2>2. UNCHANGED <<batch, pos, channel, wsPc, wsTopic, missed>>
    BY <1>2 DEF PushOrder, pubsub, handler
  <2>3. /\ \A q \in Request : CurrentTopic(q)' = CurrentTopic(q)
        /\ Awaited' = Awaited /\ Draining' = Draining
    BY <2>2 DEF CurrentTopic, Current, Awaited, Draining
  <2>4. \A t \in Topic \ {CurrentTopic(r)} : stack'[t] = stack[t]
    BY <1>0, <1>2 DEF PushOrder, LPush
  <2>5. \A t \in Topic : t = CurrentTopic(r) => Covered(t)'
    BY <2>1, <2>3 DEF Covered
  <2>6. \A t \in Topic : Covered(t) => Covered(t)'
    BY <2>1, <2>2, <2>3 DEF Covered
  <2>7. QED
    BY <2>4, <2>5, <2>6, CoverageKept
<1>3. ASSUME NEW r \in Request, PublishOrder(r)
      PROVE  NoLostWakeup'
  <2>1. UNCHANGED <<stack, batch, wsPc, wsTopic>>
    BY <1>3 DEF PublishOrder, handler
  <2>2. \A q \in Request \ {r} : pc'[q] = pc[q] /\ pos'[q] = pos[q]
    <3>1. NextOrder(r) \/ (UNCHANGED pos /\ Goto(r, "error"))
      BY <1>3 DEF PublishOrder
    <3>2. QED
      BY <1>0, <3>1 DEF NextOrder, Goto
  <2>3. OthersKeep(r) /\ Draining' = Draining
    BY <2>1, <2>2 DEF CurrentTopic, Current, Draining
  <2>4. CurrentTopic(r) \in Topic
    BY <1>3, CurrentIsEntry DEF PublishOrder, Working
  <2>5. /\ Awaited \subseteq Awaited'
        /\ missed \subseteq missed'
        /\ CurrentTopic(r) \in Awaited' \cup missed'
    <3>1. Range(Append(channel, CurrentTopic(r))) = Range(channel) \cup {CurrentTopic(r)}
      BY <1>0, <2>4, AppendedList
    <3>2. PICK out \in Outcome :
            /\ IF Executed(out) THEN Publish(CurrentTopic(r)) ELSE UNCHANGED pubsub
            /\ missed' = IF Executed(out) /\ subscribed
                            THEN missed ELSE missed \cup {CurrentTopic(r)}
      BY <1>3 DEF PublishOrder
    <3>3. QED
      BY <3>1, <3>2 DEF Publish, pubsub, Awaited
  <2>6. \A t \in Topic : Covered(t) => Covered(t)'
    BY <2>2, <2>3, <2>5 DEF Covered
  <2>7. QED
    BY <2>1, <2>6, CoverageKept
<1>4. ASSUME BrokerCrash
      PROVE  NoLostWakeup'
  <2>1. /\ UNCHANGED <<stack, channel, wsPc, wsTopic, batch, pos>>
        /\ missed' = missed \cup
              {CurrentTopic(r) : r \in {q \in Request : pc[q] = "publish"}}
    BY <1>4 DEF BrokerCrash, redis, pubsub, handler
  <2>2. Awaited' = Awaited /\ Draining' = Draining
    BY <2>1 DEF Awaited, Draining
  <2>3. \A t \in Topic : Covered(t) => Covered(t)'
    BY <2>1, <2>2 DEF Covered
  <2>4. QED
    BY <2>1, <2>3, CoverageKept
<1>5. ASSUME UNCHANGED requests,
             Awaited \cup Draining \cup missed \subseteq (Awaited \cup Draining \cup missed)',
             \A t \in Topic : stack'[t] # <<>> => stack[t] # <<>>
      PROVE  NoLostWakeup'
  <2>1. pc' = pc /\ \A q \in Request : CurrentTopic(q)' = CurrentTopic(q)
    BY <1>5 DEF requests, CurrentTopic, Current
  <2>2. \A t \in Topic : Covered(t) => Covered(t)'
    BY <1>5, <2>1 DEF Covered
  <2>3. QED
    BY <1>5, <2>2, CoverageKept
<1>6. ASSUME HandleNewOrder
      PROVE  NoLostWakeup'
  <2>1. Range(channel) = {Head(channel)} \cup Range(Tail(channel))
    BY <1>0, <1>6, PoppedList DEF HandleNewOrder
  <2>2. Awaited \subseteq Awaited' \cup Draining' /\ Draining = {}
    BY <1>6, <2>1 DEF HandleNewOrder, Awaited, Draining
  <2>3. QED
    BY <1>5, <1>6, <2>2 DEF HandleNewOrder
<1>7. ASSUME PopOrder
      PROVE  NoLostWakeup'
  <2>1. /\ wsTopic \in Topic /\ wsPc = "pop" /\ Draining = {wsTopic}
        /\ UNCHANGED requests /\ Awaited' = Awaited
    BY <1>7 DEF PopOrder, Shape, HandlerOK, Draining, Awaited, pubsub
  <2>2. \A t \in Topic \ {wsTopic} : stack'[t] = stack[t]
    BY <1>0, <1>7 DEF PopOrder, LPop
  <2>3. CASE stack[wsTopic] # <<>> /\ wsPc' = "fetch" /\ UNCHANGED <<wsTopic, missed>>
    <3>1. Draining' = Draining
      BY <2>1, <2>3 DEF Draining
    <3>2. QED
      BY <1>5, <2>1, <2>2, <2>3, <3>1
  <2>4. CASE stack[wsTopic] = <<>> /\ stack' = stack /\ missed' = missed \ {wsTopic}
    <3>1. \A t \in Topic : t # wsTopic /\ Covered(t) => Covered(t)'
      BY <2>1, <2>4 DEF Covered, requests, CurrentTopic, Current
    <3>2. QED
      BY <2>4, <3>1, CoverageKept
  <2>5. CASE missed' = missed \cup {wsTopic}
    <3>1. \A t \in Topic : t = wsTopic => Covered(t)'
      BY <2>5 DEF Covered
    <3>2. \A t \in Topic : Covered(t) => Covered(t)'
      BY <2>1, <2>5 DEF Covered, requests, CurrentTopic, Current
    <3>3. QED
      BY <2>2, <3>1, <3>2, CoverageKept
  <2>6. QED
    BY <1>7, <2>3, <2>4, <2>5 DEF PopOrder
<1>8. ASSUME Subscribe \/ FetchOrder \/ SendUpdate \/ ClockTick \/ UNCHANGED vars
      PROVE  NoLostWakeup'
  <2>1. UNCHANGED requests /\ UNCHANGED <<stack, channel, wsTopic, missed>>
    BY <1>8 DEF Subscribe, FetchOrder, SendUpdate, ClockTick, Tick, vars, redis, pubsub, handler
  <2>2. Awaited' = Awaited /\ Draining' = Draining
    <3>1. wsPc' = wsPc \/ (wsPc # "idle" /\ wsPc' # "idle")
      BY <1>8 DEF Subscribe, FetchOrder, SendUpdate, ClockTick, vars, handler
    <3>2. QED
      BY <2>1, <3>1 DEF Awaited, Draining
  <2>3. QED
    BY <1>5, <2>1, <2>2
<1>9. ASSUME WsCrash
      PROVE  NoLostWakeup'
  BY <1>5, <1>9 DEF WsCrash
<1>10. ASSUME LoseConnection
       PROVE  NoLostWakeup'
  <2>1. Awaited \cup missed \subseteq (Awaited \cup missed)'
    <3>1. PICK n \in 0..Len(channel) :
            /\ channel' = SubSeq(channel, 1, n)
            /\ missed' = missed \cup Range(SubSeq(channel, n + 1, Len(channel)))
      BY <1>10 DEF LoseConnection
    <3>2. QED
      BY <1>0, <3>1, SplitList DEF Awaited
  <2>2. Draining' = Draining
    BY <1>10 DEF LoseConnection, Draining, handler
  <2>3. QED
    BY <1>5, <1>10, <2>1, <2>2 DEF LoseConnection
<1>11. QED
  BY <1>1, <1>2, <1>3, <1>4, <1>6, <1>7, <1>8, <1>9, <1>10 DEF Next, Serve, Drain

(* No lost wake-up: as long as ids lie on a stack, the handler will be     *)
(* told, is at work on it, or the notification was lost in a failure or    *)
(* while the websocket was away.                                           *)
THEOREM WakeupsKept == Spec => []NoLostWakeup
<1>1. Init => Shape /\ NoLostWakeup
  BY ShapeInit, WakeupInit
<1>2. Shape /\ NoLostWakeup /\ [Next]_vars => (Shape /\ NoLostWakeup)'
  BY ShapeStep, WakeupStep
<1>3. QED
  BY <1>1, <1>2, PTL DEF Spec

-----------------------------------------------------------------------------
(* The pipeline implements the feed                                        *)

(* What is open, by Conservation.                                          *)
LEMMA OpenEntries ==
    ASSUME Conservation
    PROVE  Queued \cup InHand = pushed \ Settled
  BY DEF Conservation

(* The initial state maps to the initial state of the feed.                *)
LEMMA FeedInit == Init => Feed!Init
<1> SUFFICES ASSUME Init PROVE Feed!Init
  OBVIOUS
<1>1. Queued \cup InHand = {}
  BY ConservationInit, OpenEntries DEF Init
<1>2. QED
  BY <1>1 DEF Init, Feed!Init

(* Every step is a step of the feed, or changes nothing it can see.        *)
LEMMA FeedStep ==
    ASSUME Shape, Shape', KnownOK, Unpushed, Conservation, Conservation', [Next]_vars
    PROVE  [Feed!Next]_(Feed!vars)
<1> DEFINE open == Queued \cup InHand
<1>0. open = pushed \ Settled /\ open' = pushed' \ Settled'
  <2>1. (Queued \cup InHand = pushed \ Settled)'
    BY DEF Conservation
  <2>2. QED
    BY <2>1, OpenEntries
<1> HIDE DEF open
<1>1. ASSUME UNCHANGED <<known, pushed, fates>>
      PROVE  UNCHANGED Feed!vars
  BY <1>0, <1>1 DEF fates, Settled, Feed!vars, open
<1>2. ASSUME NEW o \in Order, known' = known \cup {o}, UNCHANGED <<pushed, fates>>
      PROVE  Feed!Next
  <2>1. Feed!Announce(o)
    BY <1>0, <1>2 DEF fates, Settled, Feed!Announce, open
  <2>2. QED
    BY <2>1 DEF Feed!Next
<1>3. ASSUME NEW e \in InHand \cup Queued, Settle(e), UNCHANGED <<known, pushed>>
      PROVE  Feed!Next
  <2>1. e \in Entry /\ e \in open
    BY DEF open, Queued, InHand, Range, Shape, TypeOK, HandlerOK
  <2>2. open' = open \ {e}
    BY <1>0, <1>3 DEF Settle, Settled
  <2>3. Feed!PublishEntry(e) \/ Feed!GiveUp(e)
    BY <1>3, <2>1, <2>2 DEF Settle, Feed!PublishEntry, Feed!GiveUp, open
  <2>4. QED
    BY <2>1, <2>3 DEF Feed!Next
<1>4. ASSUME NEW r \in Request,
             \/ \E o \in Order : SignOrder(r, o)
             \/ \E ids \in Batches : OrdersSubmitted(r, ids)
             \/ SetExpiry(r) \/ LookUpOrder(r) \/ PublishOrder(r)
      PROVE  UNCHANGED Feed!vars
  BY <1>1, <1>4 DEF SignOrder, OrdersSubmitted, SetExpiry, LookUpOrder, PublishOrder
<1>5. ASSUME NEW r \in Request, StoreOrder(r)
      PROVE  [Feed!Next]_(Feed!vars)
  <2>1. Current(r) \in Order
    BY <1>5, CurrentIsEntry DEF StoreOrder, Working
  <2>2. known' = known \/ known' = known \cup {Current(r)}
    BY <1>5 DEF StoreOrder
  <2>3. UNCHANGED <<pushed, fates>>
    BY <1>5 DEF StoreOrder
  <2>4. QED
    BY <1>1, <1>2, <2>1, <2>2, <2>3
<1>6. ASSUME NEW r \in Request, PushOrder(r)
      PROVE  [Feed!Next]_(Feed!vars)
  <2>1. CurrentEntry(r) \in Entry /\ CurrentEntry(r).order \in known
    BY <1>6, CurrentIsEntry DEF PushOrder, Working, KnownOK
  <2>2. UNCHANGED <<known, fates>>
    BY <1>6 DEF PushOrder
  <2>3. CASE pushed' = pushed
    BY <1>1, <2>2, <2>3
  <2>4. CASE pushed' = pushed \cup {CurrentEntry(r)}
    <3> DEFINE e == CurrentEntry(r)
    <3>1. e \notin pushed
      <4>1. pc[r] = "push" /\ pos[r] \in Nat /\ e.req = r /\ e.pos = pos[r]
        BY <1>6, CurrentIsEntry, ConstantsAssumption DEF PushOrder, Working, Shape, TypeOK
      <4> HIDE DEF e
      <4>2. QED
        BY <4>1 DEF Unpushed, Died
    <3>2. e \notin open \cup Settled /\ open' = open \cup {e}
      BY <1>0, <2>2, <2>4, <3>1 DEF fates, Settled, open, Conservation
    <3> HIDE DEF e
    <3>3. Feed!Submit(e)
      BY <2>1, <2>2, <3>2 DEF e, fates, Settled, Feed!Submit, open
    <3>4. QED
      BY <2>1, <3>3 DEF Feed!Next, e
  <2>5. QED
    BY <1>6, <2>3, <2>4 DEF PushOrder
<1>7. ASSUME \/ BrokerCrash \/ Subscribe \/ HandleNewOrder \/ LoseConnection
             \/ ClockTick \/ UNCHANGED vars
      PROVE  UNCHANGED Feed!vars
  BY <1>1, <1>7 DEF BrokerCrash, Subscribe, HandleNewOrder, LoseConnection, ClockTick, vars
<1>8. ASSUME PopOrder
      PROVE  [Feed!Next]_(Feed!vars)
  <2>1. UNCHANGED <<known, pushed, sent, expired>> /\ wsTopic \in Topic
    BY <1>8 DEF PopOrder, Shape, HandlerOK
  <2>2. CASE lost' = lost
    BY <1>1, <2>1, <2>2 DEF fates
  <2>3. CASE stack[wsTopic] # <<>> /\ lost' = lost \cup {Head(stack[wsTopic])}
             /\ LPop(wsTopic)
    <3>1. Head(stack[wsTopic]) \in Queued
      BY <2>1, <2>3, HeadLeaves
    <3>2. Settle(Head(stack[wsTopic]))
      BY <2>1, <2>3 DEF Settle
    <3>3. QED
      BY <1>3, <2>1, <3>1, <3>2
  <2>4. QED
    BY <1>8, <2>2, <2>3 DEF PopOrder, Popped
<1>9. ASSUME FetchOrder
      PROVE  [Feed!Next]_(Feed!vars)
  <2>1. wsEntry \in InHand /\ UNCHANGED <<known, pushed>>
    BY <1>9 DEF FetchOrder, InHand
  <2>2. CASE UNCHANGED fates
    BY <1>1, <2>1, <2>2
  <2>3. CASE Settle(wsEntry)
    BY <1>3, <2>1, <2>3
  <2>4. QED
    BY <1>9, <2>2, <2>3 DEF FetchOrder, fates, Settle
<1>10. ASSUME SendUpdate
       PROVE  Feed!Next
  <2>1. wsEntry \in InHand /\ UNCHANGED <<known, pushed>> /\ Settle(wsEntry)
    BY <1>10 DEF SendUpdate, InHand, Settle
  <2>2. QED
    BY <1>3, <2>1
<1>11. ASSUME WsCrash
       PROVE  [Feed!Next]_(Feed!vars)
  <2>1. UNCHANGED <<known, pushed, sent, expired>> /\ lost' = lost \cup InHand
    BY <1>11 DEF WsCrash
  <2>2. CASE InHand = {}
    BY <1>1, <2>1, <2>2 DEF fates
  <2>3. CASE InHand = {wsEntry}
    BY <1>3, <2>1, <2>3 DEF Settle
  <2>4. QED
    BY <2>2, <2>3 DEF InHand
<1>12. QED
  BY <1>4, <1>5, <1>6, <1>7, <1>8, <1>9, <1>10, <1>11 DEF Next, Serve, Drain

(* The detailed pipeline implements the abstract feed: with what is on a   *)
(* stack or in the handler's hand as the open entries, every step is one   *)
(* of the feed's or invisible to it.  So an update is published at most    *)
(* once per submission, only for a known order, and never after the        *)
(* submission was given up.                                                *)
THEOREM Implementation == Spec => ImplementsFeed
<1> DEFINE I == Shape /\ KnownOK /\ Unpushed /\ Conservation
<1>1. Init => I
  BY ShapeInit, KnownInit, UnpushedInit, ConservationInit
<1>2. I /\ [Next]_vars => I'
  BY ShapeStep, KnownStep, UnpushedStep, ConservationStep
<1>3. I /\ I' /\ [Next]_vars => [Feed!Next]_(Feed!vars)
  BY FeedStep
<1> HIDE DEF I
<1>4. QED
  BY <1>1, <1>2, <1>3, FeedInit, PTL DEF Spec, ImplementsFeed, Feed!Spec
=============================================================================
