-------------------------- MODULE OrderAnswersProofs --------------------------
(***************************************************************************)
(* Theorems about what OrderPipeline tells its clients and leaves behind   *)
(* in Redis; like OrderPipelineProofs for all values of the constants.     *)
(***************************************************************************)
EXTENDS OrderPipelineProofs

(* Which positions of the batch of r the entries have.                     *)
At(r, entries) == {e.pos : e \in {x \in entries : x.req = r}}

(* The positions whose LPUSH was executed, or failed unnoticed.            *)
Tried(r) == At(r, pushed) \cup At(r, ignored)

(* A request tries the ids of its batch in their order, each once: at      *)
(* every label of OrderSubmission it is known which.                       *)
AnswerOK(r) ==
    /\ At(r, pushed) \cap At(r, ignored) = {}
    /\ pc[r] \in {"new", "hset", "expire"} => Tried(r) = {}
    /\ pc[r] \in {"get", "push"} => Tried(r) = 1..(pos[r] - 1)
    /\ pc[r] = "publish" => Tried(r) = 1..pos[r]
    /\ pc[r] = "success" => Tried(r) = DOMAIN batch[r]
    /\ pc[r] = "error" => 1..(pos[r] - 1) \subseteq Tried(r) /\ Tried(r) \subseteq 1..pos[r]
AnswersOK == \A r \in Request : AnswerOK(r)
-----------------------------------------------------------------------------
(* What the answer tells                                                   *)

(* The next position, and the last one, of a run of positions.             *)
LEMMA NextPosition ==
    ASSUME NEW n \in Nat \ {0}
    PROVE  /\ n \notin 1..(n - 1) /\ 1..(n - 1) \cup {n} = 1..n
           /\ 1..(n - 1) \subseteq 1..n /\ (n + 1) - 1 = n
           /\ 1..(1 - 1) = {}
OBVIOUS

(* One request moves; what was tried for the others does not change.       *)
LEMMA AnswersFrame ==
    ASSUME AnswersOK, NEW r \in Request, AnswerOK(r)',
           \A q \in Request \ {r} :
              /\ pc'[q] = pc[q] /\ pos'[q] = pos[q] /\ batch'[q] = batch[q]
              /\ At(q, pushed') = At(q, pushed) /\ At(q, ignored') = At(q, ignored)
    PROVE  AnswersOK'
BY DEF AnswersOK, AnswerOK, Tried

(* No request has tried anything at the start.                             *)
LEMMA AnswersInit == Init => AnswersOK
  BY DEF Init, AnswersOK, AnswerOK, Tried, At

(* The ids that were tried keep in step with the position of the request.  *)
LEMMA AnswersStep == Shape /\ AnswersOK /\ [Next]_vars => AnswersOK'
<1> SUFFICES ASSUME Shape, AnswersOK, [Next]_vars
             PROVE  AnswersOK'
  OBVIOUS
<1>1. /\ pc \in [Request -> {"new"} \cup Died \cup Working \cup Answered]
      /\ batch \in [Request -> Seq(Order)]
      /\ \A r \in Request : pos[r] \in Nat \ {0}
      /\ pos \in [Request -> 1..MaxBatch]
  BY ConstantsAssumption DEF Shape, TypeOK
<1>2. ASSUME NEW r \in Request, NEW o \in Order, SignOrder(r, o)
      PROVE  AnswersOK'
  <2>1. /\ pc[r] = "new" /\ pos[r] = 1 /\ pc'[r] \in {"hset", "error"}
        /\ UNCHANGED <<pos, pushed, ignored>>
    BY <1>1, <1>2 DEF SignOrder, Goto, Shape, PositionsOK
  <2>2. AnswerOK(r)'
    BY <2>1, NextPosition DEF AnswersOK, AnswerOK, Tried
  <2>3. QED
    BY <1>1, <1>2, <2>1, <2>2, AnswersFrame DEF SignOrder, Goto
<1>3. ASSUME NEW r \in Request, NEW ids \in Batches, OrdersSubmitted(r, ids)
      PROVE  AnswersOK'
  <2>1. /\ pc[r] = "new" /\ pos[r] = 1 /\ pc'[r] \in {"get", "error"}
        /\ UNCHANGED <<pos, pushed, ignored>>
    BY <1>1, <1>3 DEF OrdersSubmitted, Goto, Shape, PositionsOK
  <2>2. AnswerOK(r)'
    BY <2>1, NextPosition DEF AnswersOK, AnswerOK, Tried
  <2>3. QED
    BY <1>1, <1>3, <2>1, <2>2, AnswersFrame DEF OrdersSubmitted, Goto
<1>4. ASSUME NEW r \in Request, StoreOrder(r) \/ SetExpiry(r)
      PROVE  AnswersOK'
  <2>1. /\ pc[r] \in {"hset", "expire"}
        /\ CurrentEntry(r).req = r
    BY <1>4, CurrentIsEntry DEF StoreOrder, SetExpiry, Working
  <2>2. /\ pc'[r] = "signed" \/ (pc'[r] = "expire" /\ ignored' = ignored)
        /\ \A q \in Request \ {r} : pc'[q] = pc[q]
        /\ UNCHANGED <<pos, batch, pushed>>
        /\ ignored' = ignored \/ ignored' = ignored \cup {CurrentEntry(r)}
    BY <1>1, <1>4 DEF StoreOrder, SetExpiry, Goto, Ignore
  <2>3. \A q \in Request \ {r} : At(q, ignored') = At(q, ignored)
    BY <2>1, <2>2 DEF At
  <2>4. AnswerOK(r)'
    BY <2>1, <2>2 DEF AnswersOK, AnswerOK, Tried
  <2>5. QED
    BY <2>2, <2>3, <2>4, AnswersFrame
<1>5. ASSUME NEW r \in Request, LookUpOrder(r)
      PROVE  AnswersOK'
  <2>1. /\ pc[r] = "get" /\ pc'[r] \in {"push", "error"}
        /\ \A q \in Request \ {r} : pc'[q] = pc[q]
        /\ UNCHANGED <<pos, batch, pushed, ignored>>
    BY <1>1, <1>5 DEF LookUpOrder, Goto
  <2>2. AnswerOK(r)'
    BY <1>1, <2>1, NextPosition DEF AnswersOK, AnswerOK, Tried
  <2>3. QED
    BY <2>1, <2>2, AnswersFrame
<1>6. ASSUME NEW r \in Request, PushOrder(r)
      PROVE  AnswersOK'
  <2>1. /\ pc[r] = "push" /\ pc'[r] = "publish"
        /\ \A q \in Request \ {r} : pc'[q] = pc[q]
        /\ UNCHANGED <<pos, batch>>
    BY <1>1, <1>6 DEF PushOrder, Goto
  <2>2. PICK e : /\ e.req = r /\ e.pos = pos[r]
                 /\ \/ pushed' = pushed \cup {e} /\ ignored' = ignored
                    \/ pushed' = pushed /\ ignored' = ignored \cup {e}
    <3>1. CurrentEntry(r).req = r /\ CurrentEntry(r).pos = pos[r]
      BY <2>1, CurrentIsEntry DEF Working
    <3>2. QED
      BY <1>6, <3>1 DEF PushOrder, Ignore
  <2>3. ASSUME NEW q \in Request \ {r}
        PROVE  At(q, pushed') = At(q, pushed) /\ At(q, ignored') = At(q, ignored)
    <3>1. e.req # q
      BY <2>2
    <3>2. At(q, pushed \cup {e}) = At(q, pushed) /\ At(q, ignored \cup {e}) = At(q, ignored)
      BY <3>1 DEF At
    <3>3. QED
      BY <2>2, <3>2
  <2>4. \/ At(r, pushed') = At(r, pushed) \cup {pos[r]} /\ At(r, ignored') = At(r, ignored)
        \/ At(r, pushed') = At(r, pushed) /\ At(r, ignored') = At(r, ignored) \cup {pos[r]}
    <3>1. /\ At(r, pushed \cup {e}) = At(r, pushed) \cup {pos[r]}
          /\ At(r, ignored \cup {e}) = At(r, ignored) \cup {pos[r]}
      BY <2>2 DEF At
    <3>2. QED
      BY <2>2, <3>1
  <2>5. pos[r] \notin Tried(r) /\ Tried(r) \cup {pos[r]} = 1..pos[r]
    BY <1>1, <2>1, NextPosition DEF AnswersOK, AnswerOK
  <2>6. AnswerOK(r)'
    BY <2>1, <2>4, <2>5 DEF AnswersOK, AnswerOK, Tried
  <2>7. QED
    BY <2>1, <2>3, <2>6, AnswersFrame
<1>7. ASSUME NEW r \in Request, PublishOrder(r)
      PROVE  AnswersOK'
  <2>1. pc[r] = "publish" /\ UNCHANGED <<batch, pushed, ignored>>
    BY <1>7 DEF PublishOrder
  <2>2. /\ \A q \in Request \ {r} : pos'[q] = pos[q] /\ pc'[q] = pc[q]
        /\ \/ pos'[r] = pos[r] + 1 /\ pc'[r] = "get"
           \/ pos'[r] = pos[r] /\ pc'[r] = "success" /\ ~(pos[r] < Len(batch[r]))
           \/ pos'[r] = pos[r] /\ pc'[r] = "error"
    BY <1>1, <1>7 DEF PublishOrder, NextOrder, Goto
  <2>3. /\ Tried(r) = 1..pos[r] /\ Tried(r)' = Tried(r)
        /\ At(r, pushed) \cap At(r, ignored) = {}
    BY <2>1 DEF AnswersOK, AnswerOK, Tried
  <2>4. pc'[r] = "success" => DOMAIN batch[r] = 1..pos[r]
    BY <1>1, <2>1, <2>2, LenProperties DEF Shape, PositionsOK, Working
  <2>5. AnswerOK(r)'
    BY <1>1, <2>1, <2>2, <2>3, <2>4, NextPosition DEF AnswerOK
  <2>6. QED
    BY <2>1, <2>2, <2>5, AnswersFrame
<1>8. ASSUME BrokerCrash
      PROVE  AnswersOK'
  <2>1. /\ UNCHANGED <<pos, batch, pushed, ignored>>
        /\ \A r \in Request : pc'[r] = pc[r] \/ pc'[r] \in Died
    BY <1>8 DEF BrokerCrash, Died
  <2>2. QED
    BY <2>1 DEF AnswersOK, AnswerOK, Tried, Died
<1>9. ASSUME Subscribe \/ Drain \/ SendUpdate \/ WsCrash \/ LoseConnection \/ ClockTick \/ UNCHANGED vars
      PROVE  AnswersOK'
  <2>1. UNCHANGED <<pushed, ignored, pos, pc, batch>>
    BY <1>9 DEF Subscribe, Drain, HandleNewOrder, PopOrder, FetchOrder, SendUpdate,
                WsCrash, LoseConnection, ClockTick, vars, requests
  <2>2. QED
    BY <2>1 DEF AnswersOK, AnswerOK, Tried
<1>10. QED
  BY <1>2, <1>3, <1>4, <1>5, <1>6, <1>7, <1>8, <1>9 DEF Next, Serve

(* The client of /orders-submitted can tell from the answer which ids were *)
(* tried: all of them after a success, and after an error those before the *)
(* failing one, possibly that one, and none behind it.                     *)
THEOREM AnswerTells == Spec => []AnswerTellsWhatWasQueued
<1>1. Shape /\ AnswersOK => AnswerTellsWhatWasQueued
  BY DEF AnswersOK, AnswerOK, Tried, At, AnswerTellsWhatWasQueued
<1>2. QED
  BY <1>1, ShapeInit, ShapeStep, AnswersInit, AnswersStep, PTL DEF Spec
-----------------------------------------------------------------------------
(* What is left in Redis                                                   *)

(* Request r is the reason that the hash of o has no ttl: it is about to   *)
(* set one, or was when the broker died, or a command of it failed.        *)
Explains(r, o) ==
    /\ batch[r] # <<>> /\ Current(r) = o
    /\ \/ pc[r] \in {"expire", "unset"}
       \/ pc[r] = "signed" /\ CurrentEntry(r) \in ignored

(* A reason stays one, unless the request goes on.                         *)
LEMMA StillExplains ==
    ASSUME NEW r \in Request, NEW o, Explains(r, o),
           UNCHANGED <<batch[r], pos[r]>>, ignored \subseteq ignored',
           \/ pc'[r] = pc[r]
           \/ pc[r] = "expire" /\ pc'[r] = "unset"
           \/ pc[r] \in Working \ {"expire"}
    PROVE  Explains(r, o)'
BY DEF Explains, CurrentEntry, Current, Working

(* At the start nothing is stored.                                         *)
LEMMA ExplainedInit == Init => RecordsExpire
  BY DEF Init, RecordsExpire

(* A record that loses its time to live, or is written without one, has a  *)
(* request to blame.                                                       *)
LEMMA ExplainedStep == Shape /\ RecordsExpire /\ [Next]_vars => RecordsExpire'
<1> SUFFICES ASSUME Shape, RecordsExpire, [Next]_vars
             PROVE  RecordsExpire'
  OBVIOUS
<1>1. /\ pc \in [Request -> {"new"} \cup Died \cup Working \cup Answered]
      /\ batch \in [Request -> Seq(Order)]
      /\ pos \in [Request -> 1..MaxBatch]
      /\ stored \subseteq Order /\ ttl \in [Order -> 0..Expiry]
      /\ \A o \in stored : ttl[o] > 0 \/ \E r \in Request : Explains(r, o)
  BY DEF Shape, TypeOK, RecordsExpire, Explains
<1>2. ASSUME \A o \in stored' : ttl'[o] > 0 \/ \E r \in Request : Explains(r, o)'
      PROVE  RecordsExpire'
  BY <1>2 DEF RecordsExpire, Explains
<1>3. ASSUME NEW r \in Request,
             \/ \E o \in Order : SignOrder(r, o)
             \/ \E ids \in Batches : OrdersSubmitted(r, ids)
             \/ LookUpOrder(r) \/ PushOrder(r) \/ PublishOrder(r)
      PROVE  RecordsExpire'
  <2>1. /\ UNCHANGED <<stored, ttl>> /\ ignored \subseteq ignored'
        /\ pc[r] \in {"new", "get", "push", "publish"}
    BY <1>3 DEF SignOrder, OrdersSubmitted, LookUpOrder, PushOrder, PublishOrder, Ignore, redis,
                records
  <2>2. \A q \in Request \ {r} : pc'[q] = pc[q] /\ batch'[q] = batch[q] /\ pos'[q] = pos[q]
    BY <1>1, <1>3 DEF SignOrder, OrdersSubmitted, LookUpOrder, PushOrder, PublishOrder, NextOrder,
                      Goto
  <2>3. ASSUME NEW o, NEW q \in Request, Explains(q, o)
        PROVE  Explains(q, o)'
    <3>1. q # r
      BY <2>1, <2>3 DEF Explains
    <3>2. QED
      BY <2>1, <2>2, <2>3, <3>1, StillExplains
  <2>4. QED
    BY <1>1, <1>2, <2>1, <2>3
<1>4. ASSUME NEW r \in Request, StoreOrder(r)
      PROVE  RecordsExpire'
  <2>1. /\ pc[r] = "hset" /\ ttl' = ttl /\ UNCHANGED <<batch, pos>>
        /\ \A q \in Request \ {r} : pc'[q] = pc[q]
        /\ ignored \subseteq ignored'
        /\ \/ stored' = stored
           \/ /\ stored' = stored \cup {Current(r)}
              /\ pc'[r] = "expire" \/ (pc'[r] = "signed" /\ CurrentEntry(r) \in ignored')
    BY <1>1, <1>4 DEF StoreOrder, HSet, Ignore, Goto, records
  <2>2. ASSUME NEW o, NEW q \in Request, Explains(q, o)
        PROVE  Explains(q, o)'
    <3>1. q # r
      BY <2>1, <2>2 DEF Explains
    <3>2. QED
      BY <2>1, <2>2, <3>1, StillExplains
  <2>3. ASSUME NEW o \in stored' \ stored
        PROVE  Explains(r, o)'
    <3>1. batch[r] # <<>>
      BY <1>1, <2>1, EmptySeq DEF Shape, PositionsOK, Working
    <3>2. Current(r)' = Current(r) /\ CurrentEntry(r)' = CurrentEntry(r)
      BY <2>1 DEF Current, CurrentEntry
    <3>3. QED
      BY <2>1, <2>3, <3>1, <3>2 DEF Explains
  <2>4. QED
    BY <1>1, <1>2, <2>1, <2>2, <2>3
<1>5. ASSUME NEW r \in Request, SetExpiry(r)
      PROVE  RecordsExpire'
  <2>1. /\ pc[r] = "expire" /\ pc'[r] = "signed" /\ UNCHANGED <<batch, pos, stored>>
        /\ \A q \in Request \ {r} : pc'[q] = pc[q]
        /\ ignored \subseteq ignored'
        /\ \/ ttl' = [ttl EXCEPT ![Current(r)] = IF Current(r) \in stored THEN Expiry ELSE 0]
           \/ ttl' = ttl /\ CurrentEntry(r) \in ignored'
    BY <1>1, <1>5 DEF SetExpiry, ExpireKey, Ignore, Goto, records
  <2>2. Current(r) \in Order /\ Current(r)' = Current(r) /\ CurrentEntry(r)' = CurrentEntry(r)
    BY <2>1, CurrentIsEntry DEF Current, CurrentEntry, Working
  <2>3. ASSUME NEW o \in stored
        PROVE  ttl'[o] > 0 \/ \E q \in Request : Explains(q, o)'
    <3>1. CASE ttl' # ttl /\ o = Current(r)
      BY <1>1, <2>1, <2>2, <3>1, ExpiryAssumption
    <3>2. CASE ttl' # ttl /\ o # Current(r)
      <4>1. ttl'[o] = ttl[o]
        BY <1>1, <2>1, <3>2
      <4>2. ASSUME NEW q \in Request, Explains(q, o)
            PROVE  Explains(q, o)'
        <5>1. q # r
          BY <3>2, <4>2 DEF Explains
        <5>2. QED
          BY <2>1, <4>2, <5>1, StillExplains
      <4>3. QED
        BY <1>1, <4>1, <4>2
    <3>3. CASE ttl' = ttl
      <4>1. ASSUME NEW q \in Request, Explains(q, o)
            PROVE  \E p \in Request : Explains(p, o)' \/ ttl'[o] > 0
        <5>1. CASE q # r
          BY <2>1, <4>1, <5>1, StillExplains
        <5>2. CASE q = r /\ CurrentEntry(r) \in ignored'
          BY <2>1, <2>2, <4>1, <5>2 DEF Explains
        <5>3. CASE q = r /\ CurrentEntry(r) \notin ignored'
          <6>1. o = Current(r) /\ ttl'[o] = Expiry
            BY <1>1, <2>1, <2>2, <4>1, <5>3 DEF Explains
          <6>2. QED
            BY <6>1, ExpiryAssumption
        <5>4. QED
          BY <5>1, <5>2, <5>3
      <4>2. QED
        BY <1>1, <3>3, <4>1
    <3>4. QED
      BY <3>1, <3>2, <3>3
  <2>4. QED
    BY <1>2, <2>1, <2>3
<1>6. ASSUME BrokerCrash
      PROVE  RecordsExpire'
  <2>1. /\ UNCHANGED <<stored, ttl, batch, pos, ignored>>
        /\ \A r \in Request :
              \/ pc'[r] = pc[r]
              \/ pc[r] = "expire" /\ pc'[r] = "unset"
              \/ pc[r] \in Working \ {"expire"}
    BY <1>6 DEF BrokerCrash, redis
  <2>2. \A o, q : q \in Request /\ Explains(q, o) => Explains(q, o)'
    BY <2>1, StillExplains
  <2>3. QED
    BY <1>1, <1>2, <2>1, <2>2
<1>7. ASSUME UNCHANGED requests,
             \A o \in stored' : o \in stored /\ (ttl[o] > 0 => ttl'[o] > 0)
      PROVE  RecordsExpire'
  <2>1. \A o, q : Explains(q, o) => Explains(q, o)'
    BY <1>7 DEF requests, Explains, CurrentEntry, Current
  <2>2. QED
    BY <1>1, <1>2, <1>7, <2>1
<1>8. ASSUME ClockTick
      PROVE  RecordsExpire'
  <2>1. /\ stored' = stored \ {o \in Order : ttl[o] = 1}
        /\ ttl' = [o \in Order |-> IF ttl[o] > 0 THEN ttl[o] - 1 ELSE 0]
        /\ UNCHANGED requests
    BY <1>8 DEF ClockTick, Tick
  <2>2. ASSUME NEW o \in stored', ttl[o] > 0
        PROVE  ttl'[o] > 0
    <3>1. o \in Order /\ ttl[o] \in Nat /\ ttl[o] # 1
      BY <1>1, <2>1, <2>2
    <3>2. QED
      BY <2>1, <2>2, <3>1
  <2>3. QED
    BY <1>7, <2>1, <2>2
<1>9. ASSUME Subscribe \/ Drain \/ SendUpdate \/ WsCrash \/ LoseConnection \/ UNCHANGED vars
      PROVE  RecordsExpire'
  <2>1. UNCHANGED requests /\ UNCHANGED <<stored, ttl>>
    BY <1>9 DEF Subscribe, Drain, HandleNewOrder, PopOrder, FetchOrder, SendUpdate, WsCrash,
                LoseConnection, vars, redis, records
  <2>2. QED
    BY <1>7, <2>1
<1>10. QED
  BY <1>3, <1>4, <1>5, <1>6, <1>8, <1>9 DEF Next, Serve

(* Every order hash in Redis dies in time, or there is a request to blame: *)
(* between its HSET and EXPIRE, or one that the broker's death or an       *)
(* unnoticed error of Redis stopped there.                                 *)
THEOREM HashesDie == Spec => []RecordsExpire
  BY ShapeInit, ShapeStep, ExplainedInit, ExplainedStep, PTL DEF Spec
-----------------------------------------------------------------------------
(* When a signature is handed out                                          *)

(* A ttl is one that a request set which has been answered; so whoever is  *)
(* about to set one finds the record it wrote, or was not the first.       *)
SigningOK ==
    /\ \A r \in Request : pc[r] \in {"hset", "expire"} => batch[r] = <<Current(r)>>
    /\ \A o \in Order : ttl[o] > 0 => AnsweredFor(o) # {}
    /\ \A r \in Request :
          pc[r] = "expire" => Current(r) \in stored \/ AnsweredFor(Current(r)) # {}

(* At the start no request signs and no time to live runs.                 *)
LEMMA SigningInit == Init => SigningOK
  BY DEF Init, SigningOK

(* An answer is final.                                                     *)
LEMMA AnsweredStays ==
    ASSUME Shape, [Next]_vars, NEW o
    PROVE  AnsweredFor(o) \subseteq AnsweredFor(o)'
<1> SUFFICES ASSUME NEW r \in Request, pc[r] = "signed"
             PROVE  pc'[r] = "signed" /\ batch'[r] = batch[r]
  BY DEF AnsweredFor
<1>1. /\ pc \in [Request -> {"new"} \cup Died \cup Working \cup Answered]
      /\ batch \in [Request -> Seq(Order)]
  BY DEF Shape, TypeOK
<1>2. ASSUME NEW q \in Request, NEW p \in Order, SignOrder(q, p)
      PROVE  pc'[r] = "signed" /\ batch'[r] = batch[r]
  BY <1>1, <1>2 DEF SignOrder, Goto
<1>3. ASSUME NEW q \in Request, NEW ids \in Batches, OrdersSubmitted(q, ids)
      PROVE  pc'[r] = "signed" /\ batch'[r] = batch[r]
  BY <1>1, <1>3 DEF OrdersSubmitted, Goto
<1>4. ASSUME NEW q \in Request, Serve(q)
      PROVE  pc'[r] = "signed" /\ batch'[r] = batch[r]
  BY <1>1, <1>4
  DEF Serve, StoreOrder, SetExpiry, LookUpOrder, PushOrder, PublishOrder, NextOrder, Goto
<1>5. ASSUME BrokerCrash
      PROVE  pc'[r] = "signed" /\ batch'[r] = batch[r]
  BY <1>5 DEF BrokerCrash, Working
<1>6. ASSUME Subscribe \/ Drain \/ SendUpdate \/ WsCrash \/ LoseConnection \/ ClockTick \/ UNCHANGED vars
      PROVE  pc'[r] = "signed" /\ batch'[r] = batch[r]
  BY <1>6 DEF Subscribe, Drain, HandleNewOrder, PopOrder, FetchOrder, SendUpdate, WsCrash,
              LoseConnection, ClockTick, vars, requests
<1>7. QED
  BY <1>2, <1>3, <1>4, <1>5, <1>6 DEF Next

(* Only an answered request starts the time to live that can delete a      *)
(* record between HSET and EXPIRE.                                         *)
LEMMA SigningStep == Shape /\ SigningOK /\ [Next]_vars => SigningOK'
<1> SUFFICES ASSUME Shape, SigningOK, [Next]_vars
             PROVE  SigningOK'
  OBVIOUS
<1>1. /\ pc \in [Request -> {"new"} \cup Died \cup Working \cup Answered]
      /\ batch \in [Request -> Seq(Order)]
      /\ pos \in [Request -> 1..MaxBatch]
      /\ stored \subseteq Order /\ ttl \in [Order -> 0..Expiry]
  BY DEF Shape, TypeOK
<1>2. \A o : AnsweredFor(o) # {} => AnsweredFor(o)' # {}
  BY AnsweredStays
(* Nobody but r comes to a label of SignOrder, and the records are kept.   *)
<1>3. ASSUME UNCHANGED <<stored, ttl>>,
             \A r \in Request : pc'[r] \in {"hset", "expire"} =>
                pc'[r] = pc[r] /\ batch'[r] = batch[r] /\ pos'[r] = pos[r]
      PROVE  SigningOK'
  <2>1. \A r \in Request : pc'[r] \in {"hset", "expire"} =>
           pc'[r] = pc[r] /\ batch'[r] = batch[r] /\ Current(r)' = Current(r)
    BY <1>3 DEF Current
  <2>2. QED
    BY <1>2, <1>3, <2>1 DEF SigningOK
<1>4. ASSUME NEW r \in Request, NEW o \in Order, SignOrder(r, o)
      PROVE  SigningOK'
  <2>1. /\ batch'[r] = <<o>> /\ Current(r)' = o /\ pc'[r] # "expire"
        /\ UNCHANGED <<stored, ttl>>
    BY <1>1, <1>4 DEF SignOrder, Goto, Current, Shape, PositionsOK, redis, records
  <2>2. \A q \in Request \ {r} :
           pc'[q] = pc[q] /\ batch'[q] = batch[q] /\ Current(q)' = Current(q)
    BY <1>1, <1>4 DEF SignOrder, Goto, Current
  <2>3. QED
    BY <1>2, <2>1, <2>2 DEF SigningOK
<1>5. ASSUME NEW r \in Request,
             \/ \E ids \in Batches : OrdersSubmitted(r, ids)
             \/ LookUpOrder(r) \/ PushOrder(r) \/ PublishOrder(r)
      PROVE  SigningOK'
  <2>1. UNCHANGED <<stored, ttl>> /\ pc'[r] \notin {"hset", "expire"}
    BY <1>1, <1>5 DEF OrdersSubmitted, LookUpOrder, PushOrder, PublishOrder, NextOrder, Goto,
                      redis, records
  <2>2. \A q \in Request \ {r} :
           pc'[q] = pc[q] /\ batch'[q] = batch[q] /\ pos'[q] = pos[q]
    BY <1>1, <1>5 DEF OrdersSubmitted, LookUpOrder, PushOrder, PublishOrder, NextOrder, Goto
  <2>3. QED
    BY <1>3, <2>1, <2>2
<1>6. ASSUME NEW r \in Request, StoreOrder(r)
      PROVE  SigningOK'
  <2>1. /\ pc[r] = "hset" /\ UNCHANGED <<ttl, batch, pos>>
        /\ stored \subseteq stored'
        /\ pc'[r] = "expire" => Current(r) \in stored'
        /\ \A q \in Request \ {r} : pc'[q] = pc[q]
    BY <1>1, <1>6 DEF StoreOrder, HSet, Executed, Goto, records
  <2>2. \A q \in Request : Current(q)' = Current(q)
    BY <2>1 DEF Current
  <2>3. QED
    BY <1>2, <2>1, <2>2 DEF SigningOK
<1>7. ASSUME NEW r \in Request, SetExpiry(r)
      PROVE  SigningOK'
  <2>1. /\ pc[r] = "expire" /\ pc'[r] = "signed" /\ UNCHANGED <<batch, pos, stored>>
        /\ \A q \in Request \ {r} : pc'[q] = pc[q]
        /\ \A o \in Order : o # Current(r) => ttl'[o] = ttl[o]
    BY <1>1, <1>7 DEF SetExpiry, ExpireKey, Goto, records
  <2>2. \A q \in Request : Current(q)' = Current(q)
    BY <2>1 DEF Current
  <2>3. AnsweredFor(Current(r))' # {}
    BY <2>1, <2>2 DEF SigningOK, AnsweredFor
  <2>4. \A o \in Order : ttl'[o] > 0 => AnsweredFor(o)' # {}
    <3> SUFFICES ASSUME NEW o \in Order, ttl'[o] > 0
                 PROVE  AnsweredFor(o)' # {}
      OBVIOUS
    <3>1. CASE o = Current(r)
      BY <2>1, <2>2, <3>1 DEF SigningOK, AnsweredFor
    <3>2. CASE o # Current(r)
      BY <1>2, <2>1, <3>2 DEF SigningOK
    <3>3. QED
      BY <3>1, <3>2
  <2>5. QED
    BY <1>2, <2>1, <2>2, <2>4 DEF SigningOK
<1>8. ASSUME BrokerCrash
      PROVE  SigningOK'
  BY <1>3, <1>8 DEF BrokerCrash, redis, Working
<1>9. ASSUME ClockTick
      PROVE  SigningOK'
  <2>1. /\ stored' = stored \ {o \in Order : ttl[o] = 1}
        /\ ttl' = [o \in Order |-> IF ttl[o] > 0 THEN ttl[o] - 1 ELSE 0]
        /\ UNCHANGED <<pc, batch, pos>>
    BY <1>9 DEF ClockTick, Tick, requests
  <2>2. \A q \in Request : Current(q)' = Current(q)
    BY <2>1 DEF Current
  <2>3. \A o \in Order : ttl'[o] > 0 => ttl[o] > 0
    BY <1>1, <2>1
  <2>4. \A o : o \in stored => o \in stored' \/ AnsweredFor(o) # {}
    BY <1>1, <2>1 DEF SigningOK
  <2>5. QED
    BY <1>2, <2>1, <2>2, <2>3, <2>4 DEF SigningOK
<1>10. ASSUME Subscribe \/ Drain \/ SendUpdate \/ WsCrash \/ LoseConnection \/ UNCHANGED vars
       PROVE  SigningOK'
  <2>1. UNCHANGED <<stored, ttl, pc, batch, pos>>
    BY <1>10 DEF Subscribe, Drain, HandleNewOrder, PopOrder, FetchOrder, SendUpdate, WsCrash,
                 LoseConnection, vars, requests, redis, records
  <2>2. QED
    BY <1>3, <2>1
<1>11. QED
  BY <1>4, <1>5, <1>6, <1>7, <1>8, <1>9, <1>10 DEF Next, Serve

(* The step that hands out a signature.                                    *)
LEMMA SignatureStep ==
    ASSUME Shape, SigningOK, [Next]_vars, NEW r \in Request,
           pc[r] # "signed", pc'[r] = "signed",
           CurrentEntry(r) \notin ignored', AnsweredFor(Current(r)) = {}
    PROVE  Current(r) \in stored' /\ ttl'[Current(r)] = Expiry
<1>1. pc \in [Request -> {"new"} \cup Died \cup Working \cup Answered]
  BY DEF Shape, TypeOK
<1>2. StoreOrder(r) \/ SetExpiry(r)
  <2>1. ASSUME NEW q \in Request,
               \/ \E o \in Order : SignOrder(q, o)
               \/ \E ids \in Batches : OrdersSubmitted(q, ids)
               \/ LookUpOrder(q) \/ PushOrder(q) \/ PublishOrder(q)
        PROVE  FALSE
    BY <1>1, <2>1 DEF SignOrder, OrdersSubmitted, LookUpOrder, PushOrder, PublishOrder, NextOrder,
                      Goto
  <2>2. ASSUME NEW q \in Request \ {r}, StoreOrder(q) \/ SetExpiry(q)
        PROVE  FALSE
    BY <1>1, <2>2 DEF StoreOrder, SetExpiry, Goto
  <2>3. ~BrokerCrash
    BY DEF BrokerCrash
  <2>4. ~(Subscribe \/ Drain \/ SendUpdate \/ WsCrash \/ LoseConnection \/ ClockTick \/ UNCHANGED vars)
    BY DEF Subscribe, Drain, HandleNewOrder, PopOrder, FetchOrder, SendUpdate, WsCrash,
           LoseConnection, ClockTick, vars, requests
  <2>5. QED
    BY <2>1, <2>2, <2>3, <2>4 DEF Next, Serve
<1>3. CASE StoreOrder(r)
  BY <1>1, <1>3 DEF StoreOrder, Ignore, Goto
<1>4. CASE SetExpiry(r)
  <2>1. Current(r) \in stored /\ Current(r) \in Order
    BY <1>4, CurrentIsEntry DEF SigningOK, SetExpiry, Working
  <2>2. ExpireKey(Current(r))
    BY <1>4 DEF SetExpiry, Ignore
  <2>3. QED
    BY <2>1, <2>2 DEF ExpireKey, Shape, TypeOK
<1>5. QED
  BY <1>2, <1>3, <1>4

(* /sign-order hands out a signature only for an order that is stored for  *)
(* the full expiry time; the exceptions are a command that failed and an   *)
(* earlier answer for the same order.                                      *)
THEOREM FirstSignature == Spec => FirstSignatureIsStored
<1> DEFINE Promise ==
      \A r \in Request :
         /\ pc[r] # "signed" /\ pc'[r] = "signed"
         /\ CurrentEntry(r) \notin ignored' /\ AnsweredFor(Current(r)) = {}
         => Current(r) \in stored' /\ ttl'[Current(r)] = Expiry
<1>1. Shape /\ SigningOK /\ [Next]_vars => [Promise]_vars
  BY SignatureStep
<1>2. Spec => [](Shape /\ SigningOK)
  BY ShapeInit, ShapeStep, SigningInit, SigningStep, PTL DEF Spec
<1>3. Spec => [][Promise]_vars
  BY <1>1, <1>2, PTL DEF Spec
<1>4. QED
  BY <1>3 DEF FirstSignatureIsStored
=============================================================================
