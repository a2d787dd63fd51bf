---------------------------- MODULE OrderPipeline ----------------------------
(***************************************************************************)
(* The life of an order from /sign-order over /orders-submitted to the     *)
(* update sent by the executor websocket.  Three programs interact: the    *)
(* broker API (one goroutine per HTTP request), Redis (RedisStore) and the *)
(* executor websocket (one goroutine that handles pub/sub messages).       *)
(*                                                                         *)
(* Every Redis command is a step of its own, so that the requests, the     *)
(* handler, the clock and crashes interleave between any two commands.     *)
(* Which subscribers an update reaches is not part of this module.         *)
(***************************************************************************)
EXTENDS RedisStore

CONSTANTS
    Request,   \* HTTP requests; each is served once by a goroutine of its own
    Signable,  \* orders that pass SignOrder's checks and can be signed
    Batches,   \* the id lists that clients submit
    MaxBatch,  \* bound: the longest of these lists
    TopicOf,   \* PerpetualId:ChainId of each order
    None,      \* no topic, no entry
    Failures   \* what may go wrong: "redis", "broker", "ws"

ASSUME ConstantsAssumption ==
    /\ Signable \subseteq Order
    /\ MaxBatch \in Nat \ {0}
    /\ Batches \subseteq Seq(Order)
    /\ \A ids \in Batches : Len(ids) <= MaxBatch
    /\ TopicOf \in [Order -> Topic]
    /\ Failures \subseteq {"redis", "broker", "ws"}

(* A stack holds order ids; req and pos are ghosts that tell apart the     *)
(* copies of one id pushed by different requests.                          *)
Entry == [req : Request, pos : 1..MaxBatch, order : Order]

VARIABLES
    \* broker API, per request
    pc,       \* where its goroutine is
    batch,    \* the ids it names
    pos,      \* index of the id it works on
    ignored,  \* history: entries one of whose commands failed, unnoticed
    \* executor websocket: handleNewOrder and handleOrderId
    wsPc,     \* where the handler is
    wsTopic,  \* the message it handles
    wsEntry,  \* the id it popped
    \* history
    known,    \* orders whose hash was ever written
    pushed,   \* entries ever put on a stack
    sent,     \* entries sent to the subscribers
    expired,  \* entries popped after their hash had gone
    lost,     \* entries popped and dropped by a failure
    missed    \* topics with a notification that never came, not drained since

redis == <<stored, ttl, stack, channel, subscribed>>
requests == <<pc, batch, pos, ignored>>
handler == <<wsPc, wsTopic, wsEntry>>
fates == <<sent, expired, lost>>
vars == <<redis, requests, handler, known, pushed, fates, missed>>

Working == {"hset", "expire", "get", "push", "publish"}
Answered == {"signed", "success", "error"}
Died == {"dead", "unset"}  \* "unset": between HSET and EXPIRE

Init ==
    /\ stored = {}
    /\ ttl = [o \in Order |-> 0]
    /\ stack = [t \in Topic |-> <<>>]
    /\ channel = <<>>
    /\ subscribed = FALSE
    /\ pc = [r \in Request |-> "new"]
    /\ batch = [r \in Request |-> <<>>]
    /\ pos = [r \in Request |-> 1]
    /\ ignored = {}
    /\ wsPc = "idle" /\ wsTopic = None /\ wsEntry = None
    /\ known = {}
    /\ pushed = {}
    /\ sent = {} /\ expired = {} /\ lost = {}
    /\ missed = {}

Current(r) == batch[r][pos[r]]
CurrentTopic(r) == TopicOf[Current(r)]
CurrentEntry(r) == [req |-> r, pos |-> pos[r], order |-> Current(r)]

(* What a Redis write does and what its caller learns: it is executed and  *)
(* answered, or it fails with an error, executed ("noreply") or not.       *)
Outcome == IF "redis" \in Failures THEN {"ok", "noreply", "failed"} ELSE {"ok"}
Executed(out) == out # "failed"

Ignore(r, failed) ==
    ignored' = IF failed THEN ignored \cup {CurrentEntry(r)} ELSE ignored

Goto(r, label) == pc' = [pc EXCEPT ![r] = label]

-----------------------------------------------------------------------------
(* Broker API: POST /sign-order                                            *)

(* SignOrder up to PubOrder: reject a bad request, else sign.              *)
SignOrder(r, o) ==
    /\ pc[r] = "new"
    /\ Goto(r, IF o \in Signable THEN "hset" ELSE "error")
    /\ batch' = [batch EXCEPT ![r] = <<o>>]
    /\ UNCHANGED <<redis, pos, ignored, handler, known, pushed, fates, missed>>

(* Faulty variant of StoreOrder: no EXPIRE follows the HSET.               *)
StoreOrderForGood(r) ==
    /\ pc[r] = "hset"
    /\ HSet(Current(r)) /\ known' = known \cup {Current(r)}
    /\ Goto(r, "signed")
    /\ UNCHANGED <<stack, pubsub, batch, pos, ignored, handler, pushed, fates,
                   missed>>

(* PubOrder, HSET.  On an error PubOrder returns at once, and its caller   *)
(* ignores the error: the client gets its signature all the same.          *)
StoreOrder(r) ==
    /\ pc[r] = "hset"
    /\ \E out \in Outcome :
          /\ IF Executed(out)
                THEN HSet(Current(r)) /\ known' = known \cup {Current(r)}
                ELSE UNCHANGED <<records, known>>
          /\ Ignore(r, out # "ok")
          /\ Goto(r, IF out = "ok" THEN "expire" ELSE "signed")
    /\ UNCHANGED <<stack, pubsub, batch, pos, handler, pushed, fates, missed>>

(* PubOrder, EXPIRE.  Its result is not looked at.                         *)
SetExpiry(r) ==
    /\ pc[r] = "expire"
    /\ \E out \in Outcome :
          /\ IF Executed(out) THEN ExpireKey(Current(r)) ELSE UNCHANGED records
          /\ Ignore(r, ~ Executed(out))
    /\ Goto(r, "signed")
    /\ UNCHANGED <<stack, pubsub, batch, pos, handler, known, pushed, fates,
                   missed>>

-----------------------------------------------------------------------------
(* Broker API: POST /orders-submitted                                      *)

OrdersSubmitted(r, ids) ==
    /\ pc[r] = "new"
    /\ Goto(r, IF ids = <<>> THEN "error" ELSE "get")
    /\ batch' = [batch EXCEPT ![r] = ids]
    /\ UNCHANGED <<redis, pos, ignored, handler, known, pushed, fates, missed>>

(* Faulty variant of NextOrder: the index is advanced before it is tested. *)
NextOrderTooFar(r) ==
    /\ pos' = [pos EXCEPT ![r] = @ + 1]
    /\ Goto(r, IF pos[r] < Len(batch[r]) THEN "get" ELSE "success")

(* The next id of the batch, or the answer "success".                      *)
NextOrder(r) ==
    IF pos[r] < Len(batch[r])
       THEN pos' = [pos EXCEPT ![r] = @ + 1] /\ Goto(r, "get")
       ELSE UNCHANGED pos /\ Goto(r, "success")

(* Faulty variants of LookUpOrder: the empty answer of HGETALL is not      *)
(* noticed; an unknown id is passed over.                                  *)
LookUpOrderUnchecked(r) ==
    /\ pc[r] = "get"
    /\ Goto(r, "push")
    /\ UNCHANGED <<redis, batch, pos, ignored, handler, known, pushed, fates,
                   missed>>

LookUpOrderLenient(r) ==
    /\ pc[r] = "get"
    /\ IF Current(r) \in stored THEN Goto(r, "push") /\ UNCHANGED pos ELSE NextOrder(r)
    /\ UNCHANGED <<redis, batch, ignored, handler, known, pushed, fates,
                   missed>>

(* OrderSubmission, HGETALL: an unknown or expired id ends the request.    *)
LookUpOrder(r) ==
    /\ pc[r] = "get"
    /\ \/ Current(r) \in stored /\ Goto(r, "push")
       \/ (Current(r) \notin stored \/ "redis" \in Failures) /\ Goto(r, "error")
    /\ UNCHANGED <<redis, batch, pos, ignored, handler, known, pushed, fates,
                   missed>>

(* Faulty variants of PushOrder: LPUSH is repeated until it is answered;   *)
(* only the last id of a batch is followed by a PUBLISH.                   *)
PushOrderRetried(r) ==
    /\ pc[r] = "push"
    /\ \E out \in Outcome :
          /\ IF Executed(out)
                THEN /\ LPush(CurrentTopic(r), CurrentEntry(r))
                     /\ pushed' = pushed \cup {CurrentEntry(r)}
                ELSE UNCHANGED <<stack, pushed>>
          /\ Goto(r, IF out = "ok" THEN "publish" ELSE "push")
    /\ UNCHANGED <<records, pubsub, batch, pos, ignored, handler, known, fates,
                   missed>>

PushOrderPublishLast(r) ==
    /\ pc[r] = "push"
    /\ LPush(CurrentTopic(r), CurrentEntry(r))
    /\ pushed' = pushed \cup {CurrentEntry(r)}
    /\ IF pos[r] < Len(batch[r]) THEN NextOrder(r) ELSE UNCHANGED pos /\ Goto(r, "publish")
    /\ UNCHANGED <<records, pubsub, batch, ignored, handler, known, fates,
                   missed>>

(* OrderSubmission, LPUSH.  Its result is not looked at.                   *)
PushOrder(r) ==
    /\ pc[r] = "push"
    /\ \E out \in Outcome :
          /\ IF Executed(out)
                THEN /\ LPush(CurrentTopic(r), CurrentEntry(r))
                     /\ pushed' = pushed \cup {CurrentEntry(r)}
                ELSE UNCHANGED <<stack, pushed>>
          /\ Ignore(r, ~ Executed(out))
    /\ Goto(r, "publish")
    /\ UNCHANGED <<records, pubsub, batch, pos, handler, known, fates, missed>>

(* OrderSubmission, PUBLISH: an error ends the request.                    *)
PublishOrder(r) ==
    /\ pc[r] = "publish"
    /\ \E out \in Outcome :
          /\ IF Executed(out) THEN Publish(CurrentTopic(r)) ELSE UNCHANGED pubsub
          /\ missed' = IF Executed(out) /\ subscribed
                          THEN missed
                          ELSE missed \cup {CurrentTopic(r)}
          /\ IF out = "ok" THEN NextOrder(r) ELSE UNCHANGED pos /\ Goto(r, "error")
    /\ UNCHANGED <<records, stack, batch, ignored, handler, known, pushed,
                   fates>>

(* The broker process dies with every request it serves.                   *)
BrokerCrash ==
    /\ "broker" \in Failures
    /\ \E r \in Request : pc[r] \in Working
    /\ pc' = [r \in Request |-> IF pc[r] = "expire" THEN "unset"
                               ELSE IF pc[r] \in Working THEN "dead" ELSE pc[r]]
    /\ missed' = missed \cup
          {CurrentTopic(r) : r \in {q \in Request : pc[q] = "publish"}}
    /\ UNCHANGED <<redis, batch, pos, ignored, handler, known, pushed, fates>>

-----------------------------------------------------------------------------
(* Executor websocket                                                      *)

(* StartWSServer subscribes, and the Redis client again after it lost its  *)
(* connection, once what it had received is handled: both in the goroutine *)
(* that runs the handler.  Neither looks at the stacks.                    *)
Subscribe ==
    /\ ~subscribed /\ wsPc = "idle" /\ channel = <<>>
    /\ subscribed' = TRUE
    /\ UNCHANGED <<records, stack, channel, requests, handler, known, pushed,
                   fates, missed>>

(* Faulty variant of HandleNewOrder: it skips what else has arrived.       *)
HandleNewOrderSkipping ==
    /\ wsPc = "idle"
    /\ channel # <<>>
    /\ wsPc' = "pop"
    /\ wsTopic' = Head(channel)
    /\ channel' = <<>>
    /\ UNCHANGED <<records, stack, subscribed, requests, wsEntry, known,
                   pushed, fates, missed>>

(* handleNewOrder is called with the next message.                         *)
HandleNewOrder ==
    /\ wsPc = "idle"
    /\ channel # <<>>
    /\ wsPc' = "pop"
    /\ wsTopic' = Head(channel)
    /\ channel' = Tail(channel)
    /\ UNCHANGED <<records, stack, subscribed, requests, wsEntry, known,
                   pushed, fates, missed>>

Popped(t) == IF stack[t] = <<>> THEN {} ELSE {Head(stack[t])}

(* handleNewOrder, LPOP: the loop ends when the list is empty, and just    *)
(* the same when the command fails.                                        *)
PopOrder ==
    /\ wsPc = "pop"
    /\ \/ /\ stack[wsTopic] # <<>>
          /\ LPop(wsTopic)
          /\ wsEntry' = Head(stack[wsTopic])
          /\ wsPc' = "fetch"
          /\ UNCHANGED <<wsTopic, lost, missed>>
       \/ /\ stack[wsTopic] = <<>>
          /\ wsPc' = "idle" /\ wsTopic' = None
          /\ missed' = missed \ {wsTopic}
          /\ UNCHANGED <<stack, wsEntry, lost>>
       \/ /\ \E out \in Outcome \ {"ok"} :
                IF Executed(out) /\ stack[wsTopic] # <<>>
                   THEN LPop(wsTopic) /\ lost' = lost \cup Popped(wsTopic)
                   ELSE UNCHANGED <<stack, lost>>
          /\ wsPc' = "idle" /\ wsTopic' = None
          /\ missed' = missed \cup {wsTopic}
          /\ UNCHANGED wsEntry
    /\ UNCHANGED <<records, pubsub, requests, known, pushed, sent, expired>>

(* handleOrderId, HGETALL: an expired id is skipped, and so is an id whose *)
(* lookup fails.                                                           *)
FetchOrder ==
    /\ wsPc = "fetch"
    /\ \/ /\ wsEntry.order \in stored
          /\ wsPc' = "send"
          /\ UNCHANGED <<wsEntry, expired, lost>>
       \/ /\ wsEntry.order \notin stored
          /\ wsPc' = "pop" /\ wsEntry' = None
          /\ expired' = expired \cup {wsEntry}
          /\ UNCHANGED lost
       \/ /\ "redis" \in Failures
          /\ wsPc' = "pop" /\ wsEntry' = None
          /\ lost' = lost \cup {wsEntry}
          /\ UNCHANGED expired
    /\ UNCHANGED <<redis, requests, wsTopic, known, pushed, sent, missed>>

(* Faulty variant of SendUpdate: it goes on with the id it has just sent.  *)
SendUpdateAgain ==
    /\ wsPc = "send"
    /\ sent' = sent \cup {wsEntry}
    /\ wsPc' = "fetch"
    /\ UNCHANGED <<redis, requests, wsTopic, wsEntry, known, pushed, expired,
                   lost, missed>>

(* handleOrderId, the broadcast to the topic's subscribers: the step is    *)
(* the return of wg.Wait, which may never come.                            *)
SendUpdate ==
    /\ wsPc = "send"
    /\ sent' = sent \cup {wsEntry}
    /\ wsPc' = "pop" /\ wsEntry' = None
    /\ UNCHANGED <<redis, requests, wsTopic, known, pushed, expired, lost,
                   missed>>

InHand == IF wsPc \in {"fetch", "send"} THEN {wsEntry} ELSE {}
Draining == IF wsPc = "idle" THEN {} ELSE {wsTopic}
Awaited == Range(channel)

(* The websocket process dies: the messages it had received and the id it  *)
(* had popped go with it.                                                  *)
WsCrash ==
    /\ "ws" \in Failures
    /\ subscribed \/ wsPc # "idle" \/ channel # <<>>
    /\ subscribed' = FALSE
    /\ channel' = <<>>
    /\ wsPc' = "idle" /\ wsTopic' = None /\ wsEntry' = None
    /\ lost' = lost \cup InHand
    /\ missed' = missed \cup Awaited \cup Draining
    /\ UNCHANGED <<records, stack, requests, known, pushed, sent, expired>>

(* The subscription loses its connection: the messages that have not come  *)
(* to the client are gone.                                                 *)
LoseConnection ==
    /\ "redis" \in Failures
    /\ subscribed
    /\ subscribed' = FALSE
    /\ \E n \in 0..Len(channel) :
          /\ channel' = SubSeq(channel, 1, n)
          /\ missed' = missed \cup Range(SubSeq(channel, n + 1, Len(channel)))
    /\ UNCHANGED <<records, stack, requests, handler, known, pushed, fates>>

-----------------------------------------------------------------------------
(* Time passes for the records only.                                       *)
ClockTick ==
    /\ \E o \in Order : ttl[o] > 0
    /\ Tick
    /\ UNCHANGED <<requests, handler, known, pushed, fates, missed>>

Serve(r) ==
    StoreOrder(r) \/ SetExpiry(r) \/ LookUpOrder(r) \/ PushOrder(r) \/ PublishOrder(r)

Drain == HandleNewOrder \/ PopOrder \/ FetchOrder

Next ==
    \/ \E r \in Request, o \in Order : SignOrder(r, o)
    \/ \E r \in Request, ids \in Batches : OrdersSubmitted(r, ids)
    \/ \E r \in Request : Serve(r)
    \/ BrokerCrash
    \/ Subscribe
    \/ Drain
    \/ SendUpdate
    \/ WsCrash
    \/ LoseConnection
    \/ ClockTick

Spec == Init /\ [][Next]_vars

(* Go runs every goroutine that can run, Redis answers every command and   *)
(* the container is restarted after a crash (restart: always).  Nobody     *)
(* promises that clients send requests, or that a broadcast ends: its      *)
(* writes have no deadline, so SendUpdate has no fairness.                 *)
FairSpec ==
    /\ Spec
    /\ \A r \in Request : WF_vars(Serve(r))
    /\ WF_vars(Drain)
    /\ WF_vars(Subscribe)

-----------------------------------------------------------------------------
(* Properties                                                              *)

Queued == UNION {Range(stack[t]) : t \in Topic}
Settled == sent \cup expired \cup lost

(* Every variable has its type; ttls and positions stay in their bounds.   *)
TypeOK ==
    /\ stored \in SUBSET Order
    /\ ttl \in [Order -> 0..Expiry]
    /\ stack \in [Topic -> Seq(Entry)]
    /\ channel \in Seq(Topic)
    /\ subscribed \in BOOLEAN
    /\ pc \in [Request -> {"new"} \cup Died \cup Working \cup Answered]
    /\ batch \in [Request -> Seq(Order)]
    /\ pos \in [Request -> 1..MaxBatch]
    /\ ignored \in SUBSET Entry
    /\ wsPc \in {"idle", "pop", "fetch", "send"}
    /\ wsTopic \in Topic \cup {None}
    /\ wsEntry \in Entry \cup {None}
    /\ known \in SUBSET Order
    /\ pushed \in SUBSET Entry
    /\ sent \in SUBSET Entry
    /\ expired \in SUBSET Entry
    /\ lost \in SUBSET Entry
    /\ missed \in SUBSET Topic

(* No submission is duplicated or vanishes: every entry ever pushed is in  *)
(* exactly one place, at one position of its own topic's stack, in the     *)
(* handler's hand, or settled in exactly one way.  LPUSH by concurrent     *)
(* requests, the LPOP loop of handleNewOrder and crashes of both processes *)
(* must agree on this.                                                     *)
Conservation ==
    /\ pushed = Queued \cup InHand \cup Settled
    /\ Queued \cap (InHand \cup Settled) = {}
    /\ InHand \cap Settled = {}
    /\ sent \cap (expired \cup lost) = {}
    /\ expired \cap lost = {}
    /\ \A t \in Topic :
          /\ IsInjective(stack[t])
          /\ \A e \in Range(stack[t]) : TopicOf[e.order] = t

(* Only orders the broker signed and stored reach the stacks, so only they *)
(* reach the executors: OrderSubmission's HGETALL must keep out every id   *)
(* that /sign-order never wrote, whatever ids clients submit.              *)
OnlySignedOrders == \A e \in pushed : e.order \in known /\ known \subseteq Signable

(* No lost wake-up: while a stack holds ids, a notification for its topic  *)
(* is on its way, or is being handled, or is about to be published, unless *)
(* one was lost in a failure or while the websocket was not subscribed.    *)
(* The handler sleeps on an empty LPOP, so an id pushed just then depends  *)
(* on the PUBLISH that follows every LPUSH.                                *)
NoLostWakeup ==
    \A t \in Topic : stack[t] # <<>> =>
        \/ t \in Awaited \cup Draining \cup missed
        \/ \E r \in Request : pc[r] = "publish" /\ CurrentTopic(r) = t

(* The answer of /orders-submitted tells what was done ("the response      *)
(* errors-out with the first occurrence of an error"): after "success"     *)
(* every id is on its stack, after an error every id before the failing    *)
(* one and no id behind it, except those whose LPUSH failed: its result is *)
(* not looked at, and a client is told "success" for them too.             *)
AnswerTellsWhatWasQueued ==
    \A r \in Request :
        LET At(entries) == {e.pos : e \in {x \in entries : x.req = r}}
            tried == At(pushed) \cup At(ignored)
        IN
        /\ pc[r] = "success" =>
              tried = DOMAIN batch[r] /\ At(pushed) \cap At(ignored) = {}
        /\ pc[r] = "error" => 1..(pos[r] - 1) \subseteq tried /\ tried \subseteq 1..pos[r]

(* Every order hash dies: it has a ttl, or the request that wrote it is    *)
(* about to set one, unless the broker died or Redis failed between its    *)
(* HSET and its EXPIRE, which PubOrder's callers do not notice.            *)
RecordsExpire ==
    \A o \in stored : ttl[o] > 0 \/ \E r \in Request :
        /\ batch[r] # <<>> /\ Current(r) = o
        /\ \/ pc[r] \in {"expire", "unset"}
           \/ pc[r] = "signed" /\ CurrentEntry(r) \in ignored

(* The abstract feed: what is on a stack or in the handler's hand is open. *)
Feed == INSTANCE OrderFeed WITH
    open <- Queued \cup InHand,
    published <- sent,
    givenUp <- expired \cup lost

(* The pipeline implements the feed: an update is published only for an    *)
(* open submission of a known order, once, and a submission that was given *)
(* up never comes back, whatever crashes.                                  *)
ImplementsFeed == Feed!Spec

(* The handler is in a broadcast that never ends (wg.Wait).                *)
BroadcastHangs == <>[](wsPc = "send")

(* Every id on a stack that has not missed its notification leaves the     *)
(* stack and is settled, unless a failure loses that notification or a     *)
(* broadcast hangs.                                                        *)
EveryWakeupServed ==
    \/ BroadcastHangs
    \/ \A e \in Entry :
          (e \in Queued /\ TopicOf[e.order] \notin missed)
              ~> (e \in Settled \/ TopicOf[e.order] \in missed)

(* OrdersSubmitted "adds it to the queue of order that are then published  *)
(* by the websocket": an id on a stack does not stay there for ever, if no *)
(* broadcast hangs.                                                        *)
QueuedIsSettled ==
    BroadcastHangs \/ \A e \in Entry : e \in Queued ~> e \in Settled

(* What /sign-order hands out a signature for can be submitted for the     *)
(* full expiry time, if no command of the request failed and no request    *)
(* came past its EXPIRE for the same order before: only the ttl that such  *)
(* a request left can delete the record between HSET and EXPIRE.           *)
AnsweredFor(o) == {r \in Request : pc[r] = "signed" /\ batch[r] = <<o>>}

FirstSignatureIsStored ==
    [][\A r \in Request :
          /\ pc[r] # "signed" /\ pc'[r] = "signed"
          /\ CurrentEntry(r) \notin ignored' /\ AnsweredFor(Current(r)) = {}
          => Current(r) \in stored' /\ ttl'[Current(r)] = Expiry]_vars

(* "Upon signature of a new order, order data is stored in Redis ... The   *)
(* data is set to expire after 120 seconds": when /sign-order hands out a  *)
(* signature, the order can be submitted for the full expiry time.         *)
SignedIsStored ==
    [][\A r \in Request : pc[r] # "signed" /\ pc'[r] = "signed" =>
          Current(r) \in stored' /\ ttl'[Current(r)] = Expiry]_vars
=============================================================================
