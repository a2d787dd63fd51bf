----------------------------- MODULE RedisStore -----------------------------
(***************************************************************************)
(* The Redis server that the broker API and the executor websocket share,  *)
(* as far as the order feed uses it: one hash per order id with a time to  *)
(* live, one list ("stack") of submitted ids per topic, and the pub/sub    *)
(* channel "new-order".  Redis itself is not in the repository: each       *)
(* operator below is one command, modelled from its uses in                *)
(* src/utils/broker_types.go and src/executorws/server.go.  Redis runs     *)
(* commands one at a time, so each is atomic.                              *)
(***************************************************************************)
EXTENDS Naturals, Sequences, Functions

CONSTANTS
    Order,   \* order ids: the keys of the order hashes
    Topic,   \* "perpetualId:chainId" strings: stack keys and messages
    Expiry   \* EXPIRY_HDATA_SEC, in clock ticks

ASSUME ExpiryAssumption == Expiry \in Nat \ {0}

VARIABLES
    stored,     \* order ids whose hash exists
    ttl,        \* ticks left of each hash, 0 when none was set
    stack,      \* the list of each topic, its left end first
    channel,    \* messages the subscriber has not handled yet
    subscribed  \* whether the executor websocket is subscribed

records == <<stored, ttl>>
pubsub == <<channel, subscribed>>

-----------------------------------------------------------------------------
(* HSET creates the key or overwrites its fields; it keeps a key's ttl.    *)
HSet(o) ==
    /\ stored' = stored \cup {o}
    /\ UNCHANGED ttl

(* EXPIRE restarts the ttl; on a key that does not exist it does nothing   *)
(* and reports no error.                                                   *)
ExpireKey(o) ==
    /\ ttl' = [ttl EXCEPT ![o] = IF o \in stored THEN Expiry ELSE 0]
    /\ UNCHANGED stored

(* One tick of the clock: a ttl that runs out deletes its key.             *)
Tick ==
    /\ stored' = stored \ {o \in Order : ttl[o] = 1}
    /\ ttl' = [o \in Order |-> IF ttl[o] > 0 THEN ttl[o] - 1 ELSE 0]
    /\ UNCHANGED <<stack, channel, subscribed>>

(* LPUSH and LPOP both work on the left end of the list.                   *)
LPush(t, e) == stack' = [stack EXCEPT ![t] = <<e>> \o @]
LPop(t) == stack' = [stack EXCEPT ![t] = Tail(@)]

(* PUBLISH reaches the connected subscriber or nobody: Redis keeps no copy *)
Publish(t) ==
    /\ channel' = IF subscribed THEN Append(channel, t) ELSE channel
    /\ UNCHANGED subscribed
=============================================================================
