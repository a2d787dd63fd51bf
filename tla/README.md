# A TLA+ model of d8x-broker-server

This directory models the broker server: the HTTP API that signs orders and
payments for a trading back end (`src/src/api`), the websocket that tells
executors of submitted orders (`src/src/executorws`), and the Redis server the
two share (`src/src/utils/broker_types.go`), and how the two processes start,
crash and restart over their configuration and key files (`src/src/svc`,
`src/src/utils`). TLC checks small instances; TLAPS proves every safety property
that a passing run checks, and the refinement of the order feed, for every value
of the constants.

    tlc -workers 2 -config PipelineSafety.cfg MCOrderPipeline
    tlapm OrderPipelineProofs.tla

`PROJECT.json` lists the runs, the source lines of every definition, the
hazards with the properties that cover them, the faulty variants and the
theorems.

## Inventory

| Component | State it keeps | Operations | What is hard | What makes it correct |
|---|---|---|---|---|
| Order announcement and submission (`handlers.go`, `signatures.go`, `broker_types.go`) | none of its own: order hashes, stacks and messages in Redis | `SignOrder` / `PubOrder`, `OrdersSubmitted` / `OrderSubmission` | several Redis commands per request, other requests and failures between any two, ignored errors, expiry | no submission lost or duplicated, only signed orders, truthful answers, no lost wake-up, records expire |
| Order feed consumer (`server.go`, `executorws.go`) | the message and the id it works on | `StartWSServer` subscribes, `handleNewOrder`, `handleOrderId` | pub/sub keeps no copies, crashes lose what is in hand, LPOP of a stack that grows | an announced id is settled; an update at most once per submission |
| Websocket connections (`executorws.go`, `server.go`) | `Subscriptions`, `Clients`, connections | `HandleWs`, `readPump`, `writePump`, `HandleRequest`, `SubscribeOrders`, `UnsubscribeOrders`, `RemoveClient`, broadcast | two goroutines per connection plus the broadcast, no lock, peers that stall or vanish | updates only to subscribers, nothing left of dead connections, goroutines and broadcasts end |
| Payment signing (`handlers.go`, `api.go`, `signatures.go`) | `TokenApprovalTs`, the account's nonces on the chain | `SignPayment`, `ApproveToken` | concurrent requests with one account, replaced and failing transactions, unlocked map | signed only for allowed executors and approved tokens, no nonce gap, every request answered |
| Broker fee (`fee.go`) | `BrokerFeeLvlsTbps`, cached levels in Redis | `vip3ToFeeMap`, `getBrokerFeeTbps`, `getReducedBrokerFeeTbps`, `GetVip3Level`, `RestGetVip3Level` | cache with two commands per write, changing levels, failing calls, indices | the reduction of the trader's level and chain, levels expire |
| Signatures and digests (`signatures.go`, `broker_types.go`) | one wallet per chain | `CheckData`, `createOrderDigest`, `SignOrder`, SDK calls | what is signed must be what executors can ask for | an order signed under a configuration has a topic that can be subscribed to; hashes and signatures are a yes or no |
| Topic validation (`server.go`) | none | `isValidOrderTopic` | it uses the configuration of another process than the one that signed | as above |
| Configuration, start (`config.go`, `svc.go`, `env`, `cmd`) | `chainConfig.json`, `rpc.json`, the environment; in each process what it loaded | `LoadChainConfig`, `LoadRpcConfig`, `RunBroker`, `RunExecutorWs` | each process loads for itself, at its own time; partial entries; starts that fail and are repeated | a serving broker has all it needs for every chain; what is in order comes up again |
| Key file (`file_things.go`, `Encrypt`, `Decrypt`, `keygen`) | the key file, the key in memory | `LoadFromFile`, `writeToFile` | rewritten in place, errors ignored, a crash in the middle | the installed key is not lost |
| RPC client (`utils.go`) | none | `CreateRpcClient` | the url is chosen once, outside the retry loop | all good urls: always a client |
| Read-only endpoints, routing (`handlers.go`, `routes.go`) | none | `GetChainConfig`, `GetBrokerAddress`, `RegisterRoutes` | - | nothing changes state; the address is the same on all chains |
| ERC20 binding (`contracts/erc20.go`) | none | generated | - | generated code |

How they interact: `/sign-order` writes an order hash with a time to live of
120 s; `/orders-submitted` reads the hash, pushes the id on the stack of its
`perpetualId:chainId` and publishes that topic on `new-order`. The websocket's
subscription calls `handleNewOrder`, which pops the stack until it is empty,
reads each hash and broadcasts it to the `Clients` of the topic. `/sign-order`
and `/broker-fee` ask `GetVip3Level`, which caches in the same Redis under keys
of its own. `/sign-payment` touches no Redis: it uses a map of the process and
the chain. All requests use the wallets and the configuration that the process
loaded when it started; the websocket validates topics with its own copy.

## Modules

| Module | Models |
|---|---|
| `RedisStore` | the commands HSET, EXPIRE, LPUSH, LPOP, PUBLISH and the clock, as the order feed uses them (external) |
| `OrderPipeline` | composes `RedisStore` with the requests of the broker API and the handler of the websocket |
| `OrderFeed` | the abstract specification: an order is announced, submitted, then published once or given up |
| `ExecutorWs` | connections, subscriptions and the broadcast |
| `Payments` | `SignPayment` and `ApproveToken` with the chain's pool and blocks |
| `BrokerFee` | fees, VIP3 levels and their cache |
| `Deployment` | both processes from start to restart, over configuration, key file and builds; which orders are signed and which topics accepted |
| `MC...` | small instances of each |
| `OrderPipelineProofs` | theorems about `OrderPipeline`: types, what reaches a stack, conservation, wake-ups, the refinement of `OrderFeed` |
| `OrderAnswersProofs` | theorems about what `OrderPipeline` answers and what it leaves in Redis |
| `ExecutorWsProofs`, `PaymentsProofs`, `BrokerFeeProofs`, `DeploymentProofs` | theorems about the module each is named after |
| `Positions` | a lemma for two of them: a set of positions in a list has a last one |

The pipeline and the websocket meet in `handleOrderId`: `OrderPipeline` sees the
broadcast as the step `SendUpdate`, `ExecutorWs` sees the stack as a source of
broadcasts of any topic at any time (`BeginUpdate`). `Payments` and `BrokerFee`
share no state with the others. `Deployment` is what comes before the others: the
pipeline's `Signable` orders are those its `SignOrder` signs, the topics of
`ExecutorWs` those its `IsValidOrderTopic` accepts, and the restarts that the
others take as one step (`Subscribe`, `Restart`) are its `Run`.

### OrderPipeline

Each HTTP request is a goroutine with a label `pc`, the ids `batch` and the index
`pos`. One action stands for the code from one Redis command to the next:

    SignOrder -> StoreOrder (HSET) -> SetExpiry (EXPIRE) -> "signed"
    OrdersSubmitted -> LookUpOrder (HGETALL) -> PushOrder (LPUSH) -> PublishOrder (PUBLISH) -> next id
    HandleNewOrder -> PopOrder (LPOP) -> FetchOrder (HGETALL) -> SendUpdate -> PopOrder ...

`Outcome` lets each write be answered, executed without an answer, or fail;
each action then does what the code does with the error: `StoreOrder` goes on to
"signed" (the caller ignores PubOrder's error), `PushOrder` ignores it,
`PublishOrder` ends the request, `PopOrder` takes it for an empty stack.
`BrokerCrash` ends all requests, `WsCrash` loses the received messages and the
popped id, `Subscribe` is the start or restart. `LoseConnection` breaks the
connection of the subscription only: the Redis client subscribes again by itself,
in the goroutine that runs the handler, so after the messages it already has; what
had not come is gone. `Failures` selects all these. A request that dies between HSET
and EXPIRE is "unset", any other "dead". `Drain` joins the steps of the handler that
Redis answers; `SendUpdate` is the return of `wg.Wait` and apart from them, because it
may never come.

`ignored`, `known`, `pushed`, `sent`, `expired`, `lost` and `missed` are history:
they guard nothing. `ignored` holds the entries one of whose commands (HSET,
EXPIRE, LPUSH) failed without the code looking at it. An entry carries the request and position that pushed it, so that two
submissions of one id can be told apart; the code pushes the id alone.

### ExecutorWs

`reader`, `pump`, `bPc` and `send` are the labels of `readPump`, `writePump`, the
broadcast in `handleOrderId` and its `SendWithWait` goroutines. A label such as
"add" means that the goroutine is about to access a Go map; `Writes` and `Reads`
name the map, and `MapFault` ends the process when two accesses conflict, one of
the outcomes the Go runtime can produce - the other outcome is that they happen
one after the other. A write to a connection has a beginning and an end, so two
writers can collide; gorilla may then panic (`WritePanic`), which the http server
recovers in `readPump` only. `maps[t]` keeps every `Clients` map made for a topic,
because a goroutine may hold one that has been replaced. `RemoveClient` is one
step per topic. Ids of connections are unique (uuid), so a client is used once.
`UnsubscribeOrders` is one step: its lookup and its deletion are not split, and
neither are the two lookups of `CheckTopic`. Peers leave; they stop reading, with or
without pongs ("pongs", "stalled"), and read on. `readPump` ends when its peer is
silent (`Silent`: no pong for `pongWait`) or sends more than `maxMessageSize` bytes
(`MessageTooLong`). What an executor knows and what the server does are two histories:
`acked` grows with an acknowledgement and shrinks only with the client's own
unsubscription (a crash ends every connection and all of it); `member` follows the
maps, so `RemoveClient` by either goroutine shrinks it too. `entitled` is taken from
`member`.

### Payments

`now` and `approvalTs` are the time and the map `TokenApprovalTs`; a request goes
through "cache", "nonce", "send", "wait", "stamp" and "sign". The pending nonce is
the number of the account's transactions in pool and blocks. The pool may take a
transaction in place of one with the same nonce, as nodes do for a higher price,
or refuse it; a mined transaction may fail. The node may also take a transaction and
the RPC return an error for it, so that a refused request leaves one behind. Every
refusal the code can give is a disjunct that ends in "refused".

### BrokerFee

`vip3ToFeeMap` is translated with its loop from k = 1 and its last-one-wins for a
chain that is named twice; percentages are integers, a part that does not parse is
`None`. Division truncates as Go's does (`Hundredth`) and `uint16` wraps (`% 2^16`).
`GetVip3Level` is one step per call: "get", "rest", "set", "expire", then "fee".
`Levels` are the levels that the service may give; the code checks none of them, and
they may be below 0. An empty list of fees and a level below 0 end in "panicked". `BrokerCrash` ends all requests; the levels
stay in Redis. `reported` and `skipped` are history.

### Deployment

Two processes, "broker" and "executorws", go through the steps of `RunBroker` and
`RunExecutorWs`:

    Start -> LoadChainConfig -> LoadRpcConfig -> ReadKey -> TruncateKeyFile -> WriteKeyFile -> CreatePen -> "redis" -> "serving"
    Start -> LoadChainConfig -> "redis" -> "serving"

A step whose input is bad ends the process (`Exit`), which forgets its memory; the
files stay. `ReadKey` goes to the rewriting only if the file holds a plain key
("0x..."). `os.WriteFile` truncates, then writes: two steps, either may fail
(`KeyFileFails`) and the error is only logged, so the broker goes on with the key in
memory. Encryption is a record of key and build: `Decrypted` gives the key back to
the build with the same embedded `ranky.txt`, and nothing to another, or to a build
whose text has no length AES takes. `CreatePen` can succeed or fail when only
some of a chain's urls can be dialled, because `CreateRpcClient` chooses one before
its retry loop. `Crash` is any other end of a process. `EditConfig`, `InstallKey`
and `Redeploy` are the operator; a new image may hold any build, the same one or one
that ran before. `SignOrder` is the part of `/sign-order` that depends
on what was loaded, `IsValidOrderTopic` what the websocket answers to a subscription.
`signed`, `given` (the key installed last), `disturbed` and `version` are history.
`disturbed` is set when the rewriting is cut short, fails, races with the operator or is
done by a build that cannot encrypt, and cleared when a key is installed.

## Runs

| Run | Instance | Shows |
|---|---|---|
| `pipeline_safety` | 3 requests, 2 topics, 3 ids (one never signed), batches of 1 and 2, expiry of 2 ticks, every failure | `TypeOK`, `Conservation`, `OnlySignedOrders`, `NoLostWakeup`, `RecordsExpire`, `AnswerTellsWhatWasQueued`, `FirstSignatureIsStored`, refinement of `OrderFeed` |
| `pipeline_liveness` | the same, expiry 1, both processes may crash, fair | `EveryWakeupServed` |
| `pipeline_stranded` | no failure, no broadcast that hangs | violated: an id submitted before the websocket subscribes stays on its stack |
| `pipeline_resign` | no failure | violated: HSET of a second `/sign-order`, expiry, EXPIRE of nothing |
| `ws_safety` | 2 connections, 1 topic, 1 broadcast, 2 requests, peers that stall and read on | `TypeOK`, `UpdatesOnlyToSubscribers`, `StoppedIsForgotten`, `SendsBelongToBroadcast`, `AckedUnlessReplaced` |
| `ws_liveness` | 1 connection, 2 topics, 2 broadcasts, 3 requests, a peer that leaves, stalls or sends pongs without reading, fair | `PumpFollowsReader`, `PanickedIsForgotten`, `UpdateEnds` |
| `ws_ack_lost` | as `ws_safety`, 3 requests, peers that leave | violated: an acknowledged client is not among the subscribers |
| `payments_safe` | 3 requests, 6 payments, 2 tokens, 1 configured chain, expiry 1, fair | `TypeOK`, `SignedIsBacked`, `NoNonceGap`, `PaymentAnswered` |
| `payments_unapproved` | the same | violated: signed although the approval failed |
| `fee_safe` | 2 requests, 2 traders, 2 chains, 4 settings (one with a single percentage and one above 100), levels -1, 0 and 2, every failure | `TypeOK`, `ReductionIsEarned`, `LevelExpires`, `SanePricesAreSafe` |
| `fee_level_one` | 1 request, levels 0 to 2 | violated: level 1 pays the fee of level 2 |
| `deployment_safe` | 4 chain and 4 rpc files, 2 keys (one is none), 2 builds (one with a short key), 7 orders, 2 edits, 1 fault, 1 signature, fair | `TypeOK`, `ServedIsComplete`, `KeySurvives`, `SignedTopicIsAccepted`, `ServesAgain` |

The five violations are described under "findings" in `PROJECT.json`. Two of them
have a counterpart that holds and says how far they reach: `FirstSignatureIsStored`
confines `pipeline_resign` to an order that was signed before (only the time to live
that an earlier request set can delete the record between HSET and EXPIRE), and
`AckedUnlessReplaced` confines a lost acknowledgement to two cases: `ws_ack_lost`, a topic
for which two connections made a `Clients` map; and a client whose own `writePump` gave
it up, because a ping could not be written while the peer stalled, and which reads on
(until `readPump`'s deadline passes, no pings being sent any more, its executor takes
itself for subscribed; with pongs of its own accord, longer). No removal of another
client, however it interleaves, costs a client its subscription.

Bounds. Three requests are one that signs and two that submit (or two that sign
and one that submits): the hazards of the pipeline are between two writers of
one stack and the handler, or between a record and two requests. Two topics are
needed for a batch that spreads. Two connections are the two that race for a
topic; two messages let both subscribe, or one subscribe and unsubscribe, around a
broadcast, and connections end without one. (Longer conversations multiply the states;
the five theorems about `ExecutorWs` hold for every number of messages.) In `ws_safety` peers stall but do not leave: whatever the server does
about a peer that left it may do about one that stalled (a write that fails is one that
ends while the peer reads for a moment), so leaving adds states but no behaviour of the
maps and goroutines; in `ws_liveness` and `ws_ack_lost` peers leave. Level 2 is the last of one chain's list and beyond the other's; level -1 is what
the index cannot take. Three payments are two that get one nonce and a third that comes after
them. `MaxUpdates`, `MaxRequests` and `MaxTime` bound counters in guards; requests
and connections are used once, so the systems do stop and deadlock is not checked.
Symmetry (connections, topics; requests, traders) is used in safety runs only. In `deployment_safe` two edits are a
file and then another, or a key and then a build; one fault is what separates a key
file that was rewritten from one that was lost; one signature is enough for a
property about each signed order. Each file variant has a purpose: unreadable, in
order, an entry without executors that a later entry replaces (or not), a chain the
SDK does not know; and one bad url beside a good one, a bad url alone, an empty
list that replaces a good one.

Fairness. Go runs every goroutine that can run, Redis answers every command, and
docker-compose restarts containers (`restart: always`): weak fairness of each
request's own steps, of the handler's (`Drain`) and of `Subscribe`. A broadcast need not
end: `wg.Wait` and the writes it waits for have no deadline, `ExecutorWs` shows when it
hangs, so `SendUpdate` has no fairness and `EveryWakeupServed` and `QueuedIsSettled` are
about behaviours in which no broadcast hangs (`BroadcastHangs`). In `ExecutorWs` the ping
ticker and the read deadline fire (weak fairness of both pumps), and a write
finishes if the peer reads again and again (strong fairness of `EndReply` and
`EndSend`). In `Payments` blocks are produced. In `Deployment` a process that ended
is started again and a running one runs on (weak fairness of `Run`); nothing is
assumed of which url is chosen, so `ServesAgain` asks for good urls only. Clients,
peers, clocks, VIP3, the operator and failures get no fairness.

What the properties do not say. Errors that the code ignores are exceptions the
properties name: `AnswerTellsWhatWasQueued` counts an id whose LPUSH failed among
those the client was told "success" for; `RecordsExpire` and `LevelExpires` let a
key live for ever whose EXPIRE failed or whose writer died before it. For the hazards
that are exceptions, "hazards" in `PROJECT.json` names no property but says so. The client of
`/sign-order` gets a signature even if HSET failed. `EveryWakeupServed` is about
topics that have not missed a message, while no broadcast hangs. `UpdateEnds` exempts the case that `readPump`
is itself in a write to the stalled peer: no write has a deadline (`writeWait` is
used for pings only), so then nobody closes the connection and the broadcast, and
with it all updates, can hang. It also exempts a peer that does not read but sends
pongs, which move the read deadline on for ever. `PanickedIsForgotten` needs a running `writePump`: it
returns after one ping that failed, and if the peer comes back and subscribes again
before `readPump` panics, nobody removes that client until the process ends.
`PaymentAnswered` exempts a transaction that was replaced: `WaitMined` then waits
for ever. `SanePricesAreSafe` asks for at least two percentages per chain within
0..100; with one percentage a trader with a level gets a panic, beyond 100 a fee that
wrapped; and a level below 0 panics whatever the list is. `ReductionIsEarned` bounds
reductions from above only: a level that is out of date, or 0 because the service
answered with an error, is kept for a week. `KeySurvives` exempts a rewriting that was
cut short, failed, raced with the operator or was done by a build that cannot encrypt:
the key is then lost when the broker ends. While a build is deployed that did not
encrypt the file the key cannot be read either; it can again when the build that did
comes back. `SignedTopicIsAccepted` exempts perpetual ids below 100000, which
the broker signs and queues, the websocket refuses, and the README shows in its
example (10001). `ServesAgain` needs every listed url to be good: one that is not
can make start after start fail. The order of updates is that of the stack, last in
first out.

## Proofs

Each theorem below is proved for all values of the constants: any sets of orders,
topics, requests, connections, chains or files, any bound, expiry time and choice of
failures. Each is `Spec => []P` for the property P, but for `Implementation`
(`Spec => ImplementsFeed`) and `FirstSignature` (`Spec => FirstSignatureIsStored`, which
is about steps). Run `tlapm` on the module; no lemma is taken on trust.

| Module | Theorem | Property |
|---|---|---|
| `OrderPipelineProofs` | `TypeCorrect` | `TypeOK` |
| | `SignedOnly` | `OnlySignedOrders` |
| | `Conserved` | `Conservation` |
| | `WakeupsKept` | `NoLostWakeup` |
| | `Implementation` | `ImplementsFeed` |
| `OrderAnswersProofs` | `AnswerTells` | `AnswerTellsWhatWasQueued` |
| | `HashesDie` | `RecordsExpire` |
| | `FirstSignature` | `FirstSignatureIsStored` |
| `ExecutorWsProofs` | `TypeCorrect` | `TypeOK` |
| | `OnlySubscribers` | `UpdatesOnlyToSubscribers` |
| | `Forgotten` | `StoppedIsForgotten` |
| | `Serialised` | `SendsBelongToBroadcast` |
| | `Kept` | `AckedUnlessReplaced` |
| `PaymentsProofs` | `TypeCorrect` | `TypeOK` |
| | `Backing` | `SignedIsBacked` |
| | `Gapless` | `NoNonceGap` |
| `BrokerFeeProofs` | `TypeCorrect` | `TypeOK` |
| | `Earned` | `ReductionIsEarned` |
| | `Expire` | `LevelExpires` |
| | `SaneIsSafe` | `SanePricesAreSafe` |
| `DeploymentProofs` | `TypeCorrect` | `TypeOK` |
| | `Complete` | `ServedIsComplete` |
| | `Survives` | `KeySurvives` |
| | `Accepted` | `SignedTopicIsAccepted` |

Assumptions on the constants are the `ASSUME`s of the modules, which TLC evaluates in
every run. They say of what kind a constant is: bounds are natural numbers, an expiry
time is positive, `None` is not a value, a payment names a chain and a token, a file is
a list, a chain id that the SDK knows is positive, a perpetual id is an integer,
percentages and levels are integers (what `Atoi` and JSON give), a part of the setting has at least one of
them (what `Split` gives), the base fee fits into `uint16`.

### OrderPipeline

The properties are not inductive alone. `Shape` adds to `TypeOK` that
a working request's position lies in its batch and that the handler has a topic
and an entry when its label says so. `KnownOK` says that stored orders are known
and that a request about to push has seen its order stored, which carries
`OnlySignedOrders` over PushOrder. `Unpushed` says that an entry a request has not
come to is in no history: this is what makes a pushed entry new, and without it
LPUSH could put a second copy on a stack, or bring back one that was settled.
With it `Conservation` is inductive: each action either leaves the places of an
entry alone or moves one entry from one place to the next. `NoLostWakeup` is
inductive relative to `Shape`: whoever takes a topic out of `channel`, or leaves
"publish", puts it where the disjunction finds it, and the handler goes back to
"idle" only on an empty stack or marks the topic as missed. `Implementation` uses
`Conservation` and `Unpushed` to show that each step is a step of `OrderFeed` or
leaves its variables unchanged; the mapping is `Feed` in `OrderPipeline`. The lemmas
about lists (`PushedList`, `PoppedList`, `AppendedList`, `SplitList`) say what LPUSH,
LPOP, PUBLISH and a broken connection keep of a list.

`AnswerTells` needs to know at every label which ids of the batch were tried so far
(`AnswersOK`): the answer alone says nothing of how a request came to it.
`RecordsExpire` is inductive with `Shape`; the delicate step is HSET on a record whose
time to live another request is about to set. `FirstSignature` needs `SigningOK`: a
time to live that runs was set by a request that is answered, and a request about to
call EXPIRE finds its record unless such a request exists. So the clock never deletes
the record of a first signing before its EXPIRE.

### ExecutorWs

`ExecutorWsInv` joins four parts. `Shape` (types; a goroutine that handles a message has
a topic; the `Clients` map it holds, and the one the broadcast ranges over, exist):
without it a write through a stale index could go anywhere. `MembersOK`: whoever is in a
map that `Subscriptions` holds is a member, and all that a broadcast may still find in
its map were members since it began; of a replaced map the first is not true, which is
why the second is a part of its own. `ForgottenOK`: while `readPump` is in
`RemoveClient`, every topic that still lists its client is one it has still to come to,
also a topic that is made meanwhile. `SendsBelongToBroadcast` is inductive with `Shape`.
`Kept` uses two more: `EndsOK` (the goroutines of a connection start with it, and when
`readPump` has stopped it is closed) and `KeptOK`: a client that was acknowledged for a topic is in one of
its maps, the last or a replaced one, until `RemoveClient` is called
for it by either goroutine (`Removed`). `MapWritten`, `Deleted`, `Created` and `Added` say what the
four accesses do to the maps, including the ones they do not name.

### Payments

`PaymentsInv`: `Shape` (types; a request that works was found in order; transactions are
of requests that sent them, and finitely many), `BackedOK` and `NoncesOK`. `BackedOK`
says that a time stamp other than 0 has an approval for its key in a block, and that a
request about to stamp has its own; `now >= Expiry` keeps the initial 0 from passing
for a recent stamp. `NoncesOK` adds to `NoNonceGap` that nonces of a chain are
distinct, and that a nonce read but not yet used is at most the number of the chain's
transactions. So a send either extends the run by one (`RunExtended`) or takes the place
of a transaction with its nonce, whichever of the racing requests comes first.

### BrokerFee

`FeeInv`: `Shape` (types; the price list is what the setting gives; a request has no
answer before its end; levels are integers) and `LevelsEarned` (a level above 0, cached or in hand, was
reported for that trader) with the three properties. `ReducedType` and `FeesType` show
that conversions to `uint16` keep every fee in range, for any percentage, and `SaneFee`
that a sane percentage does not wrap and that only a level below 0 leaves the list.

### Deployment

`DeploymentInv`: `Shape`, `PenOK` (from "redis" on there is one wallet per chain, with the
key in memory), `KeyOK` (unless disturbed, the file holds the installed key, in plain or encrypted by
some build, or is being rewritten by a broker that has it in memory: what is true under
any build stays true when builds change) and `ChainsAgree` (the same version
of `chainConfig.json` means the same chains: in the file, in both processes, and in what
was signed). `ChainsAgree` is what a process that loads late or restarts needs:
`SignedTopicIsAccepted` compares two processes that may never have run together.

### Checked by TLC only

Liveness under fairness is out of the prover's reach: `EveryWakeupServed`,
`PumpFollowsReader`, `PanickedIsForgotten`, `UpdateEnds`, `PaymentAnswered`,
`ServesAgain`. So are the violations, which are single counterexamples.

## Not modelled

- Hashes, signatures, cipher texts, encodings: the SDK's and Go's cryptography is a
  yes or no, or a record of what went in.
- Wording of answers and logs, HTTP status codes, the contents of an order beyond
  its id, topic and what `CheckData` and `createOrderDigest` ask of it.
- `GetChainConfig` and `formatError`, which copy what does not change. (The README's
  answer of `/chain-config` shows a chain with empty `allowedExecutors`; such an entry
  is skipped when the file is loaded.)
- The six trials of `CreateRpcClient` and the pauses between them: one step.
- A crash of Redis that loses or rolls back data: what survives is a matter of Redis'
  persistence, which the repository does not set up. Failing commands and broken
  connections are modelled.
- `contracts/erc20.go`, which is generated; `keygen`, which prints a new key.
- Which of two writers of one websocket connection gorilla lets through beyond the
  panic: a write is begun and ended, its bytes are not modelled.

## Plan

Done, in this order: `RedisStore`, `OrderPipeline`, `OrderFeed`, the proofs about the
pipeline, `ExecutorWs`, `Payments`, `BrokerFee`, `Deployment`, the failure-aware forms of
`RecordsExpire`, `AnswerTellsWhatWasQueued` and `LevelExpires`, the reconnection of the
subscription, the theorems about every other safety property, `FirstSignatureIsStored`
and `AckedUnlessReplaced` with theirs.

Next:
1. An abstract specification of `Payments` (an approval per key, then signatures) and one
   of the broadcast (members, one update at a time), with proofs that the modules
   implement them.
2. A composition of the broadcast with the pipeline: an update that was sent reached
   every client that was subscribed throughout, in a map that was not replaced.
