----------------------------- MODULE ExecutorWs -----------------------------
(***************************************************************************)
(* The websocket server for executors.  Every connection has two           *)
(* goroutines, readPump and writePump; handleNewOrder broadcasts updates   *)
(* from a third, with one goroutine per subscriber.  They share the map    *)
(* Subscriptions and the connections, with no lock.                        *)
(*                                                                         *)
(* A goroutine at a label such as "add" is about to access a Go map, or    *)
(* the connection.  Accesses that conflict may happen one after the other, *)
(* or the Go runtime or gorilla notices and throws.                        *)
(***************************************************************************)
EXTENDS Naturals, Sequences

CONSTANTS
    Client,      \* connections; each is used once
    Topic,       \* topics that isValidOrderTopic accepts
    None,        \* no topic, or one it rejects
    MaxUpdates,  \* bound: broadcasts
    MaxRequests, \* bound: messages of the peers
    PeerFaults   \* what a peer may do: "leave", "stall", "pong"

ASSUME WsAssumption ==
    /\ None \notin Topic
    /\ MaxUpdates \in Nat /\ MaxRequests \in Nat
    /\ PeerFaults \subseteq {"leave", "stall", "pong"}

VARIABLES
    up,       \* whether the process runs
    maps,     \* every Clients map ever made for a topic; Subscriptions holds the last
    link,     \* of each connection
    peer,     \* what its other end does
    \* readPump
    reader,   \* where the goroutine is
    asked,    \* topic of the message it handles
    held,     \* index of the Clients map it holds
    toLeave,  \* topics RemoveClient has not come to yet
    requests, \* number of messages read so far
    \* writePump
    pump,     \* where the goroutine is
    toPurge,  \* topics RemoveClient has not come to yet
    \* handleOrderId and its SendWithWait goroutines
    bPc,      \* where the broadcast is
    bTopic,   \* its topic
    bHeld,    \* index of the Clients map it ranges over
    bMust,    \* clients in that map since the range began
    bSeen,    \* clients the range has produced
    send,     \* of each client, its SendWithWait goroutine
    updates,  \* number of broadcasts so far
    \* history
    acked,    \* topics whose subscription was acknowledged to a client and
              \* that it has not unsubscribed from: all its executor knows
    member,   \* topics a client was added to and is not deleted from since,
              \* be it by its own request or by RemoveClient
    entitled  \* clients that were members at some time of the broadcast

readers == <<reader, asked, held, toLeave, requests>>
pumps == <<pump, toPurge>>
casting == <<bPc, bTopic, bHeld, bMust, bSeen, updates>>
world == <<up, maps, link, peer>>
seen == <<acked, member, entitled>>
vars == <<world, readers, pumps, casting, send, seen>>

Init ==
    /\ up = TRUE
    /\ maps = [t \in Topic |-> <<>>]
    /\ link = [c \in Client |-> "new"]
    /\ peer = [c \in Client |-> "alive"]
    /\ reader = [c \in Client |-> "off"]
    /\ asked = [c \in Client |-> None]
    /\ held = [c \in Client |-> 0]
    /\ toLeave = [c \in Client |-> {}]
    /\ requests = 0
    /\ pump = [c \in Client |-> "off"]
    /\ toPurge = [c \in Client |-> {}]
    /\ bPc = "idle" /\ bTopic = None /\ bHeld = 0 /\ bMust = {} /\ bSeen = {}
    /\ send = [c \in Client |-> "none"]
    /\ updates = 0
    /\ acked = [c \in Client |-> {}]
    /\ member = [c \in Client |-> {}]
    /\ entitled = {}

Current(t) == Len(maps[t])
Listed == {t \in Topic : Current(t) > 0}
Clients(t, i) == IF i = 0 THEN {} ELSE maps[t][i]
Subscribers(t) == Clients(t, Current(t))

At(c, label) == reader' = [reader EXCEPT ![c] = label]
Ask(c, t) == asked' = [asked EXCEPT ![c] = t]

-----------------------------------------------------------------------------
(* HandleWs: upgrade, start writePump, run readPump                        *)
HandleWs(c) ==
    /\ up /\ link[c] = "new"
    /\ link' = [link EXCEPT ![c] = "open"]
    /\ At(c, "read")
    /\ pump' = [pump EXCEPT ![c] = "run"]
    /\ UNCHANGED <<up, maps, peer, asked, held, toLeave, toPurge, casting,
                   send, seen, requests>>

(* readPump, HandleRequest: the next message, a topic or an invalid one    *)
HandleRequest(c) ==
    /\ reader[c] = "read" /\ peer[c] # "gone"
    /\ requests < MaxRequests /\ requests' = requests + 1
    /\ \E t \in Topic \cup {None} :
          /\ Ask(c, t)
          /\ \/ At(c, IF t = None THEN "reply" ELSE "check")
             \/ t # None /\ At(c, "drop")
    /\ UNCHANGED <<world, held, toLeave, pumps, casting, send, seen>>

(* SubscribeOrders: is there a Clients map, is the client in it?           *)
CheckTopic(c) ==
    LET t == asked[c] IN
    /\ reader[c] = "check"
    /\ At(c, IF t \notin Listed THEN "create"
             ELSE IF c \in Subscribers(t) THEN "reply" ELSE "add")
    /\ held' = [held EXCEPT ![c] = IF c \in Subscribers(t) THEN 0 ELSE Current(t)]
    /\ Ask(c, IF c \in Subscribers(t) THEN None ELSE t)
    /\ UNCHANGED <<world, toLeave, pumps, casting, send, seen, requests>>

(* SubscribeOrders: a new map replaces what Subscriptions holds by now.  A *)
(* RemoveClient that ranges over Subscriptions may come to a new topic.    *)
Produced(todo, ranging, t) ==
    {[c \in Client |-> IF c \in s THEN todo[c] \cup {t} ELSE todo[c]] :
        s \in SUBSET (IF t \in Listed THEN {} ELSE ranging)}

CreateTopic(c) ==
    /\ reader[c] = "create"
    /\ maps' = [maps EXCEPT ![asked[c]] = Append(@, {})]
    /\ At(c, "addnew")
    /\ toLeave' \in Produced(toLeave, {d \in Client : reader[d] = "remove"}, asked[c])
    /\ toPurge' \in Produced(toPurge, {d \in Client : pump[d] = "remove"}, asked[c])
    /\ UNCHANGED <<up, link, peer, asked, held, pump, casting, send, seen,
                   requests>>

(* SubscribeOrders: into the map it holds, or the one it looks up again    *)
AddClient(c) ==
    LET t == asked[c]
        i == IF reader[c] = "add" THEN held[c] ELSE Current(t)
    IN
    /\ reader[c] \in {"add", "addnew"}
    /\ maps' = [maps EXCEPT ![t][i] = @ \cup {c}]
    /\ acked' = [acked EXCEPT ![c] = @ \cup {t}]
    /\ member' = [member EXCEPT ![c] = @ \cup {t}]
    /\ entitled' = IF t = bTopic THEN entitled \cup {c} ELSE entitled
    /\ At(c, "reply")
    /\ Ask(c, None) /\ held' = [held EXCEPT ![c] = 0]
    /\ UNCHANGED <<up, link, peer, toLeave, pumps, casting, send, requests>>

(* Send, from the call of WriteMessage to its return, which needs a peer   *)
(* that reads or a broken connection.                                      *)
BeginReply(c) ==
    /\ reader[c] = "reply"
    /\ At(c, "write")
    /\ UNCHANGED <<world, asked, held, toLeave, pumps, casting, send, seen,
                   requests>>

CanFinish(c) == peer[c] \in {"alive", "gone"} \/ link[c] = "closed"

EndReply(c) ==
    /\ reader[c] = "write" /\ CanFinish(c)
    /\ At(c, "read")
    /\ UNCHANGED <<world, asked, held, toLeave, pumps, casting, send, seen,
                   requests>>

(* Faulty variant of Delete: the topic is deleted instead of the client. *)
DeleteTopic(c, t) ==
    /\ maps' = [maps EXCEPT ![t] = <<>>]
    /\ bMust' = IF t = bTopic THEN {} ELSE bMust
    /\ member' = [member EXCEPT ![c] = @ \ {t}]

(* delete(clients, c), where the range is told that c is gone              *)
Delete(c, t) ==
    /\ maps' = IF t \in Listed THEN [maps EXCEPT ![t][Current(t)] = @ \ {c}] ELSE maps
    /\ bMust' = IF t = bTopic THEN bMust \ {c} ELSE bMust
    /\ member' = [member EXCEPT ![c] = @ \ {t}]

(* Faulty variant of UnsubscribeOrders: it deletes from another topic.     *)
UnsubscribeOrdersNowhere(c) ==
    /\ reader[c] = "drop"
    /\ acked' = [acked EXCEPT ![c] = @ \ {asked[c]}]
    /\ member' = [member EXCEPT ![c] = @ \ {asked[c]}]
    /\ At(c, "read") /\ Ask(c, None)
    /\ UNCHANGED <<world, held, toLeave, pumps, casting, send, entitled,
                   requests>>

UnsubscribeOrders(c) ==
    /\ reader[c] = "drop"
    /\ Delete(c, asked[c])
    /\ acked' = [acked EXCEPT ![c] = @ \ {asked[c]}]
    /\ At(c, "read") /\ Ask(c, None)
    /\ UNCHANGED <<up, link, peer, held, toLeave, pumps, bPc, bTopic, bHeld,
                   bSeen, updates, send, entitled, requests>>

(* No pong comes within pongWait: the peer left or stopped answering, or   *)
(* writePump has returned and sends no pings.  A peer may send pongs that  *)
(* nobody asked for, and is never silent then.                             *)
Silent(c) ==
    \/ peer[c] \in {"stalled", "gone"}
    \/ peer[c] = "alive" /\ pump[c] = "stopped"

(* readPump leaves its loop: RemoveClient ranges over Subscriptions.       *)
StopReading(c) ==
    /\ At(c, "remove")
    /\ toLeave' = [toLeave EXCEPT ![c] = Listed]
    /\ UNCHANGED <<world, asked, held, pumps, casting, send, seen>>

(* Faulty variants of ReadError: no RemoveClient; one that also comes to   *)
(* topics that are not order topics.                                       *)
ReadErrorKeepsClient(c) ==
    /\ reader[c] = "read" /\ Silent(c)
    /\ At(c, "remove")
    /\ UNCHANGED <<world, asked, held, toLeave, pumps, casting, send, seen,
                   requests>>

ReadErrorLeavesMore(c) ==
    /\ reader[c] = "read" /\ Silent(c)
    /\ At(c, "remove")
    /\ toLeave' = [toLeave EXCEPT ![c] = Listed \cup {None}]
    /\ UNCHANGED <<world, asked, held, pumps, casting, send, seen, requests>>

(* readPump: the connection broke, or its read deadline has passed.        *)
ReadError(c) ==
    /\ reader[c] = "read" /\ Silent(c)
    /\ StopReading(c)
    /\ UNCHANGED requests

(* readPump: the peer sent more than maxMessageSize bytes.                 *)
MessageTooLong(c) ==
    /\ reader[c] = "read" /\ peer[c] # "gone"
    /\ requests < MaxRequests /\ requests' = requests + 1
    /\ StopReading(c)

(* RemoveClient, one topic per step                                        *)
ReaderRemoves(c) ==
    /\ reader[c] = "remove"
    /\ \E t \in toLeave[c] :
          /\ Delete(c, t)
          /\ toLeave' = [toLeave EXCEPT ![c] = @ \ {t}]
    /\ UNCHANGED <<up, link, peer, reader, asked, held, pumps, bPc, bTopic,
                   bHeld, bSeen, updates, send, acked, entitled, requests>>

(* Faulty variant of ReaderStops: HandleWs does not close the connection.  *)
ReaderStopsOnly(c) ==
    /\ reader[c] = "remove" /\ toLeave[c] = {}
    /\ At(c, "stopped")
    /\ UNCHANGED <<world, asked, held, toLeave, pumps, casting, send, seen,
                   requests>>

(* readPump closes done; HandleWs returns and closes the connection.       *)
ReaderStops(c) ==
    /\ reader[c] = "remove" /\ toLeave[c] = {}
    /\ At(c, "stopped")
    /\ link' = [link EXCEPT ![c] = "closed"]
    /\ UNCHANGED <<up, maps, peer, asked, held, toLeave, pumps, casting, send,
                   seen, requests>>

-----------------------------------------------------------------------------
(* writePump                                                               *)

(* Faulty variant of PingFails: no RemoveClient.                           *)
PingFailsOnly(c) ==
    /\ pump[c] = "run"
    /\ peer[c] # "alive" \/ link[c] = "closed"
    /\ pump' = [pump EXCEPT ![c] = "remove"]
    /\ UNCHANGED <<world, readers, toPurge, casting, send, seen>>

(* The ping cannot be written: writePump calls RemoveClient too.           *)
PingFails(c) ==
    /\ pump[c] = "run"
    /\ peer[c] # "alive" \/ link[c] = "closed"
    /\ pump' = [pump EXCEPT ![c] = "remove"]
    /\ toPurge' = [toPurge EXCEPT ![c] = Listed]
    /\ UNCHANGED <<world, readers, casting, send, seen>>

PumpRemoves(c) ==
    /\ pump[c] = "remove"
    /\ \E t \in toPurge[c] :
          /\ Delete(c, t)
          /\ toPurge' = [toPurge EXCEPT ![c] = @ \ {t}]
    /\ UNCHANGED <<up, link, peer, readers, pump, bPc, bTopic, bHeld, bSeen,
                   updates, send, acked, entitled>>

(* Faulty variant of PumpStops: no return after a ping that failed.        *)
PumpStopsWhenDone(c) ==
    /\ pump[c] = "run" /\ reader[c] = "stopped"
    /\ pump' = [pump EXCEPT ![c] = "stopped"]
    /\ UNCHANGED <<world, readers, toPurge, casting, send, seen>>

(* After RemoveClient it returns, without closing the connection; it also  *)
(* returns when done is closed.                                            *)
PumpStops(c) ==
    /\ \/ pump[c] = "remove" /\ toPurge[c] = {}
       \/ pump[c] = "run" /\ reader[c] = "stopped"
    /\ pump' = [pump EXCEPT ![c] = "stopped"]
    /\ UNCHANGED <<world, readers, toPurge, casting, send, seen>>

-----------------------------------------------------------------------------
(* handleOrderId: the broadcast of an update                               *)

BeginUpdate(t) ==
    /\ up /\ bPc = "idle" /\ updates < MaxUpdates
    /\ bPc' = "range" /\ bTopic' = t /\ bHeld' = Current(t)
    /\ bMust' = Subscribers(t)
    /\ bSeen' = {}
    /\ updates' = updates + 1
    /\ entitled' = {c \in Client : t \in member[c]}
    /\ UNCHANGED <<world, readers, pumps, send, acked, member>>

(* for k, conn := range clients: start SendWithWait for the next entry     *)
RangeNext ==
    /\ bPc = "range"
    /\ \E c \in Clients(bTopic, bHeld) \ bSeen :
          /\ bSeen' = bSeen \cup {c}
          /\ send' = [send EXCEPT ![c] = "started"]
    /\ UNCHANGED <<world, readers, pumps, bPc, bTopic, bHeld, bMust, updates,
                   seen>>

(* The range ends; entries that were added meanwhile may not be produced.  *)
RangeEnds ==
    /\ bPc = "range" /\ bMust \subseteq bSeen
    /\ bPc' = "wait" /\ bMust' = {}
    /\ UNCHANGED <<world, readers, pumps, bTopic, bHeld, bSeen, updates, send,
                   seen>>

(* Faulty variant of EndUpdate: no wg.Wait.                                *)
EndUpdateAtOnce ==
    /\ bPc = "wait"
    /\ bPc' = "idle" /\ bTopic' = None /\ bHeld' = 0 /\ bMust' = {} /\ bSeen' = {}
    /\ entitled' = {}
    /\ UNCHANGED <<world, readers, pumps, updates, send, acked, member>>

(* wg.Wait, and handleNewOrder goes on                                     *)
EndUpdate ==
    /\ bPc = "wait"
    /\ \A c \in Client : send[c] = "none"
    /\ bPc' = "idle" /\ bTopic' = None /\ bHeld' = 0 /\ bMust' = {} /\ bSeen' = {}
    /\ entitled' = {}
    /\ UNCHANGED <<world, readers, pumps, updates, send, acked, member>>

(* SendWithWait, from the call of WriteMessage to its return               *)
BeginSend(c) ==
    /\ send[c] = "started"
    /\ send' = [send EXCEPT ![c] = "write"]
    /\ UNCHANGED <<world, readers, pumps, casting, seen>>

EndSend(c) ==
    /\ send[c] = "write" /\ CanFinish(c)
    /\ send' = [send EXCEPT ![c] = "none"]
    /\ UNCHANGED <<world, readers, pumps, casting, seen>>

-----------------------------------------------------------------------------
(* What goes wrong                                                         *)

Crash ==
    /\ up' = FALSE
    /\ maps' = [t \in Topic |-> <<>>]
    /\ link' = [c \in Client |-> IF link[c] = "new" THEN "new" ELSE "closed"]
    /\ reader' = [c \in Client |-> IF link[c] = "new" THEN "off" ELSE "stopped"]
    /\ pump' = [c \in Client |-> IF link[c] = "new" THEN "off" ELSE "stopped"]
    /\ bPc' = "idle" /\ bTopic' = None /\ bHeld' = 0 /\ bMust' = {} /\ bSeen' = {}
    /\ send' = [c \in Client |-> "none"]
    /\ acked' = [c \in Client |-> {}] /\ member' = [c \in Client |-> {}]
    /\ entitled' = {}
    /\ asked' = [c \in Client |-> None] /\ held' = [c \in Client |-> 0]
    /\ toLeave' = [c \in Client |-> {}] /\ toPurge' = [c \in Client |-> {}]
    /\ UNCHANGED <<peer, updates, requests>>

(* Go maps: "subs" is Subscriptions, <<t, i>> a Clients map.  Which maps a *)
(* goroutine is about to write or to read:                                 *)
Actor == (Client \X {"readPump", "writePump"}) \cup {<<None, "broadcast">>}

Leaving(a) ==
    CASE a[2] = "readPump" /\ reader[a[1]] = "remove" -> toLeave[a[1]]
      [] a[2] = "writePump" /\ pump[a[1]] = "remove" -> toPurge[a[1]]
      [] OTHER -> {}

Subscribing(a, labels) == a[2] = "readPump" /\ reader[a[1]] \in labels

Writes(a) ==
    {<<t, Current(t)>> : t \in Leaving(a)}
    \cup (IF Subscribing(a, {"create"}) THEN {<<"subs">>} ELSE {})
    \cup (IF Subscribing(a, {"add"}) THEN {<<asked[a[1]], held[a[1]]>>} ELSE {})
    \cup (IF Subscribing(a, {"addnew", "drop"})
             THEN {<<asked[a[1]], Current(asked[a[1]])>>} ELSE {})

Reads(a) ==
    (IF Leaving(a) # {} \/ Subscribing(a, {"check", "addnew", "drop"})
        THEN {<<"subs">>} ELSE {})
    \cup (IF Subscribing(a, {"check"})
             THEN {<<asked[a[1]], Current(asked[a[1]])>>} ELSE {})
    \cup (IF a[2] = "broadcast" /\ bPc = "idle" /\ updates < MaxUpdates
             THEN {<<"subs">>} ELSE {})
    \cup (IF a[2] = "broadcast" /\ bPc = "range" THEN {<<bTopic, bHeld>>} ELSE {})

(* "fatal error: concurrent map writes" and the like end the process.      *)
MapFault ==
    /\ \E a, b \in Actor : a # b /\ Writes(a) \cap (Writes(b) \cup Reads(b)) # {}
    /\ Crash

(* gorilla may panic in either of two concurrent writers.  In readPump the *)
(* http server recovers: HandleWs's deferred Close runs, and nothing else. *)
(* In a SendWithWait goroutine nobody recovers, and the process ends.      *)
WritersCollide(c) == reader[c] = "write" /\ send[c] = "write"

WritePanic(c) ==
    /\ WritersCollide(c)
    /\ \/ Crash
       \/ /\ At(c, "panicked")
          /\ link' = [link EXCEPT ![c] = "closed"]
          /\ UNCHANGED <<up, maps, peer, asked, held, toLeave, pumps, casting,
                         send, seen, requests>>

Restart ==
    /\ ~up
    /\ up' = TRUE
    /\ UNCHANGED <<maps, link, peer, readers, pumps, casting, send, seen>>

(* The peer stops reading, and either answers no ping or sends pongs all   *)
(* the same; it reads on; it leaves.                                       *)
PeerChanges(c) ==
    /\ link[c] = "open"
    /\ \/ "stall" \in PeerFaults /\ peer[c] = "alive" /\ peer' = [peer EXCEPT ![c] = "stalled"]
       \/ "pong" \in PeerFaults /\ peer[c] = "alive" /\ peer' = [peer EXCEPT ![c] = "pongs"]
       \/ peer[c] \in {"stalled", "pongs"} /\ peer' = [peer EXCEPT ![c] = "alive"]
       \/ "leave" \in PeerFaults /\ peer[c] # "gone" /\ peer' = [peer EXCEPT ![c] = "gone"]
    /\ UNCHANGED <<up, maps, link, readers, pumps, casting, send, seen>>

-----------------------------------------------------------------------------
ReadPump(c) ==
    \/ CheckTopic(c) \/ CreateTopic(c) \/ AddClient(c) \/ BeginReply(c) \/ EndReply(c)
    \/ UnsubscribeOrders(c) \/ ReadError(c) \/ ReaderRemoves(c) \/ ReaderStops(c)

WritePump(c) == PingFails(c) \/ PumpRemoves(c) \/ PumpStops(c)

Broadcast == RangeNext \/ RangeEnds \/ EndUpdate

SendWithWait(c) == BeginSend(c) \/ EndSend(c)

Next ==
    \/ \E c \in Client :
          \/ HandleWs(c) \/ HandleRequest(c) \/ MessageTooLong(c)
          \/ ReadPump(c) \/ WritePump(c)
          \/ SendWithWait(c) \/ WritePanic(c) \/ PeerChanges(c)
    \/ \E t \in Topic : BeginUpdate(t)
    \/ Broadcast
    \/ MapFault
    \/ Restart

Spec == Init /\ [][Next]_vars

(* Go runs every goroutine that can run, the ticker and the read deadline  *)
(* fire, and a peer that reads again and again lets a write finish.  Peers *)
(* and new messages are nobody's duty.                                     *)
FairSpec ==
    /\ Spec
    /\ \A c \in Client :
          /\ WF_vars(ReadPump(c)) /\ WF_vars(WritePump(c)) /\ WF_vars(SendWithWait(c))
          /\ SF_vars(EndReply(c)) /\ SF_vars(EndSend(c))
    /\ WF_vars(Broadcast)

-----------------------------------------------------------------------------
(* Properties                                                              *)

(* Every variable has its type; the goroutines are at places they have.    *)
TypeOK ==
    /\ up \in BOOLEAN
    /\ maps \in [Topic -> Seq(SUBSET Client)]
    /\ link \in [Client -> {"new", "open", "closed"}]
    /\ peer \in [Client -> {"alive", "stalled", "pongs", "gone"}]
    /\ reader \in [Client -> {"off", "read", "check", "create", "add", "addnew",
                              "reply", "write", "drop", "remove", "stopped", "panicked"}]
    /\ asked \in [Client -> Topic \cup {None}]
    /\ held \in [Client -> Nat]
    /\ toLeave \in [Client -> SUBSET Topic]
    /\ requests \in 0..MaxRequests
    /\ pump \in [Client -> {"off", "run", "remove", "stopped"}]
    /\ toPurge \in [Client -> SUBSET Topic]
    /\ bPc \in {"idle", "range", "wait"}
    /\ bTopic \in Topic \cup {None}
    /\ bHeld \in Nat
    /\ bMust \in SUBSET Client /\ bSeen \in SUBSET Client
    /\ send \in [Client -> {"none", "started", "write"}]
    /\ updates \in 0..MaxUpdates
    /\ acked \in [Client -> SUBSET Topic]
    /\ member \in [Client -> SUBSET Topic]
    /\ entitled \in SUBSET Client

(* An update goes only to clients that were subscribed to its topic when   *)
(* or after the broadcast began: not to one whose unsubscribe, or whose    *)
(* RemoveClient, was done before.  Clients maps that were replaced and     *)
(* removals by two goroutines do not break this.                           *)
UpdatesOnlyToSubscribers == bSeen \subseteq entitled

(* A connection that ended for good leaves nothing behind in the           *)
(* Subscriptions, whatever the other goroutines did in between.            *)
StoppedIsForgotten ==
    \A c \in Client, t \in Topic : reader[c] = "stopped" => c \notin Subscribers(t)

(* handleOrderId is back when its wait group is empty, and only then: no   *)
(* send of one broadcast overlaps the next, so updates of a topic reach a  *)
(* client in the order in which they were popped.                          *)
SendsBelongToBroadcast ==
    \A c \in Client : send[c] # "none" => bPc # "idle" /\ c \in bSeen

(* writePump does not outlive its connection.                              *)
PumpFollowsReader ==
    \A c \in Client : reader[c] \in {"stopped", "panicked"} ~> pump[c] = "stopped"

(* No broadcast waits for ever, so a peer that no longer reads does not    *)
(* hold up all updates: a write has no deadline of its own, but readPump's *)
(* closes the connection of a peer that is silent.  This fails where a     *)
(* readPump itself is in a write that collides with the broadcast's, and   *)
(* where a peer does not read but sends pongs, which move the deadline on. *)
UpdateEnds ==
    bPc # "idle" ~> \/ bPc = "idle"
                    \/ \E c \in Client : WritersCollide(c) \/ peer[c] = "pongs"

(* A connection whose readPump panicked is not left in the Subscriptions,  *)
(* although its RemoveClient never runs: writePump finds the connection    *)
(* closed and calls it.  (A ping that failed before, while the peer read no*)
(* more, is no help: the peer may have come back and subscribed again.)    *)
PanickedIsForgotten ==
    \A c \in Client :
        (reader[c] = "panicked" /\ pump[c] = "run")
            ~> (\A t \in Topic : c \notin Subscribers(t))

(* The connection is open at both ends and its readPump is not leaving.    *)
Lives(c) == link[c] = "open" /\ peer[c] # "gone" /\ reader[c] # "remove"

(* A client that was acknowledged, did not unsubscribe and is connected is *)
(* among the subscribers, but for two cases: a second Clients map was made *)
(* for its topic; its own writePump gave it up because a ping could not be *)
(* written, as when the peer stalled for a while behind a broadcast.  So   *)
(* nothing that other connections do to the one map, not even when they    *)
(* end, costs it its subscription.                                         *)
AckedUnlessReplaced ==
    \A c \in Client, t \in Topic : t \in acked[c] /\ Lives(c) =>
        c \in Subscribers(t) \/ Current(t) > 1 \/ pump[c] # "run"

(* "The server will respond with an acknowledgement if the subscription    *)
(* seems ok": a client that was told so, did not unsubscribe and is        *)
(* connected is among the subscribers.                                     *)
AckedIsSubscribed ==
    \A c \in Client, t \in Topic :
        t \in acked[c] /\ Lives(c) => c \in Subscribers(t)
=============================================================================
