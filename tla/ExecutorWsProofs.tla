--------------------------- MODULE ExecutorWsProofs ---------------------------
(***************************************************************************)
(* Theorems about ExecutorWs, for any connections and topics, any number   *)
(* of messages and broadcasts, and any faults of peers.                    *)
(***************************************************************************)
EXTENDS ExecutorWs, SequenceTheorems, TLAPS

(* A goroutine that handles a message has a topic; the Clients map that it *)
(* is about to write exists.                                               *)
Handling == {"check", "create", "add", "addnew", "drop"}
LabelOK(c) ==
    /\ reader[c] \in Handling => asked[c] \in Topic
    /\ reader[c] = "add" => held[c] \in 1..Current(asked[c])
    /\ reader[c] = "addnew" => Current(asked[c]) > 0
LabelsOK == \A c \in Client : LabelOK(c)

(* So does the map that a broadcast ranges over.                           *)
BroadcastOK == bPc # "idle" => bTopic \in Topic /\ bHeld \in 0..Current(bTopic)

Shape == TypeOK /\ LabelsOK /\ BroadcastOK

(* Who is in a Clients map that Subscriptions holds is a member.  Of a map *)
(* that was replaced this is not true, but all that a broadcast may find   *)
(* in its map were members meanwhile.                                      *)
MembersOK ==
    /\ \A t \in Topic : \A c \in Subscribers(t) : t \in member[c]
    /\ bPc # "idle" => Clients(bTopic, bHeld) \subseteq entitled
    /\ UpdatesOnlyToSubscribers

(* RemoveClient has still to come to every topic that its client is in.    *)
ForgottenOK ==
    /\ \A c \in Client, t \in Topic :
          reader[c] = "remove" /\ c \in Subscribers(t) => t \in toLeave[c]
    /\ StoppedIsForgotten

(* A goroutine of a connection starts with it; readPump's end closes it.   *)
EndsOK ==
    \A c \in Client :
        /\ link[c] = "new" => reader[c] = "off" /\ pump[c] = "off"
        /\ reader[c] = "stopped" => link[c] = "closed"

(* RemoveClient was called for the connection.                             *)
Removed(c) == reader[c] \in {"remove", "stopped"} \/ pump[c] \in {"remove", "stopped"}

(* An acknowledged subscription is in one of its topic's Clients maps, the *)
(* last or one that was replaced, until RemoveClient is called.            *)
KeptOK ==
    \A c \in Client, t \in Topic :
        t \in acked[c] /\ ~Removed(c) => \E i \in 1..Current(t) : c \in Clients(t, i)

ExecutorWsInv == Shape /\ MembersOK /\ ForgottenOK /\ SendsBelongToBroadcast
-----------------------------------------------------------------------------
(* What the steps do to the Clients maps                                   *)

(* Every topic that can be named has its maps.                             *)
LEMMA MapsType ==
    ASSUME TypeOK, NEW t \in Topic
    PROVE  /\ maps[t] \in Seq(SUBSET Client) /\ Current(t) \in Nat
           /\ \A i \in 0..Current(t) : Clients(t, i) \subseteq Client
<1>1. maps[t] \in Seq(SUBSET Client)
  BY DEF TypeOK
<1>2. Current(t) \in Nat /\ \A i \in 1..Current(t) : maps[t][i] \in SUBSET Client
  BY <1>1 DEF Current
<1>3. \A i \in 0..Current(t) : i = 0 \/ i \in 1..Current(t)
  BY <1>2
<1>4. QED
  BY <1>1, <1>2, <1>3 DEF Clients

(* A step that replaces one map of a topic leaves all others.              *)
LEMMA MapWritten ==
    ASSUME TypeOK, NEW t \in Topic, NEW i \in 1..Current(t), NEW s \in SUBSET Client,
           maps' = [maps EXCEPT ![t] = [maps[t] EXCEPT ![i] = s]]
    PROVE  /\ maps' \in [Topic -> Seq(SUBSET Client)]
           /\ \A u \in Topic : Current(u)' = Current(u)
           /\ Clients(t, i)' = s
           /\ \A u \in Topic : \A j \in 0..Current(u) :
                 u # t \/ j # i => Clients(u, j)' = Clients(u, j)
<1> DEFINE new == [maps[t] EXCEPT ![i] = s]
<1>1. maps[t] \in Seq(SUBSET Client) /\ Current(t) \in Nat
  BY MapsType
<1>2. /\ new \in Seq(SUBSET Client) /\ Len(new) = Len(maps[t])
      /\ \A j \in 1..Len(maps[t]) : new[j] = IF j = i THEN s ELSE maps[t][j]
  BY <1>1, ExceptSeq DEF Current
<1>3. maps' = [maps EXCEPT ![t] = new] /\ maps \in [Topic -> Seq(SUBSET Client)]
  BY DEF TypeOK
<1>4. maps'[t] = new /\ \A u \in Topic \ {t} : maps'[u] = maps[u]
  BY <1>3
<1> HIDE DEF new
<1>5. maps' \in [Topic -> Seq(SUBSET Client)]
  BY <1>2, <1>3
<1>6. \A u \in Topic : Current(u)' = Current(u)
  BY <1>2, <1>4 DEF Current
<1>7. Clients(t, i)' = s
  BY <1>1, <1>2, <1>4 DEF Clients, Current
<1>8. ASSUME NEW u \in Topic, NEW j \in 0..Current(u), u # t \/ j # i
      PROVE  Clients(u, j)' = Clients(u, j)
  <2>1. CASE u # t
    BY <1>4, <2>1 DEF Clients
  <2>2. CASE j = 0
    BY <2>2 DEF Clients
  <2>3. CASE u = t /\ j # 0
    <3>1. j \in 1..Len(maps[t])
      BY <1>1, <2>3 DEF Current
    <3>2. QED
      BY <1>2, <1>4, <1>8, <2>3, <3>1 DEF Clients
  <2>4. QED
    BY <2>1, <2>2, <2>3
<1>9. QED
  BY <1>5, <1>6, <1>7, <1>8

(* delete takes one client out of what Subscriptions holds for a topic.    *)
LEMMA Deleted ==
    ASSUME TypeOK, NEW c \in Client, NEW t \in Topic, Delete(c, t)
    PROVE  /\ maps' \in [Topic -> Seq(SUBSET Client)]
           /\ \A u \in Topic : Current(u)' = Current(u)
           /\ \A u \in Topic : \A j \in 0..Current(u) :
                 /\ Clients(u, j)' \subseteq Clients(u, j)
                 /\ Clients(u, j) \subseteq Clients(u, j)' \cup {c}
                 /\ u # t => Clients(u, j)' = Clients(u, j)
           /\ c \notin Subscribers(t)'
           /\ member' \in [Client -> SUBSET Topic]
           /\ \A d \in Client, u \in Topic :
                 u \in member'[d] <=> u \in member[d] /\ ~(d = c /\ u = t)
<1>1. /\ member' \in [Client -> SUBSET Topic]
      /\ \A d \in Client, u \in Topic :
            u \in member'[d] <=> u \in member[d] /\ ~(d = c /\ u = t)
  BY DEF Delete, TypeOK
<1>2. Current(t) \in Nat
  BY MapsType
<1>3. CASE t \notin Listed
  <2>1. Current(t) = 0 /\ maps' = maps
    BY <1>2, <1>3 DEF Delete, Listed
  <2>2. QED
    BY <1>1, <2>1 DEF TypeOK, Current, Clients, Subscribers
<1>4. CASE t \in Listed
  <2>1. PICK i \in 1..Current(t) : i = Current(t)
    BY <1>2, <1>4 DEF Listed
  <2>2. PICK s \in SUBSET Client : s = maps[t][i] \ {c}
    <3>1. maps[t][i] \subseteq Client
      BY <1>2, <2>1, MapsType DEF Clients
    <3>2. QED
      BY <3>1
  <2>3. maps' = [maps EXCEPT ![t] = [maps[t] EXCEPT ![i] = s]]
    BY <1>4, <2>1, <2>2 DEF Delete
  <2>4. /\ maps' \in [Topic -> Seq(SUBSET Client)]
        /\ \A u \in Topic : Current(u)' = Current(u)
        /\ Clients(t, i)' = s
        /\ \A u \in Topic : \A j \in 0..Current(u) :
              u # t \/ j # i => Clients(u, j)' = Clients(u, j)
    BY <2>2, <2>3, MapWritten
  <2>5. s \subseteq Clients(t, i) /\ c \notin s /\ Clients(t, i) \subseteq s \cup {c}
    BY <1>2, <2>1, <2>2 DEF Clients
  <2>6. Subscribers(t)' = s
    BY <2>1, <2>4 DEF Subscribers, Clients
  <2>7. QED
    BY <1>1, <2>4, <2>5, <2>6
<1>5. QED
  BY <1>3, <1>4

(* A new map of a topic is empty and leaves the others.                    *)
LEMMA Created ==
    ASSUME TypeOK, NEW t \in Topic, maps' = [maps EXCEPT ![t] = Append(@, {})]
    PROVE  /\ maps' \in [Topic -> Seq(SUBSET Client)]
           /\ \A u \in Topic : Current(u)' = IF u = t THEN Current(u) + 1 ELSE Current(u)
           /\ \A u \in Topic : \A j \in 0..Current(u) : Clients(u, j)' = Clients(u, j)
           /\ Subscribers(t)' = {}
<1> DEFINE new == Append(maps[t], {})
<1>1. maps[t] \in Seq(SUBSET Client) /\ Current(t) \in Nat
  BY MapsType
<1>2. /\ new \in Seq(SUBSET Client) /\ Len(new) = Len(maps[t]) + 1
      /\ \A j \in 1..Len(maps[t]) : new[j] = maps[t][j]
      /\ new[Len(maps[t]) + 1] = {}
  BY <1>1, AppendProperties
<1>3. maps' = [maps EXCEPT ![t] = new] /\ maps \in [Topic -> Seq(SUBSET Client)]
  BY DEF TypeOK
<1>4. maps'[t] = new /\ \A u \in Topic \ {t} : maps'[u] = maps[u]
  BY <1>3
<1> HIDE DEF new
<1>5. maps' \in [Topic -> Seq(SUBSET Client)]
  BY <1>2, <1>3
<1>6. \A u \in Topic : Current(u)' = IF u = t THEN Current(u) + 1 ELSE Current(u)
  BY <1>2, <1>4 DEF Current
<1>7. ASSUME NEW u \in Topic, NEW j \in 0..Current(u)
      PROVE  Clients(u, j)' = Clients(u, j)
  <2>1. CASE u # t
    BY <1>4, <2>1 DEF Clients
  <2>2. CASE j = 0
    BY <2>2 DEF Clients
  <2>3. CASE u = t /\ j # 0
    <3>1. j \in 1..Len(maps[t])
      BY <1>1, <2>3 DEF Current
    <3>2. QED
      BY <1>2, <1>4, <2>3, <3>1 DEF Clients
  <2>4. QED
    BY <2>1, <2>2, <2>3
<1>8. Subscribers(t)' = {}
  BY <1>1, <1>2, <1>4 DEF Subscribers, Clients, Current
<1>9. QED
  BY <1>5, <1>6, <1>7, <1>8

(* A client is added to one map of the topic it asked for.                 *)
LEMMA Added ==
    ASSUME Shape, NEW c \in Client, AddClient(c)
    PROVE  /\ asked[c] \in Topic
           /\ maps' \in [Topic -> Seq(SUBSET Client)]
           /\ \A u \in Topic : Current(u)' = Current(u)
           /\ \A u \in Topic : \A j \in 0..Current(u) :
                 /\ Clients(u, j) \subseteq Clients(u, j)'
                 /\ Clients(u, j)' \subseteq Clients(u, j) \cup {c}
                 /\ u # asked[c] => Clients(u, j)' = Clients(u, j)
           /\ \E t \in Topic : t = asked[c] /\ \E i \in 1..Current(t) : c \in Clients(t, i)'
<1>1. PICK t \in Topic : t = asked[c]
  BY DEF Shape, LabelsOK, LabelOK, Handling, AddClient
<1>2. Current(t) \in Nat
  BY <1>1, MapsType DEF Shape
<1>3. PICK i \in 1..Current(t) : i = IF reader[c] = "add" THEN held[c] ELSE Current(t)
  BY <1>1, <1>2 DEF Shape, LabelsOK, LabelOK, AddClient
<1>4. maps[t][i] \subseteq Client
  BY <1>2, <1>3, MapsType DEF Shape, Clients
<1>5. PICK s \in SUBSET Client : s = maps[t][i] \cup {c}
  BY <1>4
<1>6. maps' = [maps EXCEPT ![t] = [maps[t] EXCEPT ![i] = s]]
  BY <1>1, <1>3, <1>5 DEF AddClient
<1>7. /\ maps' \in [Topic -> Seq(SUBSET Client)]
      /\ \A u \in Topic : Current(u)' = Current(u)
      /\ Clients(t, i)' = s
      /\ \A u \in Topic : \A j \in 0..Current(u) :
            u # t \/ j # i => Clients(u, j)' = Clients(u, j)
  BY <1>5, <1>6, MapWritten DEF Shape
<1>8. s = Clients(t, i) \cup {c}
  BY <1>2, <1>3, <1>5 DEF Clients
<1>9. \A u \in Topic : \A j \in 0..Current(u) :
         /\ Clients(u, j) \subseteq Clients(u, j)'
         /\ Clients(u, j)' \subseteq Clients(u, j) \cup {c}
         /\ u # t => Clients(u, j)' = Clients(u, j)
  BY <1>7, <1>8
<1>10. c \in Clients(t, i)'
  BY <1>7, <1>8
<1>11. QED
  BY <1>1, <1>7, <1>9, <1>10
-----------------------------------------------------------------------------
(* Shapes                                                                  *)

(* At the start there are no maps, and no goroutine runs.                  *)
LEMMA InvInit == Init => ExecutorWsInv
<1> SUFFICES ASSUME Init
             PROVE  ExecutorWsInv
  OBVIOUS
<1>1. <<>> \in Seq(SUBSET Client) /\ \A t \in Topic : Current(t) = 0
  BY DEF Init, Current
<1>2. TypeOK
  BY <1>1, WsAssumption DEF Init, TypeOK
<1>3. LabelsOK /\ BroadcastOK
  BY DEF Init, LabelsOK, LabelOK, Handling, BroadcastOK
<1>4. MembersOK
  BY <1>1 DEF Init, MembersOK, Subscribers, Clients, UpdatesOnlyToSubscribers
<1>5. ForgottenOK /\ SendsBelongToBroadcast
  BY DEF Init, ForgottenOK, StoppedIsForgotten, SendsBelongToBroadcast
<1>6. QED
  BY <1>2, <1>3, <1>4, <1>5 DEF ExecutorWsInv, Shape

(* A crash ends everything that was under way.                             *)
LEMMA CrashStep ==
    ASSUME TypeOK, Crash
    PROVE  ExecutorWsInv'
<1>1. <<>> \in Seq(SUBSET Client) /\ \A t \in Topic : Current(t)' = 0
  BY DEF Crash, Current
<1>2. TypeOK'
  BY <1>1 DEF Crash, TypeOK
<1>3. LabelsOK' /\ BroadcastOK'
  BY DEF Crash, LabelsOK, LabelOK, Handling, BroadcastOK
<1>4. \A t \in Topic : Subscribers(t)' = {}
  BY <1>1 DEF Subscribers, Clients
<1>5. MembersOK'
  BY <1>4 DEF Crash, MembersOK, UpdatesOnlyToSubscribers
<1>6. ForgottenOK'
  BY <1>4 DEF Crash, ForgottenOK, StoppedIsForgotten
<1>7. SendsBelongToBroadcast'
  BY DEF Crash, SendsBelongToBroadcast
<1>8. QED
  BY <1>2, <1>3, <1>5, <1>6, <1>7 DEF ExecutorWsInv, Shape

(* One goroutine moves while maps are kept, or get longer.                 *)
LEMMA LabelsFrame ==
    ASSUME Shape, NEW c \in Client, LabelOK(c)',
           \A d \in Client \ {c} :
              reader'[d] = reader[d] /\ asked'[d] = asked[d] /\ held'[d] = held[d],
           \A t \in Topic : Current(t)' \in Nat /\ Current(t)' >= Current(t)
    PROVE  LabelsOK'
<1> SUFFICES ASSUME NEW d \in Client \ {c}
             PROVE  LabelOK(d)'
  BY DEF LabelsOK
<1>1. LabelOK(d) /\ \A t \in Topic : Current(t) \in Nat
  BY MapsType DEF Shape, LabelsOK
<1>2. CASE reader[d] \notin Handling
  BY <1>2 DEF LabelOK, Handling
<1>3. CASE reader[d] \in Handling
  <2>1. PICK t \in Topic : t = asked[d]
    BY <1>1, <1>3 DEF LabelOK
  <2>2. Current(t) \in Nat /\ Current(t)' \in Nat /\ Current(t)' >= Current(t)
    BY <1>1
  <2>3. asked'[d] = t /\ reader'[d] = reader[d] /\ held'[d] = held[d]
    BY <2>1
  <2>4. QED
    BY <1>1, <2>1, <2>2, <2>3 DEF LabelOK, Current
<1>4. QED
  BY <1>2, <1>3

(* A range over Subscriptions may come to a new topic, and omits nothing.  *)
LEMMA ProducedMore ==
    ASSUME NEW todo \in [Client -> SUBSET Topic], NEW ranging, NEW t \in Topic,
           NEW more \in Produced(todo, ranging, t)
    PROVE  /\ more \in [Client -> SUBSET Topic]
           /\ \A c \in Client : todo[c] \subseteq more[c]
<1>1. PICK s : more = [c \in Client |-> IF c \in s THEN todo[c] \cup {t} ELSE todo[c]]
  BY DEF Produced
<1>2. QED
  BY <1>1

(* Types, labels and the broadcast's map survive every step.               *)
LEMMA ShapeStep ==
    ASSUME Shape, Next
    PROVE  Shape'
<1>1. \A t \in Topic : Current(t) \in Nat
  BY MapsType DEF Shape
<1>2. ASSUME NEW c \in Client, HandleWs(c)
      PROVE  Shape'
  <2>1. TypeOK'
    BY <1>2 DEF Shape, TypeOK, HandleWs, At, casting, seen
  <2>2. LabelsOK' /\ BroadcastOK'
    BY <1>2 DEF Shape, TypeOK, LabelsOK, LabelOK, Handling, BroadcastOK, Current, HandleWs, At,
       casting
  <2>3. QED
    BY <2>1, <2>2 DEF Shape
<1>3. ASSUME NEW c \in Client, HandleRequest(c)
      PROVE  Shape'
  <2>1. PICK l \in {"reply", "check", "drop"}, t \in Topic \cup {None} :
           reader' = [reader EXCEPT ![c] = l] /\ asked' = [asked EXCEPT ![c] = t]
    BY <1>3 DEF HandleRequest, At, Ask
  <2>2. requests' \in 0..MaxRequests
    BY <1>3, WsAssumption DEF Shape, TypeOK, HandleRequest
  <2>3. TypeOK'
    BY <1>3, <2>1, <2>2 DEF Shape, TypeOK, HandleRequest, world, pumps, casting, seen
  <2>4. LabelsOK' /\ BroadcastOK'
    BY <1>3, WsAssumption DEF Shape, TypeOK, LabelsOK, LabelOK, Handling, BroadcastOK, Current,
       HandleRequest, At, Ask, world, casting
  <2>5. QED
    BY <2>3, <2>4 DEF Shape
<1>4. ASSUME NEW c \in Client, CheckTopic(c)
      PROVE  Shape'
  <2>1. PICK t \in Topic : t = asked[c]
    BY <1>4 DEF Shape, LabelsOK, LabelOK, Handling, CheckTopic
  <2>2. Current(t) \in Nat /\ (t \in Listed <=> Current(t) > 0)
    BY <1>1 DEF Listed
  <2>3. PICK l \in {"create", "reply", "add"}, h \in Nat, a \in {t, None} :
           /\ reader' = [reader EXCEPT ![c] = l]
           /\ held' = [held EXCEPT ![c] = h]
           /\ asked' = [asked EXCEPT ![c] = a]
           /\ l = "create" => a = t
           /\ l = "add" => a = t /\ h = Current(t) /\ h > 0
    <3>1. CASE t \notin Listed
      <4>1. Current(t) = 0 /\ Subscribers(t) = {}
        BY <2>2, <3>1 DEF Subscribers, Clients
      <4>2. /\ reader' = [reader EXCEPT ![c] = "create"]
            /\ held' = [held EXCEPT ![c] = 0]
            /\ asked' = [asked EXCEPT ![c] = t]
        BY <1>4, <2>1, <3>1, <4>1 DEF CheckTopic, At, Ask
      <4>3. QED
        BY <4>2
    <3>2. CASE t \in Listed /\ c \in Subscribers(t)
      BY <1>4, <2>1, <3>2 DEF CheckTopic, At, Ask
    <3>3. CASE t \in Listed /\ c \notin Subscribers(t)
      BY <1>4, <2>1, <2>2, <3>3 DEF CheckTopic, At, Ask
    <3>4. QED
      BY <3>1, <3>2, <3>3
  <2>4. TypeOK'
    BY <1>4, <2>3 DEF Shape, TypeOK, CheckTopic, world, pumps, casting, seen
  <2>5. LabelOK(c)'
    BY <1>4, <2>2, <2>3 DEF Shape, TypeOK, LabelOK, Handling, CheckTopic, Current, world
  <2>6. LabelsOK'
    BY <1>1, <1>4, <2>3, <2>5, LabelsFrame DEF Shape, TypeOK, CheckTopic, Current, world
  <2>7. QED
    BY <1>4, <2>4, <2>6 DEF Shape, BroadcastOK, Current, CheckTopic, world, casting
<1>5. ASSUME NEW c \in Client, CreateTopic(c)
      PROVE  Shape'
  <2>1. PICK t \in Topic : t = asked[c]
    BY <1>5 DEF Shape, LabelsOK, LabelOK, Handling, CreateTopic
  <2>2. /\ maps' \in [Topic -> Seq(SUBSET Client)]
        /\ \A u \in Topic : Current(u)' = IF u = t THEN Current(u) + 1 ELSE Current(u)
    BY <1>5, <2>1, Created DEF Shape, CreateTopic
  <2>3. toLeave' \in [Client -> SUBSET Topic] /\ toPurge' \in [Client -> SUBSET Topic]
    BY <1>5, <2>1, ProducedMore DEF Shape, TypeOK, CreateTopic
  <2>4. TypeOK'
    BY <1>5, <2>2, <2>3 DEF Shape, TypeOK, CreateTopic, At, casting, seen
  <2>5. LabelOK(c)'
    BY <1>1, <1>5, <2>1, <2>2 DEF Shape, TypeOK, LabelOK, Handling, CreateTopic, At, Current
  <2>6. \A u \in Topic : Current(u)' \in Nat /\ Current(u)' >= Current(u)
    BY <1>1, <2>2
  <2>7. \A d \in Client \ {c} :
           reader'[d] = reader[d] /\ asked'[d] = asked[d] /\ held'[d] = held[d]
    BY <1>5 DEF Shape, TypeOK, CreateTopic, At
  <2>8. LabelsOK'
    BY <2>5, <2>6, <2>7, LabelsFrame
  <2>9. BroadcastOK'
    BY <1>1, <1>5, <2>2 DEF Shape, BroadcastOK, Current, CreateTopic, casting
  <2>10. QED
    BY <2>4, <2>8, <2>9 DEF Shape
<1>6. ASSUME NEW c \in Client, AddClient(c)
      PROVE  Shape'
  <2>1. /\ asked[c] \in Topic /\ maps' \in [Topic -> Seq(SUBSET Client)]
        /\ \A u \in Topic : Current(u)' = Current(u)
    BY <1>6, Added
  <2>2. TypeOK'
    BY <1>6, <2>1 DEF Shape, TypeOK, AddClient, At, Ask, pumps, casting
  <2>3. LabelOK(c)'
    BY <1>6 DEF Shape, TypeOK, LabelOK, Handling, AddClient, At
  <2>4. LabelsOK'
    BY <1>1, <1>6, <2>1, <2>3, LabelsFrame DEF Shape, TypeOK, AddClient, At, Ask
  <2>5. BroadcastOK'
    BY <1>1, <1>6, <2>1 DEF Shape, BroadcastOK, Current, AddClient, casting
  <2>6. QED
    BY <2>2, <2>4, <2>5 DEF Shape
<1>7. ASSUME NEW c \in Client, BeginReply(c)
      PROVE  Shape'
  <2>1. TypeOK'
    BY <1>7 DEF Shape, TypeOK, BeginReply, At, world, pumps, casting, seen
  <2>2. LabelsOK' /\ BroadcastOK'
    BY <1>7 DEF Shape, TypeOK, LabelsOK, LabelOK, Handling, BroadcastOK, Current,
       BeginReply, At, world, pumps, casting, seen
  <2>3. QED
    BY <2>1, <2>2 DEF Shape
<1>8. ASSUME NEW c \in Client, EndReply(c)
      PROVE  Shape'
  <2>1. TypeOK'
    BY <1>8 DEF Shape, TypeOK, EndReply, At, world, pumps, casting, seen
  <2>2. LabelsOK' /\ BroadcastOK'
    BY <1>8 DEF Shape, TypeOK, LabelsOK, LabelOK, Handling, BroadcastOK, Current,
       EndReply, At, world, pumps, casting, seen
  <2>3. QED
    BY <2>1, <2>2 DEF Shape
<1>9. ASSUME NEW c \in Client, UnsubscribeOrders(c)
      PROVE  Shape'
  <2>1. PICK t \in Topic : t = asked[c]
    BY <1>9 DEF Shape, TypeOK, LabelsOK, LabelOK, Handling, UnsubscribeOrders
  <2>2. Delete(c, t)
    BY <1>9, <2>1 DEF UnsubscribeOrders
  <2>3. /\ maps' \in [Topic -> Seq(SUBSET Client)] /\ member' \in [Client -> SUBSET Topic]
        /\ \A u \in Topic : Current(u)' = Current(u)
    BY <2>2, Deleted DEF Shape
  <2>4. bMust' \in SUBSET Client
    BY <2>2 DEF Shape, TypeOK, Delete
  <2>5. acked' \in [Client -> SUBSET Topic]
    BY <1>9 DEF Shape, TypeOK, UnsubscribeOrders
  <2>6. TypeOK'
    BY <1>9, <2>5, <2>1, <2>3, <2>4 DEF Shape, TypeOK, UnsubscribeOrders, At, Ask, pumps
  <2>7. \A d \in Client : LabelOK(d)'
    BY <1>9, <2>3 DEF Shape, TypeOK, LabelsOK, LabelOK, Handling, Current, UnsubscribeOrders, At, Ask, pumps
  <2>8. QED
    BY <1>9, <2>3, <2>6, <2>7 DEF Shape, LabelsOK, BroadcastOK, Current, UnsubscribeOrders
<1>10. ASSUME NEW c \in Client, ReadError(c)
      PROVE  Shape'
  <2>1. TypeOK'
    BY <1>10 DEF Shape, TypeOK, ReadError, StopReading, At, Listed, world, pumps, casting, seen
  <2>2. LabelsOK' /\ BroadcastOK'
    BY <1>10 DEF Shape, TypeOK, LabelsOK, LabelOK, Handling, BroadcastOK, Current,
       ReadError, StopReading, At, Listed, world, pumps, casting, seen
  <2>3. QED
    BY <2>1, <2>2 DEF Shape
<1>11. ASSUME NEW c \in Client, MessageTooLong(c)
      PROVE  Shape'
  <2>1. requests' \in 0..MaxRequests
    BY <1>11, WsAssumption DEF Shape, TypeOK, MessageTooLong
  <2>2. TypeOK'
    BY <1>11, <2>1 DEF Shape, TypeOK, MessageTooLong, StopReading, At, Listed, world, pumps, casting,
       seen
  <2>3. LabelsOK' /\ BroadcastOK'
    BY <1>11 DEF Shape, TypeOK, LabelsOK, LabelOK, Handling, BroadcastOK, Current,
       MessageTooLong, StopReading, At, Listed, world, pumps, casting, seen
  <2>4. QED
    BY <2>2, <2>3 DEF Shape
<1>12. ASSUME NEW c \in Client, ReaderRemoves(c)
      PROVE  Shape'
  <2>1. PICK t \in Topic : t \in toLeave[c] /\ Delete(c, t) /\ toLeave' = [toLeave EXCEPT ![c] = @ \ {t}]
    BY <1>12 DEF Shape, TypeOK, LabelsOK, LabelOK, Handling, ReaderRemoves
  <2>2. Delete(c, t)
    BY <1>12, <2>1 DEF ReaderRemoves
  <2>3. /\ maps' \in [Topic -> Seq(SUBSET Client)] /\ member' \in [Client -> SUBSET Topic]
        /\ \A u \in Topic : Current(u)' = Current(u)
    BY <2>2, Deleted DEF Shape
  <2>4. bMust' \in SUBSET Client
    BY <2>2 DEF Shape, TypeOK, Delete
  <2>5. TypeOK'
    BY <1>12, <2>1, <2>3, <2>4 DEF Shape, TypeOK, ReaderRemoves, pumps
  <2>6. \A d \in Client : LabelOK(d)'
    BY <1>12, <2>3 DEF Shape, TypeOK, LabelsOK, LabelOK, Handling, Current, ReaderRemoves, pumps
  <2>7. QED
    BY <1>12, <2>3, <2>5, <2>6 DEF Shape, LabelsOK, BroadcastOK, Current, ReaderRemoves
<1>13. ASSUME NEW c \in Client, ReaderStops(c)
      PROVE  Shape'
  <2>1. TypeOK'
    BY <1>13 DEF Shape, TypeOK, ReaderStops, At, world, pumps, casting, seen
  <2>2. LabelsOK' /\ BroadcastOK'
    BY <1>13 DEF Shape, TypeOK, LabelsOK, LabelOK, Handling, BroadcastOK, Current,
       ReaderStops, At, world, pumps, casting, seen
  <2>3. QED
    BY <2>1, <2>2 DEF Shape
<1>14. ASSUME NEW c \in Client, PingFails(c)
      PROVE  Shape'
  <2>1. TypeOK'
    BY <1>14 DEF Shape, TypeOK, PingFails, Listed, world, readers, casting, seen
  <2>2. LabelsOK' /\ BroadcastOK'
    BY <1>14 DEF Shape, TypeOK, LabelsOK, LabelOK, Handling, BroadcastOK, Current,
       PingFails, Listed, world, readers, casting, seen
  <2>3. QED
    BY <2>1, <2>2 DEF Shape
<1>15. ASSUME NEW c \in Client, PumpRemoves(c)
      PROVE  Shape'
  <2>1. PICK t \in Topic : t \in toPurge[c] /\ Delete(c, t) /\ toPurge' = [toPurge EXCEPT ![c] = @ \ {t}]
    BY <1>15 DEF Shape, TypeOK, LabelsOK, LabelOK, Handling, PumpRemoves
  <2>2. Delete(c, t)
    BY <1>15, <2>1 DEF PumpRemoves
  <2>3. /\ maps' \in [Topic -> Seq(SUBSET Client)] /\ member' \in [Client -> SUBSET Topic]
        /\ \A u \in Topic : Current(u)' = Current(u)
    BY <2>2, Deleted DEF Shape
  <2>4. bMust' \in SUBSET Client
    BY <2>2 DEF Shape, TypeOK, Delete
  <2>5. TypeOK'
    BY <1>15, <2>1, <2>3, <2>4 DEF Shape, TypeOK, PumpRemoves, readers
  <2>6. \A d \in Client : LabelOK(d)'
    BY <1>15, <2>3 DEF Shape, TypeOK, LabelsOK, LabelOK, Handling, Current, PumpRemoves, readers
  <2>7. QED
    BY <1>15, <2>3, <2>5, <2>6 DEF Shape, LabelsOK, BroadcastOK, Current, PumpRemoves
<1>16. ASSUME NEW c \in Client, PumpStops(c)
      PROVE  Shape'
  <2>1. TypeOK'
    BY <1>16 DEF Shape, TypeOK, PumpStops, world, readers, casting, seen
  <2>2. LabelsOK' /\ BroadcastOK'
    BY <1>16 DEF Shape, TypeOK, LabelsOK, LabelOK, Handling, BroadcastOK, Current,
       PumpStops, world, readers, casting, seen
  <2>3. QED
    BY <2>1, <2>2 DEF Shape
<1>17. ASSUME NEW t \in Topic, BeginUpdate(t)
      PROVE  Shape'
  <2>1. Subscribers(t) \subseteq Client /\ Current(t) \in Nat
    <3>1. Current(t) \in 0..Current(t)
      BY <1>1
    <3>2. QED
      BY <1>1, <3>1, MapsType DEF Shape, Subscribers
  <2>2. updates' \in 0..MaxUpdates
    BY <1>17, WsAssumption DEF Shape, TypeOK, BeginUpdate
  <2>3. TypeOK'
    BY <1>17, <2>1, <2>2 DEF Shape, TypeOK, BeginUpdate, world, readers, pumps
  <2>4. LabelsOK' /\ BroadcastOK'
    BY <1>17, <1>1 DEF Shape, TypeOK, LabelsOK, LabelOK, Handling, BroadcastOK, Current,
       BeginUpdate, Subscribers, world, readers, pumps
  <2>5. QED
    BY <2>3, <2>4 DEF Shape
<1>18. ASSUME RangeNext
      PROVE  Shape'
  <2>1. PICK c \in Clients(bTopic, bHeld) :
           bSeen' = bSeen \cup {c} /\ send' = [send EXCEPT ![c] = "started"]
    BY <1>18 DEF RangeNext
  <2>2. c \in Client
    BY <1>18, MapsType DEF Shape, BroadcastOK, RangeNext
  <2>3. TypeOK'
    BY <1>18, <2>1, <2>2 DEF Shape, TypeOK, RangeNext, world, readers, pumps, seen
  <2>4. LabelsOK' /\ BroadcastOK'
    BY <1>18 DEF Shape, TypeOK, LabelsOK, LabelOK, Handling, BroadcastOK, Current,
       RangeNext, world, readers, pumps, seen
  <2>5. QED
    BY <2>3, <2>4 DEF Shape
<1>19. ASSUME RangeEnds
      PROVE  Shape'
  <2>1. TypeOK'
    BY <1>19 DEF Shape, TypeOK, RangeEnds, world, readers, pumps, seen
  <2>2. LabelsOK' /\ BroadcastOK'
    BY <1>19 DEF Shape, TypeOK, LabelsOK, LabelOK, Handling, BroadcastOK, Current,
       RangeEnds, world, readers, pumps, seen
  <2>3. QED
    BY <2>1, <2>2 DEF Shape
<1>20. ASSUME EndUpdate
      PROVE  Shape'
  <2>1. TypeOK'
    BY <1>20 DEF Shape, TypeOK, EndUpdate, world, readers, pumps
  <2>2. LabelsOK' /\ BroadcastOK'
    BY <1>20 DEF Shape, TypeOK, LabelsOK, LabelOK, Handling, BroadcastOK, Current,
       EndUpdate, world, readers, pumps
  <2>3. QED
    BY <2>1, <2>2 DEF Shape
<1>21. ASSUME NEW c \in Client, BeginSend(c)
      PROVE  Shape'
  <2>1. TypeOK'
    BY <1>21 DEF Shape, TypeOK, BeginSend, world, readers, pumps, casting, seen
  <2>2. LabelsOK' /\ BroadcastOK'
    BY <1>21 DEF Shape, TypeOK, LabelsOK, LabelOK, Handling, BroadcastOK, Current,
       BeginSend, world, readers, pumps, casting, seen
  <2>3. QED
    BY <2>1, <2>2 DEF Shape
<1>22. ASSUME NEW c \in Client, EndSend(c)
      PROVE  Shape'
  <2>1. TypeOK'
    BY <1>22 DEF Shape, TypeOK, EndSend, world, readers, pumps, casting, seen
  <2>2. LabelsOK' /\ BroadcastOK'
    BY <1>22 DEF Shape, TypeOK, LabelsOK, LabelOK, Handling, BroadcastOK, Current,
       EndSend, world, readers, pumps, casting, seen
  <2>3. QED
    BY <2>1, <2>2 DEF Shape
<1>23. ASSUME Restart
      PROVE  Shape'
  <2>1. TypeOK'
    BY <1>23 DEF Shape, TypeOK, Restart, readers, pumps, casting, seen
  <2>2. LabelsOK' /\ BroadcastOK'
    BY <1>23 DEF Shape, TypeOK, LabelsOK, LabelOK, Handling, BroadcastOK, Current,
       Restart, readers, pumps, casting, seen
  <2>3. QED
    BY <2>1, <2>2 DEF Shape
<1>24. ASSUME NEW c \in Client, PeerChanges(c)
      PROVE  Shape'
  <2>1. TypeOK'
    BY <1>24 DEF Shape, TypeOK, PeerChanges, readers, pumps, casting, seen
  <2>2. LabelsOK' /\ BroadcastOK'
    BY <1>24 DEF Shape, TypeOK, LabelsOK, LabelOK, Handling, BroadcastOK, Current,
       PeerChanges, readers, pumps, casting, seen
  <2>3. QED
    BY <2>1, <2>2 DEF Shape
<1>25. Crash => Shape'
  BY CrashStep DEF Shape, ExecutorWsInv
<1>26. ASSUME NEW c \in Client, WritePanic(c)
      PROVE  Shape'
  <2>1. CASE ~Crash
    <3>1. TypeOK'
      BY <1>26, <2>1 DEF Shape, TypeOK, WritePanic, At, pumps, casting, seen
    <3>2. LabelsOK' /\ BroadcastOK'
      BY <1>26, <2>1 DEF Shape, TypeOK, LabelsOK, LabelOK, Handling, BroadcastOK, Current,
         WritePanic, At, casting
    <3>3. QED
      BY <3>1, <3>2 DEF Shape
  <2>2. QED
    BY <1>25, <2>1
<1>27. QED
  BY <1>2, <1>3, <1>4, <1>5, <1>6, <1>7, <1>8, <1>9, <1>10, <1>11, <1>12, <1>13, <1>14, <1>15, <1>16, <1>17,
     <1>18, <1>19, <1>20, <1>21, <1>22, <1>23, <1>24, <1>25, <1>26
  DEF Next, ReadPump, WritePump, Broadcast, SendWithWait, MapFault
-----------------------------------------------------------------------------
(* What the map in Subscriptions and the map of the broadcast hold after a *)
(* step, if it adds at most the clients in more to the maps of topic a.    *)
LEMMA HeldAfter ==
    ASSUME Shape, NEW more, NEW a,
           \A t \in Topic : Current(t)' = Current(t),
           \A t \in Topic : \A i \in 0..Current(t) :
              /\ Clients(t, i)' \subseteq Clients(t, i) \cup more
              /\ t # a => Clients(t, i)' \subseteq Clients(t, i)
    PROVE  /\ \A t \in Topic :
                 /\ Subscribers(t)' \subseteq Subscribers(t) \cup more
                 /\ t # a => Subscribers(t)' \subseteq Subscribers(t)
           /\ bPc # "idle" /\ bTopic' = bTopic /\ bHeld' = bHeld =>
                 /\ Clients(bTopic, bHeld)' \subseteq Clients(bTopic, bHeld) \cup more
                 /\ bTopic # a => Clients(bTopic, bHeld)' \subseteq Clients(bTopic, bHeld)
<1>1. ASSUME NEW t \in Topic
      PROVE  /\ Subscribers(t)' \subseteq Subscribers(t) \cup more
             /\ t # a => Subscribers(t)' \subseteq Subscribers(t)
  <2>1. PICK i \in 0..Current(t) : i = Current(t)
    BY MapsType DEF Shape
  <2>2. Subscribers(t) = Clients(t, i) /\ Subscribers(t)' = Clients(t, i)'
    BY <2>1 DEF Subscribers, Clients
  <2>3. QED
    BY <2>2
<1>2. ASSUME bPc # "idle", bTopic' = bTopic, bHeld' = bHeld
      PROVE  /\ Clients(bTopic, bHeld)' \subseteq Clients(bTopic, bHeld) \cup more
             /\ bTopic # a => Clients(bTopic, bHeld)' \subseteq Clients(bTopic, bHeld)
  <2>1. PICK t \in Topic : t = bTopic
    BY <1>2 DEF Shape, BroadcastOK
  <2>2. PICK i \in 0..Current(t) : i = bHeld
    BY <1>2, <2>1 DEF Shape, BroadcastOK
  <2>3. Clients(bTopic, bHeld) = Clients(t, i) /\ Clients(bTopic, bHeld)' = Clients(t, i)'
    BY <1>2, <2>1, <2>2 DEF Clients
  <2>4. QED
    BY <2>1, <2>3
<1>3. QED
  BY <1>1, <1>2

(* delete, wherever it is called, takes nobody in.                         *)
LEMMA DeletedMembers ==
    ASSUME Shape, MembersOK, NEW c \in Client, NEW t \in Topic, Delete(c, t),
           UNCHANGED <<bPc, bTopic, bHeld, bSeen, entitled>>
    PROVE  MembersOK'
<1>1. /\ \A u \in Topic : Subscribers(u)' \subseteq Subscribers(u)
      /\ bPc # "idle" => Clients(bTopic, bHeld)' \subseteq Clients(bTopic, bHeld)
  <2>1. /\ \A u \in Topic : Current(u)' = Current(u)
        /\ \A u \in Topic : \A j \in 0..Current(u) : Clients(u, j)' \subseteq Clients(u, j)
    BY Deleted DEF Shape
  <2>2. QED
    BY <2>1, HeldAfter
<1>2. ASSUME NEW u \in Topic, NEW d \in Subscribers(u)'
      PROVE  u \in member'[d]
  <2>1. d \in Subscribers(u) /\ u \in member[d]
    BY <1>1, <1>2 DEF MembersOK
  <2>2. d \in Client
    <3>1. Current(u) \in 0..Current(u)
      BY MapsType DEF Shape
    <3>2. QED
      BY <2>1, <3>1, MapsType DEF Shape, Subscribers
  <2>3. ~(d = c /\ u = t)
    BY <1>2, Deleted DEF Shape
  <2>4. QED
    BY <2>1, <2>2, <2>3, Deleted DEF Shape
<1>3. QED
  BY <1>1, <1>2 DEF MembersOK, UpdatesOnlyToSubscribers

(* Nobody comes into a map but by subscribing, whatever map that is.       *)
LEMMA MembersStep ==
    ASSUME Shape, MembersOK, Next
    PROVE  MembersOK'
<1>1. UNCHANGED <<maps, member, bTopic, bHeld, bSeen, entitled>> /\ (bPc' # "idle" => bPc # "idle")
        => MembersOK'
  BY DEF MembersOK, UpdatesOnlyToSubscribers, Subscribers, Current, Clients
<1>2. ASSUME NEW c \in Client,
             \/ HandleWs(c) \/ HandleRequest(c) \/ CheckTopic(c) \/ BeginReply(c) \/ EndReply(c)
             \/ ReadError(c) \/ MessageTooLong(c) \/ ReaderStops(c) \/ PingFails(c)
             \/ PumpStops(c) \/ BeginSend(c) \/ EndSend(c) \/ PeerChanges(c)
      PROVE  MembersOK'
  BY <1>1, <1>2
  DEF HandleWs, HandleRequest, CheckTopic, BeginReply, EndReply, ReadError, MessageTooLong, StopReading,
      ReaderStops, PingFails, PumpStops, BeginSend, EndSend, PeerChanges, world, casting, seen
<1>3. RangeEnds \/ Restart => MembersOK'
  BY <1>1 DEF RangeEnds, Restart, world, casting, seen
<1>4. ASSUME NEW c \in Client, CreateTopic(c)
      PROVE  MembersOK'
  <2>1. PICK t \in Topic : t = asked[c]
    BY <1>4 DEF Shape, LabelsOK, LabelOK, Handling, CreateTopic
  <2>2. /\ \A u \in Topic : Current(u)' = IF u = t THEN Current(u) + 1 ELSE Current(u)
        /\ \A u \in Topic : \A j \in 0..Current(u) : Clients(u, j)' = Clients(u, j)
        /\ Subscribers(t)' = {}
    BY <1>4, <2>1, Created DEF Shape, CreateTopic
  <2>3. \A u \in Topic : u # t => Subscribers(u)' = Subscribers(u)
    <3> SUFFICES ASSUME NEW u \in Topic, u # t
                 PROVE  Subscribers(u)' = Subscribers(u)
      OBVIOUS
    <3>1. PICK j \in 0..Current(u) : j = Current(u)
      BY MapsType DEF Shape
    <3>2. Subscribers(u) = Clients(u, j) /\ Subscribers(u)' = Clients(u, j)'
      BY <2>2, <3>1 DEF Subscribers, Clients
    <3>3. QED
      BY <2>2, <3>2
  <2>4. bPc # "idle" => Clients(bTopic, bHeld)' = Clients(bTopic, bHeld)
    <3> SUFFICES ASSUME bPc # "idle"
                 PROVE  Clients(bTopic, bHeld)' = Clients(bTopic, bHeld)
      OBVIOUS
    <3>1. PICK u \in Topic : u = bTopic
      BY DEF Shape, BroadcastOK
    <3>2. PICK j \in 0..Current(u) : j = bHeld
      BY <3>1 DEF Shape, BroadcastOK
    <3>3. Clients(bTopic, bHeld)' = Clients(u, j)'
      BY <1>4, <3>1, <3>2 DEF CreateTopic, casting, Clients
    <3>4. QED
      BY <2>2, <3>1, <3>2, <3>3
  <2>5. UNCHANGED <<bPc, bTopic, bHeld, bSeen, member, entitled>>
    BY <1>4 DEF CreateTopic, casting, seen
  <2>6. \A u \in Topic : \A d \in Subscribers(u)' : u \in member'[d]
    BY <2>2, <2>3, <2>5 DEF MembersOK
  <2>7. QED
    BY <2>4, <2>5, <2>6 DEF MembersOK, UpdatesOnlyToSubscribers
<1>5. ASSUME NEW c \in Client, AddClient(c)
      PROVE  MembersOK'
  <2>1. PICK t \in Topic : t = asked[c]
    BY <1>5, Added
  <2>2. /\ \A u \in Topic :
              /\ Subscribers(u)' \subseteq Subscribers(u) \cup {c}
              /\ u # t => Subscribers(u)' \subseteq Subscribers(u)
        /\ bPc # "idle" =>
              /\ Clients(bTopic, bHeld)' \subseteq Clients(bTopic, bHeld) \cup {c}
              /\ bTopic # t => Clients(bTopic, bHeld)' \subseteq Clients(bTopic, bHeld)
    <3>1. /\ \A u \in Topic : Current(u)' = Current(u)
          /\ \A u \in Topic : \A j \in 0..Current(u) :
                /\ Clients(u, j)' \subseteq Clients(u, j) \cup {c}
                /\ u # t => Clients(u, j)' \subseteq Clients(u, j)
      BY <1>5, <2>1, Added
    <3>2. bTopic' = bTopic /\ bHeld' = bHeld
      BY <1>5 DEF AddClient, casting
    <3>3. PICK more : more = {c}
      OBVIOUS
    <3>4. \A u \in Topic : \A j \in 0..Current(u) :
             /\ Clients(u, j)' \subseteq Clients(u, j) \cup more
             /\ u # t => Clients(u, j)' \subseteq Clients(u, j)
      BY <3>1, <3>3
    <3>5. \A u \in Topic :
              /\ Subscribers(u)' \subseteq Subscribers(u) \cup more
              /\ u # t => Subscribers(u)' \subseteq Subscribers(u)
      BY <3>1, <3>4, HeldAfter
    <3>6. bPc # "idle" =>
              /\ Clients(bTopic, bHeld)' \subseteq Clients(bTopic, bHeld) \cup more
              /\ bTopic # t => Clients(bTopic, bHeld)' \subseteq Clients(bTopic, bHeld)
      <4> SUFFICES ASSUME bPc # "idle"
                   PROVE  /\ Clients(bTopic, bHeld)' \subseteq Clients(bTopic, bHeld) \cup more
                          /\ bTopic # t =>
                                Clients(bTopic, bHeld)' \subseteq Clients(bTopic, bHeld)
        OBVIOUS
      <4>1. PICK u \in Topic : u = bTopic
        BY DEF Shape, BroadcastOK
      <4>2. PICK j \in 0..Current(u) : j = bHeld
        BY <4>1 DEF Shape, BroadcastOK
      <4>3. Clients(bTopic, bHeld) = Clients(u, j) /\ Clients(bTopic, bHeld)' = Clients(u, j)'
        BY <3>2, <4>1, <4>2 DEF Clients
      <4>4. QED
        BY <3>4, <4>1, <4>3
    <3>7. QED
      BY <3>3, <3>5, <3>6
  <2>3. /\ member' = [member EXCEPT ![c] = @ \cup {t}]
        /\ entitled' = IF t = bTopic THEN entitled \cup {c} ELSE entitled
        /\ UNCHANGED <<bPc, bTopic, bHeld, bSeen>>
    BY <1>5, <2>1 DEF AddClient, casting
  <2>4. \A u \in Topic : \A d \in Subscribers(u)' : u \in member'[d]
    BY <2>2, <2>3 DEF Shape, TypeOK, MembersOK
  <2>5. bPc # "idle" => Clients(bTopic, bHeld)' \subseteq entitled'
    BY <2>2, <2>3 DEF MembersOK
  <2>6. QED
    BY <2>3, <2>4, <2>5 DEF MembersOK, UpdatesOnlyToSubscribers
<1>6. ASSUME NEW c \in Client, UnsubscribeOrders(c) \/ ReaderRemoves(c) \/ PumpRemoves(c)
      PROVE  MembersOK'
  <2>1. PICK t \in Topic : Delete(c, t)
    BY <1>6 DEF Shape, TypeOK, LabelsOK, LabelOK, Handling, UnsubscribeOrders, ReaderRemoves,
       PumpRemoves
  <2>2. UNCHANGED <<bPc, bTopic, bHeld, bSeen, entitled>>
    BY <1>6 DEF UnsubscribeOrders, ReaderRemoves, PumpRemoves
  <2>3. QED
    BY <2>1, <2>2, DeletedMembers
<1>7. ASSUME NEW t \in Topic, BeginUpdate(t)
      PROVE  MembersOK'
  <2>1. Subscribers(t) \subseteq {c \in Client : t \in member[c]}
    <3>1. Current(t) \in 0..Current(t)
      BY MapsType DEF Shape
    <3>2. QED
      BY <3>1, MapsType DEF Shape, MembersOK, Subscribers
  <2>2. Clients(bTopic, bHeld)' = Subscribers(t)
    BY <1>7 DEF BeginUpdate, world, Subscribers, Clients
  <2>3. QED
    BY <1>7, <2>1, <2>2
    DEF MembersOK, UpdatesOnlyToSubscribers, BeginUpdate, world, Subscribers, Current, Clients
<1>8. RangeNext => MembersOK'
  BY DEF RangeNext, MembersOK, UpdatesOnlyToSubscribers, world, seen, Subscribers, Current, Clients
<1>9. EndUpdate => MembersOK'
  BY DEF EndUpdate, MembersOK, UpdatesOnlyToSubscribers, world, Subscribers, Current, Clients
<1>10. Crash => MembersOK'
  BY CrashStep DEF Shape, ExecutorWsInv
<1>11. ASSUME NEW c \in Client, WritePanic(c)
       PROVE  MembersOK'
  BY <1>1, <1>10, <1>11 DEF WritePanic, casting, seen
<1>12. QED
  BY <1>2, <1>3, <1>4, <1>5, <1>6, <1>7, <1>8, <1>9, <1>10, <1>11
  DEF Next, ReadPump, WritePump, Broadcast, SendWithWait, MapFault

(* delete takes its client from the map in Subscriptions, and nobody into  *)
(* one.                                                                    *)
LEMMA DeletedSubscribers ==
    ASSUME Shape, NEW c \in Client, NEW t \in Topic, Delete(c, t)
    PROVE  /\ \A u \in Topic : Subscribers(u)' \subseteq Subscribers(u)
           /\ c \notin Subscribers(t)'
<1>1. /\ \A u \in Topic : Current(u)' = Current(u)
      /\ \A u \in Topic : \A j \in 0..Current(u) : Clients(u, j)' \subseteq Clients(u, j)
  BY Deleted DEF Shape
<1>2. c \notin Subscribers(t)'
  BY Deleted DEF Shape
<1>3. QED
  BY <1>1, <1>2, HeldAfter

(* RemoveClient misses no topic, not even one that comes while it runs.    *)
LEMMA ForgottenStep ==
    ASSUME Shape, ForgottenOK, Next
    PROVE  ForgottenOK'
<1>1. ASSUME \A u \in Topic : Subscribers(u)' \subseteq Subscribers(u),
             \A c \in Client : reader'[c] \in {"remove", "stopped"} => reader'[c] = reader[c],
             UNCHANGED toLeave
      PROVE  ForgottenOK'
  BY <1>1 DEF ForgottenOK, StoppedIsForgotten
<1>2. UNCHANGED maps => \A u \in Topic : Subscribers(u)' = Subscribers(u)
  BY DEF Subscribers, Clients, Current
<1>3. ASSUME NEW c \in Client,
             HandleWs(c) \/ HandleRequest(c) \/ CheckTopic(c) \/ BeginReply(c) \/ EndReply(c)
      PROVE  ForgottenOK'
  BY <1>1, <1>2, <1>3
  DEF Shape, TypeOK, HandleWs, HandleRequest, CheckTopic, BeginReply, EndReply, At, world
<1>4. ASSUME NEW c \in Client, PingFails(c) \/ PumpStops(c) \/ BeginSend(c) \/ EndSend(c)
                                  \/ PeerChanges(c)
      PROVE  ForgottenOK'
  BY <1>1, <1>2, <1>4
  DEF PingFails, PumpStops, BeginSend, EndSend, PeerChanges, readers, world
<1>5. ASSUME NEW t \in Topic, BeginUpdate(t)
      PROVE  ForgottenOK'
  BY <1>1, <1>2, <1>5 DEF BeginUpdate, readers, world
<1>6. Broadcast \/ Restart => ForgottenOK'
  BY <1>1, <1>2 DEF Broadcast, RangeNext, RangeEnds, EndUpdate, Restart, readers, world
<1>7. ASSUME NEW c \in Client, CreateTopic(c)
      PROVE  ForgottenOK'
  <2>1. PICK t \in Topic : t = asked[c]
    BY <1>7 DEF Shape, LabelsOK, LabelOK, Handling, CreateTopic
  <2>2. /\ \A u \in Topic : u # t => Current(u)' = Current(u)
        /\ \A u \in Topic : \A j \in 0..Current(u) : Clients(u, j)' = Clients(u, j)
        /\ Subscribers(t)' = {}
    BY <1>7, <2>1, Created DEF Shape, CreateTopic
  <2>3. ASSUME NEW u \in Topic
        PROVE  Subscribers(u)' \subseteq Subscribers(u)
    <3>1. CASE u = t
      BY <2>2, <3>1
    <3>2. CASE u # t
      <4>1. PICK j \in 0..Current(u) : j = Current(u)
        BY MapsType DEF Shape
      <4>2. Subscribers(u) = Clients(u, j) /\ Subscribers(u)' = Clients(u, j)'
        BY <2>2, <3>2, <4>1 DEF Subscribers, Clients
      <4>3. QED
        BY <2>2, <4>2
    <3>3. QED
      BY <3>1, <3>2
  <2>4. \A d \in Client : toLeave[d] \subseteq toLeave'[d]
    BY <1>7, <2>1, ProducedMore DEF Shape, TypeOK, CreateTopic
  <2>5. \A d \in Client : reader'[d] \in {"remove", "stopped"} => reader'[d] = reader[d]
    BY <1>7 DEF Shape, TypeOK, CreateTopic, At
  <2>6. QED
    BY <2>3, <2>4, <2>5 DEF ForgottenOK, StoppedIsForgotten
<1>8. ASSUME NEW c \in Client, AddClient(c)
      PROVE  ForgottenOK'
  <2>1. ASSUME NEW u \in Topic, NEW d \in Client \ {c}, d \in Subscribers(u)'
        PROVE  d \in Subscribers(u)
    <3>1. PICK j \in 0..Current(u) : j = Current(u)
      BY MapsType DEF Shape
    <3>2. Current(u)' = Current(u) /\ Clients(u, j)' \subseteq Clients(u, j) \cup {c}
      BY <1>8, Added
    <3>3. Subscribers(u) = Clients(u, j) /\ Subscribers(u)' = Clients(u, j)'
      BY <3>1, <3>2 DEF Subscribers, Clients
    <3>4. QED
      BY <2>1, <3>2, <3>3
  <2>2. reader'[c] = "reply" /\ \A d \in Client \ {c} : reader'[d] = reader[d]
    BY <1>8 DEF Shape, TypeOK, AddClient, At
  <2>3. toLeave' = toLeave
    BY <1>8 DEF AddClient
  <2>4. QED
    BY <2>1, <2>2, <2>3 DEF ForgottenOK, StoppedIsForgotten
<1>9. ASSUME NEW c \in Client, UnsubscribeOrders(c) \/ PumpRemoves(c)
      PROVE  ForgottenOK'
  <2>1. PICK t \in Topic : Delete(c, t)
    BY <1>9 DEF Shape, TypeOK, LabelsOK, LabelOK, Handling, UnsubscribeOrders, PumpRemoves
  <2>2. \A d \in Client : reader'[d] \in {"remove", "stopped"} => reader'[d] = reader[d]
    BY <1>9 DEF Shape, TypeOK, UnsubscribeOrders, PumpRemoves, readers, At
  <2>3. toLeave' = toLeave
    BY <1>9 DEF UnsubscribeOrders, PumpRemoves, readers
  <2>4. QED
    BY <1>1, <2>1, <2>2, <2>3, DeletedSubscribers
<1>10. ASSUME NEW c \in Client, ReadError(c) \/ MessageTooLong(c)
       PROVE  ForgottenOK'
  <2>1. \A u \in Topic : c \in Subscribers(u) => u \in Listed
    BY MapsType DEF Shape, Subscribers, Clients, Listed
  <2>2. UNCHANGED maps
    BY <1>10 DEF ReadError, MessageTooLong, StopReading, world
  <2>3. /\ reader' = [reader EXCEPT ![c] = "remove"]
        /\ toLeave' = [toLeave EXCEPT ![c] = Listed]
    BY <1>10 DEF ReadError, MessageTooLong, StopReading, At
  <2>4. QED
    BY <1>2, <2>1, <2>2, <2>3 DEF Shape, TypeOK, ForgottenOK, StoppedIsForgotten
<1>11. ASSUME NEW c \in Client, ReaderRemoves(c)
       PROVE  ForgottenOK'
  <2>1. PICK t \in Topic : Delete(c, t) /\ toLeave' = [toLeave EXCEPT ![c] = @ \ {t}]
    BY <1>11 DEF Shape, TypeOK, ReaderRemoves
  <2>2. /\ \A u \in Topic : Subscribers(u)' \subseteq Subscribers(u)
        /\ c \notin Subscribers(t)'
    BY <2>1, DeletedSubscribers
  <2>3. QED
    BY <1>11, <2>1, <2>2 DEF Shape, TypeOK, ForgottenOK, StoppedIsForgotten, ReaderRemoves
<1>12. ASSUME NEW c \in Client, ReaderStops(c)
       PROVE  ForgottenOK'
  BY <1>2, <1>12 DEF Shape, TypeOK, ForgottenOK, StoppedIsForgotten, ReaderStops, At
<1>13. Crash => ForgottenOK'
  BY CrashStep DEF Shape, ExecutorWsInv
<1>14. ASSUME NEW c \in Client, WritePanic(c)
       PROVE  ForgottenOK'
  BY <1>1, <1>2, <1>13, <1>14 DEF Shape, TypeOK, WritePanic, At
<1>15. QED
  BY <1>3, <1>4, <1>5, <1>6, <1>7, <1>8, <1>9, <1>10, <1>11, <1>12, <1>13, <1>14
  DEF Next, ReadPump, WritePump, SendWithWait, MapFault

(* A goroutine of SendWithWait starts and ends within its broadcast.       *)
LEMMA SendsStep ==
    ASSUME Shape, SendsBelongToBroadcast, Next
    PROVE  SendsBelongToBroadcast'
<1>1. UNCHANGED <<send, bPc, bSeen>> => SendsBelongToBroadcast'
  BY DEF SendsBelongToBroadcast
<1>2. ASSUME NEW c \in Client, HandleWs(c) \/ HandleRequest(c) \/ MessageTooLong(c)
                                  \/ ReadPump(c) \/ PeerChanges(c)
      PROVE  SendsBelongToBroadcast'
  BY <1>1, <1>2
  DEF HandleWs, HandleRequest, ReadPump, CheckTopic, CreateTopic, AddClient, BeginReply, EndReply,
      UnsubscribeOrders, ReadError, MessageTooLong, StopReading, ReaderRemoves, ReaderStops,
      PeerChanges, casting
<1>3. ASSUME NEW c \in Client, WritePump(c)
      PROVE  SendsBelongToBroadcast'
  BY <1>1, <1>3 DEF WritePump, PingFails, PumpRemoves, PumpStops, casting
<1>4. Restart => SendsBelongToBroadcast'
  BY <1>1 DEF Restart, casting
<1>5. ASSUME NEW t \in Topic, BeginUpdate(t)
      PROVE  SendsBelongToBroadcast'
  BY <1>5 DEF BeginUpdate, SendsBelongToBroadcast
<1>6. RangeNext => SendsBelongToBroadcast'
  BY DEF Shape, TypeOK, RangeNext, SendsBelongToBroadcast
<1>7. RangeEnds => SendsBelongToBroadcast'
  BY DEF RangeEnds, SendsBelongToBroadcast
<1>8. EndUpdate => SendsBelongToBroadcast'
  BY DEF EndUpdate, SendsBelongToBroadcast
<1>9. ASSUME NEW c \in Client, SendWithWait(c)
      PROVE  SendsBelongToBroadcast'
  BY <1>9 DEF Shape, TypeOK, SendWithWait, BeginSend, EndSend, casting, SendsBelongToBroadcast
<1>10. Crash => SendsBelongToBroadcast'
  BY CrashStep DEF Shape, ExecutorWsInv
<1>11. ASSUME NEW c \in Client, WritePanic(c)
       PROVE  SendsBelongToBroadcast'
  BY <1>1, <1>10, <1>11 DEF WritePanic, casting
<1>12. QED
  BY <1>2, <1>3, <1>4, <1>5, <1>6, <1>7, <1>8, <1>9, <1>10, <1>11
  DEF Next, Broadcast, MapFault
-----------------------------------------------------------------------------
(* Subscriptions that are kept                                             *)

(* A connection's two goroutines start with it and end in their order.     *)
LEMMA EndsStep ==
    ASSUME Shape, EndsOK, [Next]_vars
    PROVE  EndsOK'
<1>1. UNCHANGED <<link, reader, pump>> => EndsOK'
  BY DEF EndsOK
<1>2. ASSUME NEW c \in Client, HandleWs(c) \/ WritePump(c) \/ ReaderStops(c)
      PROVE  EndsOK'
  BY <1>2 DEF Shape, TypeOK, EndsOK, HandleWs, WritePump, PingFails, PumpRemoves, PumpStops,
     ReaderStops, At, world, readers, pumps
<1>3. ASSUME NEW c \in Client, NEW l, l # "stopped", reader[c] # "off", reader' = [reader EXCEPT ![c] = l],
             UNCHANGED <<link, pump>>
      PROVE  EndsOK'
  BY <1>3 DEF Shape, TypeOK, EndsOK
<1>4. ASSUME NEW c \in Client,
             \/ HandleRequest(c) \/ CheckTopic(c) \/ CreateTopic(c) \/ AddClient(c) \/ BeginReply(c)
             \/ EndReply(c) \/ UnsubscribeOrders(c) \/ ReadError(c) \/ MessageTooLong(c)
             \/ ReaderRemoves(c)
      PROVE  EndsOK'
  BY <1>1, <1>3, <1>4
  DEF HandleRequest, CheckTopic, CreateTopic, AddClient, BeginReply, EndReply, UnsubscribeOrders,
      ReadError, MessageTooLong, StopReading, ReaderRemoves, At, world, pumps
<1>5. ASSUME NEW c \in Client, SendWithWait(c) \/ PeerChanges(c)
      PROVE  EndsOK'
  BY <1>1, <1>5 DEF SendWithWait, BeginSend, EndSend, PeerChanges, world, readers, pumps
<1>6. ASSUME NEW t \in Topic, BeginUpdate(t)
      PROVE  EndsOK'
  BY <1>1, <1>6 DEF BeginUpdate, world, readers, pumps
<1>7. Broadcast \/ Restart \/ UNCHANGED vars => EndsOK'
  BY <1>1 DEF Broadcast, RangeNext, RangeEnds, EndUpdate, Restart, vars, world, readers, pumps
<1>8. Crash => EndsOK'
  BY DEF Crash, EndsOK
<1>9. ASSUME NEW c \in Client, WritePanic(c)
      PROVE  EndsOK'
  BY <1>8, <1>9 DEF Shape, TypeOK, EndsOK, WritePanic, WritersCollide, At, pumps
<1>10. QED
  BY <1>2, <1>4, <1>5, <1>6, <1>7, <1>8, <1>9 DEF Next, ReadPump, MapFault

(* Maps only grow, or it is a delete of one client.                        *)
LEMMA KeptFrame ==
    ASSUME KeptOK, NEW a,
           \A t \in Topic : Current(t) \in Nat /\ Current(t)' \in Nat /\ Current(t)' >= Current(t),
           \A t \in Topic : \A i \in 0..Current(t) :
              t # a => Clients(t, i) \subseteq Clients(t, i)',
           NEW d \in Client,
           \A i \in 0..Current(a) : d \in Clients(a, i) => d \in Clients(a, i)',
           NEW u \in Topic, u \in acked[d], ~Removed(d)
    PROVE  \E i \in 1..Current(u)' : d \in Clients(u, i)'
<1>1. PICK i \in 1..Current(u) : d \in Clients(u, i)
  BY DEF KeptOK
<1>2. i \in 0..Current(u) /\ i \in 1..Current(u)'
  BY <1>1
<1>3. d \in Clients(u, i)'
  BY <1>1, <1>2
<1>4. QED
  BY <1>2, <1>3

(* A client leaves its map only where it unsubscribes, or once it is       *)
(* removed: delete takes nobody else along, and a map that is replaced is  *)
(* not emptied.                                                            *)
LEMMA KeptStep ==
    ASSUME Shape, EndsOK, KeptOK, [Next]_vars
    PROVE  KeptOK'
<1> DEFINE Had(d, u) == u \in acked[d] /\ ~Removed(d)
<1>1. \A t \in Topic : Current(t) \in Nat
  BY MapsType DEF Shape
<1>2. ASSUME UNCHANGED <<maps, acked>>, \A d \in Client : Removed(d) => Removed(d)'
      PROVE  KeptOK'
  BY <1>2 DEF KeptOK, Clients, Current
<1>3. ASSUME NEW c \in Client, CreateTopic(c)
      PROVE  KeptOK'
  <2>1. PICK t \in Topic : t = asked[c]
    BY <1>3 DEF Shape, LabelsOK, LabelOK, Handling, CreateTopic
  <2>2. /\ \A u \in Topic : Current(u)' = IF u = t THEN Current(u) + 1 ELSE Current(u)
        /\ \A u \in Topic : \A j \in 0..Current(u) : Clients(u, j)' = Clients(u, j)
    BY <1>3, <2>1, Created DEF Shape, CreateTopic
  <2>3. ASSUME NEW d \in Client, NEW u \in Topic, Had(d, u)'
        PROVE  \E i \in 1..Current(u)' : d \in Clients(u, i)'
    <3>1. u \in acked[d] /\ ~Removed(d)
      BY <1>3, <2>3 DEF Shape, TypeOK, Removed, CreateTopic, At, seen
    <3>2. QED
      BY <1>1, <2>1, <2>2, <3>1, KeptFrame
  <2>4. QED
    BY <2>3 DEF KeptOK
<1>4. ASSUME NEW c \in Client, AddClient(c)
      PROVE  KeptOK'
  <2>1. PICK t \in Topic : t = asked[c]
    BY <1>4, Added
  <2>2. /\ \A u \in Topic : Current(u)' = Current(u)
        /\ \A u \in Topic : \A j \in 0..Current(u) : Clients(u, j) \subseteq Clients(u, j)'
        /\ \E i \in 1..Current(t) : c \in Clients(t, i)'
    BY <1>4, <2>1, Added
  <2>3. ASSUME NEW d \in Client, NEW u \in Topic, Had(d, u)'
        PROVE  Had(d, u) \/ (d = c /\ u = t)
    BY <1>4, <2>1, <2>3 DEF Shape, TypeOK, Removed, AddClient, At, pumps
  <2>4. ASSUME NEW d \in Client, NEW u \in Topic, Had(d, u)'
        PROVE  \E i \in 1..Current(u)' : d \in Clients(u, i)'
    <3>1. CASE d = c /\ u = t
      BY <2>1, <2>2, <3>1
    <3>2. CASE Had(d, u)
      BY <1>1, <2>1, <2>2, <3>2, KeptFrame
    <3>3. QED
      BY <2>3, <2>4, <3>1, <3>2
  <2>5. QED
    BY <2>4 DEF KeptOK
<1>5. ASSUME NEW c \in Client, UnsubscribeOrders(c) \/ ReaderRemoves(c) \/ PumpRemoves(c)
      PROVE  KeptOK'
  <2>1. PICK t \in Topic : /\ Delete(c, t)
                           /\ UnsubscribeOrders(c) => acked' = [acked EXCEPT ![c] = @ \ {t}]
    BY <1>5
    DEF Shape, TypeOK, LabelsOK, LabelOK, Handling, UnsubscribeOrders, ReaderRemoves, PumpRemoves
  <2>2. /\ \A u \in Topic : Current(u)' = Current(u)
        /\ \A u \in Topic : \A j \in 0..Current(u) :
              /\ Clients(u, j) \subseteq Clients(u, j)' \cup {c}
              /\ u # t => Clients(u, j)' = Clients(u, j)
    BY <2>1, Deleted DEF Shape
  <2>3. ASSUME NEW d \in Client, NEW u \in Topic, Had(d, u)'
        PROVE  Had(d, u) /\ ~(d = c /\ u = t)
    <3>1. CASE UnsubscribeOrders(c)
      <4>1. acked' = [acked EXCEPT ![c] = @ \ {t}] /\ acked \in [Client -> SUBSET Topic]
        BY <2>1, <3>1 DEF Shape, TypeOK
      <4>2. u \in acked[d] /\ ~(d = c /\ u = t)
        BY <2>3, <4>1
      <4>3. ~Removed(d)
        BY <2>3, <3>1 DEF Shape, TypeOK, Removed, UnsubscribeOrders, At, pumps
      <4>4. QED
        BY <4>2, <4>3
    <3>2. CASE ReaderRemoves(c) \/ PumpRemoves(c)
      BY <2>3, <3>2 DEF Removed, ReaderRemoves, PumpRemoves, readers, pumps
    <3>3. QED
      BY <1>5, <3>1, <3>2
  <2>4. ASSUME NEW d \in Client, NEW u \in Topic, Had(d, u)'
        PROVE  \E i \in 1..Current(u)' : d \in Clients(u, i)'
    <3>1. u \in acked[d] /\ ~Removed(d) /\ ~(d = c /\ u = t)
      BY <2>3, <2>4
    <3>2. CASE d = c
      <4>1. PICK i \in 1..Current(u) : d \in Clients(u, i)
        BY <3>1 DEF KeptOK
      <4>2. d \in Clients(u, i)'
        BY <1>1, <2>2, <3>1, <3>2, <4>1
      <4>3. QED
        BY <2>2, <4>1, <4>2
    <3>3. CASE d # c
      BY <1>1, <2>2, <3>1, <3>3, KeptFrame
    <3>4. QED
      BY <3>2, <3>3
  <2>5. QED
    BY <2>4 DEF KeptOK
<1>6. Crash => KeptOK'
  BY DEF Crash, KeptOK
<1>7. ASSUME NEW c \in Client,
             \/ HandleRequest(c) \/ CheckTopic(c) \/ BeginReply(c) \/ EndReply(c)
             \/ ReadError(c) \/ MessageTooLong(c) \/ ReaderStops(c)
      PROVE  KeptOK'
  BY <1>2, <1>7
  DEF Shape, TypeOK, Removed, HandleRequest, CheckTopic, BeginReply, EndReply, ReadError,
      MessageTooLong, StopReading, ReaderStops, At, world, pumps, seen
<1>8. ASSUME NEW c \in Client, PingFails(c) \/ PumpStops(c) \/ SendWithWait(c) \/ PeerChanges(c)
      PROVE  KeptOK'
  BY <1>2, <1>8
  DEF Shape, TypeOK, Removed, PingFails, PumpStops, SendWithWait, BeginSend, EndSend, PeerChanges,
      world, readers, pumps, seen
<1>9. ASSUME NEW c \in Client, HandleWs(c)
      PROVE  KeptOK'
  BY <1>2, <1>9 DEF Shape, TypeOK, EndsOK, Removed, HandleWs, At, seen
<1>10. ASSUME NEW c \in Client, WritePanic(c)
       PROVE  KeptOK'
  BY <1>2, <1>6, <1>10 DEF Shape, TypeOK, Removed, WritePanic, WritersCollide, At, pumps, seen
<1>11. ASSUME NEW t \in Topic, BeginUpdate(t)
       PROVE  KeptOK'
  BY <1>2, <1>11 DEF Removed, BeginUpdate, world, readers, pumps
<1>12. Broadcast \/ Restart \/ UNCHANGED vars => KeptOK'
  BY <1>2
  DEF Removed, Broadcast, RangeNext, RangeEnds, EndUpdate, Restart, vars, world, readers, pumps, seen
<1>13. QED
  BY <1>3, <1>4, <1>5, <1>6, <1>7, <1>8, <1>9, <1>10, <1>11, <1>12
  DEF Next, ReadPump, WritePump, MapFault
-----------------------------------------------------------------------------
(* Theorems                                                                *)

(* The inductive invariant of the websocket server.                        *)
LEMMA ExecutorWsInvariant == Spec => []ExecutorWsInv
<1>1. ExecutorWsInv /\ [Next]_vars => ExecutorWsInv'
  <2> SUFFICES ASSUME ExecutorWsInv, [Next]_vars
               PROVE  ExecutorWsInv'
    OBVIOUS
  <2>1. CASE Next
    BY <2>1, ShapeStep, MembersStep, ForgottenStep, SendsStep DEF ExecutorWsInv
  <2>2. CASE UNCHANGED vars
    <3>1. UNCHANGED <<maps, bPc, bTopic, bHeld, bSeen, send, member, entitled, reader, asked,
                      held, toLeave>>
      BY <2>2 DEF vars, world, readers, casting, seen
    <3>2. TypeOK'
      BY <2>2 DEF ExecutorWsInv, Shape, TypeOK, vars, world, readers, pumps, casting, seen
    <3>3. LabelsOK' /\ BroadcastOK'
      BY <3>1 DEF ExecutorWsInv, Shape, LabelsOK, LabelOK, BroadcastOK, Current
    <3>4. MembersOK' /\ ForgottenOK' /\ SendsBelongToBroadcast'
      BY <3>1 DEF ExecutorWsInv, MembersOK, UpdatesOnlyToSubscribers, ForgottenOK,
         StoppedIsForgotten, SendsBelongToBroadcast, Subscribers, Clients, Current
    <3>5. QED
      BY <3>2, <3>3, <3>4 DEF ExecutorWsInv, Shape
  <2>3. QED
    BY <2>1, <2>2
<1>2. QED
  BY <1>1, InvInit, PTL DEF Spec

(* The variables of the websocket server keep their types, and goroutines  *)
(* stay at places of their code, through panics, crashes and restarts.     *)
THEOREM TypeCorrect == Spec => []TypeOK
<1>1. ExecutorWsInv => TypeOK
  BY DEF ExecutorWsInv, Shape
<1>2. QED
  BY <1>1, ExecutorWsInvariant, PTL

(* handleOrderId starts no SendWithWait for a client that was not          *)
(* subscribed at any time since the broadcast began, although its range    *)
(* and the goroutines of the connections share maps without a lock.        *)
THEOREM OnlySubscribers == Spec => []UpdatesOnlyToSubscribers
<1>1. ExecutorWsInv => UpdatesOnlyToSubscribers
  BY DEF ExecutorWsInv, MembersOK
<1>2. QED
  BY <1>1, ExecutorWsInvariant, PTL

(* RemoveClient, which readPump calls at its end, leaves the connection in *)
(* no Clients map that Subscriptions holds, and no other goroutine puts it *)
(* back there.                                                             *)
THEOREM Forgotten == Spec => []StoppedIsForgotten
<1>1. ExecutorWsInv => StoppedIsForgotten
  BY DEF ExecutorWsInv, ForgottenOK
<1>2. QED
  BY <1>1, ExecutorWsInvariant, PTL

(* handleOrderId returns after its SendWithWait goroutines, so no send of  *)
(* an update overlaps the next broadcast.                                  *)
THEOREM Serialised == Spec => []SendsBelongToBroadcast
<1>1. ExecutorWsInv => SendsBelongToBroadcast
  BY DEF ExecutorWsInv
<1>2. QED
  BY <1>1, ExecutorWsInvariant, PTL

(* A client that was acknowledged, did not unsubscribe and is connected is *)
(* subscribed, unless a second Clients map was made for its topic or its   *)
(* own writePump gave it up.  delete, called for other connections at any  *)
(* point of this one's life, and a ping that fails for another connection, *)
(* cost it nothing.                                                        *)
THEOREM Kept == Spec => []AckedUnlessReplaced
<1>1. Init => EndsOK /\ KeptOK
  BY DEF Init, EndsOK, KeptOK
<1>2. ExecutorWsInv /\ EndsOK /\ KeptOK => AckedUnlessReplaced
  <2> SUFFICES ASSUME ExecutorWsInv, EndsOK, KeptOK, NEW c \in Client, NEW t \in Topic,
                      t \in acked[c], Lives(c), pump[c] = "run"
               PROVE  c \in Subscribers(t) \/ Current(t) > 1
    BY DEF AckedUnlessReplaced
  <2>1. PICK i \in 1..Current(t) : c \in Clients(t, i)
    BY DEF EndsOK, KeptOK, Removed, Lives
  <2>2. Current(t) \in Nat
    BY MapsType DEF ExecutorWsInv, Shape
  <2>3. i = Current(t) \/ Current(t) > 1
    BY <2>2
  <2>4. QED
    BY <2>1, <2>3 DEF Subscribers
<1>3. ExecutorWsInv /\ EndsOK /\ KeptOK /\ [Next]_vars => EndsOK' /\ KeptOK'
  BY EndsStep, KeptStep DEF ExecutorWsInv
<1>4. QED
  BY <1>1, <1>2, <1>3, ExecutorWsInvariant, PTL DEF Spec
=============================================================================
