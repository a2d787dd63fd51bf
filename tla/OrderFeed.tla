------------------------------ MODULE OrderFeed ------------------------------
(***************************************************************************)
(* What the order feed promises to the executors, without Redis, processes *)
(* or failures: an order the broker signed becomes known; a client may     *)
(* submit a known order, which opens an entry; an open entry is either     *)
(* published once or given up, and then stays closed.                      *)
(***************************************************************************)
CONSTANTS
    Order,
    Entry     \* one entry per submission of an order; entry.order names it

VARIABLES known, open, published, givenUp

vars == <<known, open, published, givenUp>>

Init ==
    /\ known = {}
    /\ open = {}
    /\ published = {}
    /\ givenUp = {}

Announce(o) ==
    /\ known' = known \cup {o}
    /\ UNCHANGED <<open, published, givenUp>>

Submit(e) ==
    /\ e.order \in known
    /\ e \notin open \cup published \cup givenUp
    /\ open' = open \cup {e}
    /\ UNCHANGED <<known, published, givenUp>>

PublishEntry(e) ==
    /\ e \in open
    /\ open' = open \ {e}
    /\ published' = published \cup {e}
    /\ UNCHANGED <<known, givenUp>>

GiveUp(e) ==
    /\ e \in open
    /\ open' = open \ {e}
    /\ givenUp' = givenUp \cup {e}
    /\ UNCHANGED <<known, published>>

Next ==
    \/ \E o \in Order : Announce(o)
    \/ \E e \in Entry : Submit(e) \/ PublishEntry(e) \/ GiveUp(e)

Spec == Init /\ [][Next]_vars
=============================================================================
