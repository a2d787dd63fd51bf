------------------------------ MODULE BrokerFee ------------------------------
(***************************************************************************)
(* The broker fee a trader pays, reduced by the trader's VIP3 level.  The  *)
(* reductions are parsed once from VIP3_REDUCTION_PERC; a level is asked   *)
(* of the VIP3 service and kept in Redis for a week.  Requests run         *)
(* concurrently, one step per call of Redis or of the service, both of     *)
(* which are outside the repository.                                       *)
(***************************************************************************)
EXTENDS Integers, Sequences, FiniteSets

CONSTANTS
    Request,   \* requests for a fee, from /broker-fee or /sign-order
    Trader,    \* addresses, in lower case
    Chain,     \* chain ids a request may name
    AnyChain,  \* no chain named: -1
    Levels,    \* levels the VIP3 service gives, which are not checked
    Settings,  \* values of VIP3_REDUCTION_PERC, split at ";" and ":"
    BaseFee,   \* BROKER_FEE_TBPS
    Expiry,    \* VIP3_INFO_EXPIRY_SEC, in clock ticks
    None,      \* no level, no fee, no reductions
    Failures   \* what may fail: "get", "set", "expire", "rest", "broker"

Uint16 == 0..(2^16 - 1)

(* A setting is a sequence of parts "chain:percentages"; a part that does  *)
(* not parse is None.                                                      *)
ASSUME FeeAssumption ==
    /\ BaseFee \in Uint16
    /\ Levels \subseteq Int /\ 0 \in Levels
    /\ Expiry \in Nat \ {0}
    /\ AnyChain \notin Chain
    /\ Settings \subseteq Seq([chain : Chain, percs : Seq(Int) \ {<<>>}] \cup {None})
    /\ Failures \subseteq {"get", "set", "expire", "rest", "broker"}

VARIABLES
    setting,  \* the value of VIP3_REDUCTION_PERC
    fees,     \* BrokerFeeLvlsTbps
    cached,   \* level under the Redis key of each trader
    ttl,      \* ticks left of that key, 0 when none was set
    vip,      \* each trader's level at the VIP3 service
    pc,       \* where each request is
    trader,   \* whom it asks for
    chain,    \* and on which chain
    level,    \* the level it learned
    fee,      \* its answer
    \* history
    reported, \* traders the service ever gave a level above 0
    skipped   \* requests that wrote a level and did not set its time to live

prices == <<setting, fees>>
redis == <<cached, ttl>>
vars == <<prices, redis, vip, pc, trader, chain, level, fee, reported, skipped>>

-----------------------------------------------------------------------------
(* Go divides towards zero.                                                *)
Hundredth(n) == IF n >= 0 THEN n \div 100 ELSE -((-n) \div 100)

(* Faulty variant of Reduced: the fee is not kept in 16 bits.              *)
ReducedUnbounded(perc) == Hundredth((100 - perc) * BaseFee)

(* vip3ToFeeMap, one percentage: any number that Atoi reads.               *)
Reduced(perc) == Hundredth((100 - perc) * BaseFee) % (2^16)

(* vip3ToFeeMap, one chain: the loop begins at k = 1, behind the first     *)
(* percentage.                                                             *)
Fees(percs) == [k \in 1..(Len(percs) - 1) |-> Reduced(percs[k + 1])]

vip3ToFeeMap(s) ==
    IF s = <<>> \/ \E i \in DOMAIN s : s[i] = None
       THEN None
       ELSE [c \in {s[i].chain : i \in DOMAIN s} |->
                LET last == CHOOSE i \in DOMAIN s : s[i].chain = c
                               /\ \A j \in DOMAIN s : s[j].chain = c => j <= i
                IN Fees(s[last].percs)]

(* NewApp                                                                  *)
Init ==
    /\ setting \in Settings
    /\ fees = vip3ToFeeMap(setting)
    /\ cached = [t \in Trader |-> None]
    /\ ttl = [t \in Trader |-> 0]
    /\ vip \in [Trader -> Levels]
    /\ pc = [r \in Request |-> "new"]
    /\ trader = [r \in Request |-> None]
    /\ chain = [r \in Request |-> AnyChain]
    /\ level = [r \in Request |-> 0]
    /\ fee = [r \in Request |-> None]
    /\ reported = {} /\ skipped = {}

Goto(r, label) == pc' = [pc EXCEPT ![r] = label]
Learn(r, l) == level' = [level EXCEPT ![r] = l]

(* getBrokerFeeTbps                                                        *)
AskFee(r, t, c) ==
    /\ pc[r] = "new"
    /\ trader' = [trader EXCEPT ![r] = t]
    /\ chain' = [chain EXCEPT ![r] = c]
    /\ IF fees = None
          THEN fee' = [fee EXCEPT ![r] = BaseFee] /\ Goto(r, "answered")
          ELSE UNCHANGED fee /\ Goto(r, "get")
    /\ UNCHANGED <<prices, redis, vip, level, reported, skipped>>

(* Faulty variant of GetCached: the key does not name the trader.          *)
GetCachedOfAnyone(r) ==
    /\ pc[r] = "get"
    /\ \E t \in Trader :
          \/ cached[t] # None /\ Learn(r, cached[t]) /\ Goto(r, "fee")
          \/ cached[t] = None /\ UNCHANGED level /\ Goto(r, "rest")
    /\ UNCHANGED <<prices, redis, vip, trader, chain, fee, reported, skipped>>

(* GetVip3Level, GET: a missing key and a failing Redis look the same.     *)
GetCached(r) ==
    LET l == cached[trader[r]] IN
    /\ pc[r] = "get"
    /\ \/ l # None /\ Learn(r, l) /\ Goto(r, "fee")
       \/ (l = None \/ "get" \in Failures) /\ UNCHANGED level /\ Goto(r, "rest")
    /\ UNCHANGED <<prices, redis, vip, trader, chain, fee, reported, skipped>>

(* RestGetVip3Level.  The code in the answer is not looked at, so that an  *)
(* answer without a level passes for level 0; nor is the level's sign.     *)
RestGetVip3Level(r) ==
    LET t == trader[r] IN
    /\ pc[r] = "rest"
    /\ \/ /\ Learn(r, vip[t]) /\ Goto(r, "set")
          /\ reported' = IF vip[t] > 0 THEN reported \cup {t} ELSE reported
       \/ /\ "rest" \in Failures /\ Learn(r, 0)
          /\ (Goto(r, "set") \/ Goto(r, "fee"))
          /\ UNCHANGED reported
    /\ UNCHANGED <<prices, redis, vip, trader, chain, fee, skipped>>

(* Faulty variant of SetCached: no EXPIRE follows.                         *)
SetCachedForGood(r) ==
    LET t == trader[r] IN
    /\ pc[r] = "set"
    /\ cached' = [cached EXCEPT ![t] = level[r]] /\ ttl' = [ttl EXCEPT ![t] = 0]
    /\ Goto(r, "fee")
    /\ UNCHANGED <<prices, vip, trader, chain, level, fee, reported, skipped>>

(* SET overwrites the key and clears its time to live.  An error is logged *)
SetCached(r) ==
    LET t == trader[r] IN
    /\ pc[r] = "set"
    /\ \/ cached' = [cached EXCEPT ![t] = level[r]] /\ ttl' = [ttl EXCEPT ![t] = 0]
       \/ "set" \in Failures /\ UNCHANGED redis
    /\ Goto(r, "expire")
    /\ UNCHANGED <<prices, vip, trader, chain, level, fee, reported, skipped>>

(* EXPIRE.  Its result is not looked at.                                   *)
SetExpiry(r) ==
    LET t == trader[r] IN
    /\ pc[r] = "expire"
    /\ \/ /\ ttl' = [ttl EXCEPT ![t] = IF cached[t] # None THEN Expiry ELSE 0]
          /\ UNCHANGED skipped
       \/ "expire" \in Failures /\ UNCHANGED ttl /\ skipped' = skipped \cup {r}
    /\ Goto(r, "fee")
    /\ UNCHANGED <<prices, cached, vip, trader, chain, level, fee, reported>>

(* getReducedBrokerFeeTbps behind GetVip3Level.  Without a chain the range *)
(* over the map picks any.  The index panics on an empty list of fees and  *)
(* on a level below 0, and the http server drops the request.              *)
FeeOn(c, l) ==
    IF l = 0 \/ c \notin DOMAIN fees THEN BaseFee
    ELSE fees[c][IF l > Len(fees[c]) THEN Len(fees[c]) ELSE l]

(* Faulty variant of CanPanic: the level is not cut to the list.           *)
CanPanicBeyond(c, l) == l # 0 /\ c \in DOMAIN fees /\ (l > Len(fees[c]) \/ l < 0)

CanPanic(c, l) == l # 0 /\ c \in DOMAIN fees /\ (fees[c] = <<>> \/ l < 0)

ReduceFee(r) ==
    /\ pc[r] = "fee"
    /\ \E c \in IF chain[r] = AnyChain THEN DOMAIN fees ELSE {chain[r]} :
          IF CanPanic(c, level[r])
             THEN UNCHANGED fee /\ Goto(r, "panicked")
             ELSE fee' = [fee EXCEPT ![r] = FeeOn(c, level[r])] /\ Goto(r, "answered")
    /\ UNCHANGED <<prices, redis, vip, trader, chain, level, reported,
                   skipped>>

-----------------------------------------------------------------------------
(* The service gives a trader another level.                               *)
ChangeLevel(t) ==
    /\ \E l \in Levels \ {vip[t]} : vip' = [vip EXCEPT ![t] = l]
    /\ UNCHANGED <<prices, redis, pc, trader, chain, level, fee, reported,
                   skipped>>

ClockTick ==
    /\ \E t \in Trader : ttl[t] > 0
    /\ ttl' = [t \in Trader |-> IF ttl[t] > 0 THEN ttl[t] - 1 ELSE 0]
    /\ cached' = [t \in Trader |-> IF ttl[t] = 1 THEN None ELSE cached[t]]
    /\ UNCHANGED <<prices, vip, pc, trader, chain, level, fee, reported,
                   skipped>>

(* The broker dies with the requests it serves; it comes back with the same*)
(* setting.                                                                *)
BrokerCrash ==
    LET busy == {r \in Request : pc[r] \in {"get", "rest", "set", "expire", "fee"}} IN
    /\ "broker" \in Failures /\ busy # {}
    /\ pc' = [r \in Request |-> IF r \in busy THEN "dead" ELSE pc[r]]
    /\ skipped' = skipped \cup {r \in busy : pc[r] = "expire"}
    /\ chain' = [r \in Request |-> IF r \in busy THEN AnyChain ELSE chain[r]]
    /\ level' = [r \in Request |-> IF r \in busy THEN 0 ELSE level[r]]
    /\ UNCHANGED <<prices, redis, vip, trader, fee, reported>>

Next ==
    \/ \E r \in Request, t \in Trader, c \in Chain \cup {AnyChain} : AskFee(r, t, c)
    \/ \E r \in Request :
          \/ GetCached(r) \/ RestGetVip3Level(r) \/ SetCached(r) \/ SetExpiry(r)
          \/ ReduceFee(r)
    \/ \E t \in Trader : ChangeLevel(t)
    \/ ClockTick
    \/ BrokerCrash

Spec == Init /\ [][Next]_vars

-----------------------------------------------------------------------------
(* Properties                                                              *)

Parts(c) == {i \in DOMAIN setting : setting[i].chain = c}

(* Every variable has its type; a fee fits into uint16.                    *)
TypeOK ==
    /\ cached \in [Trader -> Levels \cup {None}]
    /\ ttl \in [Trader -> 0..Expiry]
    /\ vip \in [Trader -> Levels]
    /\ pc \in [Request -> {"new", "get", "rest", "set", "expire", "fee",
                           "answered", "panicked", "dead"}]
    /\ trader \in [Request -> Trader \cup {None}]
    /\ chain \in [Request -> Chain \cup {AnyChain}]
    /\ level \in [Request -> Levels]
    /\ fee \in [Request -> Uint16 \cup {None}]
    /\ reported \in SUBSET Trader
    /\ skipped \in SUBSET Request

(* Nobody gets a reduction for somebody else's level or somebody else's    *)
(* chain: a fee other than the base fee is one that the setting names for  *)
(* a chain the request may mean, and the service once gave this trader a   *)
(* level above 0 - whichever request wrote the level to Redis, and         *)
(* whenever levels change.                                                 *)
ReductionIsEarned ==
    \A r \in Request : fee[r] \notin {None, BaseFee} =>
        /\ trader[r] \in reported
        /\ \E c \in IF chain[r] = AnyChain THEN Chain ELSE {chain[r]} :
              \E i \in Parts(c) : \E k \in DOMAIN setting[i].percs :
                 fee[r] = Reduced(setting[i].percs[k])

(* No level is kept for ever: a key that has no time to live is about to   *)
(* be given one, although SET clears what an earlier request had set; or   *)
(* its writer's EXPIRE failed, unnoticed, or the broker died before it.    *)
LevelExpires ==
    \A t \in Trader : cached[t] # None => ttl[t] > 0 \/ \E r \in Request :
        trader[r] = t /\ (pc[r] = "expire" \/ r \in skipped)

(* What makes a price list safe: at least two percentages for each chain,  *)
(* none of them beyond 100 or negative.                                    *)
Sane == \A i \in DOMAIN setting : setting[i] # None =>
    /\ Len(setting[i].percs) >= 2
    /\ \A k \in DOMAIN setting[i].percs : setting[i].percs[k] \in 0..100

(* With such a list nobody pays more than the base fee, and no request     *)
(* panics but one that learned a level below 0, from the service or from   *)
(* Redis, however far a level is above the list and whatever chain is      *)
(* named.  (A single percentage leaves an empty list, and a percentage     *)
(* above 100 a negative fee that wraps around to a huge one.)              *)
SanePricesAreSafe ==
    Sane => \A r \in Request :
        /\ pc[r] = "panicked" => level[r] < 0
        /\ fee[r] # None => fee[r] <= BaseFee

(* "<chainid>:<perc reduction level 1>,...,<perc reduction level 4>": a    *)
(* trader of level l gets the l-th reduction of the chain asked for.       *)
FeeOfLevel ==
    \A r \in Request :
        fee[r] # None /\ fees # None /\ level[r] > 0 /\ chain[r] # AnyChain =>
            \A i \in Parts(chain[r]) : level[r] \in DOMAIN setting[i].percs =>
                fee[r] = ((100 - setting[i].percs[level[r]]) * BaseFee) \div 100
=============================================================================
