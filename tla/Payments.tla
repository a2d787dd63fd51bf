------------------------------ MODULE Payments ------------------------------
(***************************************************************************)
(* POST /sign-payment: SignPayment checks who asks, ApproveToken makes the *)
(* multipay contract an approved spender of the token, and the payment is  *)
(* signed.  Requests run concurrently; they share the map TokenApprovalTs, *)
(* without a lock, and the broker's account on each chain, whose nonces    *)
(* order its transactions.                                                 *)
(*                                                                         *)
(* A chain is not in the repository: its transaction pool, its blocks and  *)
(* the token's allowance are modelled from what ApproveToken uses of them. *)
(***************************************************************************)
EXTENDS Integers, FiniteSets

CONSTANTS
    Request,   \* HTTP requests, each served by a goroutine of its own
    Payment,   \* what they ask for: chain, token, executor, signer, ctrct
    Chain,     \* chain ids
    Token,     \* token addresses
    None,      \* no payment, no address
    MultiPay,  \* contract of each configured chain, None for the others
    Executors, \* the executors allowed on each chain
    Expiry,    \* APPROVAL_EXPIRY_SEC, in clock ticks
    MaxTime    \* bound: the clock stops here

ASSUME PaymentsAssumption ==
    /\ \A p \in Payment : p.chain \in Chain /\ p.token \in Token
    /\ None \notin Payment
    /\ DOMAIN MultiPay = Chain /\ DOMAIN Executors = Chain
    /\ Expiry \in Nat \ {0}
    /\ MaxTime \in Nat

Key == Chain \X Token

VARIABLES
    now,       \* time.Now
    approvalTs,\* TokenApprovalTs
    pc,        \* where each request is
    payment,   \* what it asks for, once that was found in order
    nonce,     \* the nonce it was given
    \* the chains
    pending,   \* requests whose transaction is in the pool
    mined,     \* requests whose transaction is in a block
    reverted,  \* those among them that failed
    displaced  \* requests whose transaction was replaced in the pool

chains == <<pending, mined, reverted, displaced>>
vars == <<now, approvalTs, pc, payment, nonce, chains>>

Answered == {"signed", "refused"}
Working == {"cache", "nonce", "send", "wait", "stamp", "sign"}

(* The Unix time is far from 0, the value of a key that is not in the map. *)
Init ==
    /\ now = Expiry
    /\ approvalTs = [k \in Key |-> 0]
    /\ pc = [r \in Request |-> "new"]
    /\ payment = [r \in Request |-> None]
    /\ nonce = [r \in Request |-> 0]
    /\ pending = {} /\ mined = {} /\ reverted = {} /\ displaced = {}

KeyOf(r) == <<payment[r].chain, payment[r].token>>
Goto(r, label) == pc' = [pc EXCEPT ![r] = label]

-----------------------------------------------------------------------------
(* RecoverPaymentSignerAddr, the comparison of the addresses, findExecutor *)
Authorised(p) ==
    /\ MultiPay[p.chain] # None /\ p.ctrct = MultiPay[p.chain]
    /\ p.signer = p.executor
    /\ p.executor \in Executors[p.chain]

SignPayment(r, p) ==
    /\ pc[r] = "new"
    /\ IF Authorised(p)
          THEN payment' = [payment EXCEPT ![r] = p] /\ Goto(r, "cache")
          ELSE UNCHANGED payment /\ Goto(r, "refused")
    /\ UNCHANGED <<now, approvalTs, nonce, chains>>

(* ApproveToken: approved less than Expiry ago, or a transaction is needed *)
LookUpApproval(r) ==
    /\ pc[r] = "cache"
    /\ Goto(r, IF now - approvalTs[KeyOf(r)] < Expiry THEN "sign" ELSE "nonce")
    /\ UNCHANGED <<now, approvalTs, payment, nonce, chains>>

(* The chain that answers, the nonce, the gas price: any may fail.         *)
OnChain(c) == {r \in pending \cup mined : payment[r].chain = c}

(* Faulty variant of GetNonce: the pending nonce is taken for the last one *)
(* that was used.                                                          *)
GetNonceAfterNext(r) ==
    /\ pc[r] = "nonce"
    /\ nonce' = [nonce EXCEPT ![r] = Cardinality(OnChain(payment[r].chain)) + 1]
    /\ Goto(r, "send")
    /\ UNCHANGED <<now, approvalTs, payment, chains>>

GetNonce(r) ==
    /\ pc[r] = "nonce"
    /\ \/ nonce' = [nonce EXCEPT ![r] = Cardinality(OnChain(payment[r].chain))] /\ Goto(r, "send")
       \/ UNCHANGED nonce /\ Goto(r, "refused")
    /\ UNCHANGED <<now, approvalTs, payment, chains>>

(* Approve: the node takes the transaction, also in place of one with the  *)
(* same nonce if it pays more, or refuses it.  An error may also come from *)
(* the connection, after the node took it.                                 *)
Rivals(r) == {q \in OnChain(payment[r].chain) : nonce[q] = nonce[r]}

SendApproval(r) ==
    /\ pc[r] = "send"
    /\ \/ /\ Rivals(r) \cap mined = {}
          /\ pending' = (pending \ Rivals(r)) \cup {r}
          /\ displaced' = displaced \cup Rivals(r)
          /\ Goto(r, "wait") \/ Goto(r, "refused")
       \/ UNCHANGED <<pending, displaced>> /\ Goto(r, "refused")
    /\ UNCHANGED <<now, approvalTs, payment, nonce, mined, reverted>>

(* Faulty variants of WaitMined: it does not wait; it waits for a          *)
(* transaction that does not fail.                                         *)
WaitMinedNot(r) ==
    /\ pc[r] = "wait"
    /\ Goto(r, "stamp")
    /\ UNCHANGED <<now, approvalTs, payment, nonce, chains>>

WaitSucceeded(r) ==
    /\ pc[r] = "wait"
    /\ r \in mined \ reverted
    /\ Goto(r, "stamp")
    /\ UNCHANGED <<now, approvalTs, payment, nonce, chains>>

(* WaitMined: it polls for a receipt, with no deadline.  The receipt's     *)
(* status is not looked at.                                                *)
WaitMined(r) ==
    /\ pc[r] = "wait"
    /\ r \in mined
    /\ Goto(r, "stamp")
    /\ UNCHANGED <<now, approvalTs, payment, nonce, chains>>

(* Faulty variant of StampApproval: it keeps the time of expiry instead.   *)
StampExpiry(r) ==
    /\ pc[r] = "stamp"
    /\ approvalTs' = [approvalTs EXCEPT ![KeyOf(r)] = now + Expiry]
    /\ Goto(r, "sign")
    /\ UNCHANGED <<now, payment, nonce, chains>>

StampApproval(r) ==
    /\ pc[r] = "stamp"
    /\ approvalTs' = [approvalTs EXCEPT ![KeyOf(r)] = now]
    /\ Goto(r, "sign")
    /\ UNCHANGED <<now, payment, nonce, chains>>

(* GetBrokerPaymentSignatureResponse                                       *)
AnswerPayment(r) ==
    /\ pc[r] = "sign"
    /\ Goto(r, IF payment[r].ctrct = MultiPay[payment[r].chain]
                  THEN "signed" ELSE "refused")
    /\ UNCHANGED <<now, approvalTs, payment, nonce, chains>>

-----------------------------------------------------------------------------
(* A block takes the account's next transaction, which may fail.           *)
Mine(r) ==
    /\ r \in pending
    /\ nonce[r] = Cardinality(mined \cap OnChain(payment[r].chain))
    /\ pending' = pending \ {r}
    /\ mined' = mined \cup {r}
    /\ reverted' \in {reverted, reverted \cup {r}}
    /\ UNCHANGED <<now, approvalTs, pc, payment, nonce, displaced>>

(* A write to the map TokenApprovalTs that meets another access ends the   *)
(* process; its container is started again.                                *)
MapFault ==
    /\ \E r, q \in Request : r # q /\ pc[r] = "stamp" /\ pc[q] \in {"stamp", "cache"}
    /\ approvalTs' = [k \in Key |-> 0]
    /\ pc' = [r \in Request |-> IF pc[r] \in Working THEN "dead" ELSE pc[r]]
    /\ UNCHANGED <<now, payment, nonce, chains>>

ClockTick ==
    /\ now < MaxTime
    /\ now' = now + 1
    /\ UNCHANGED <<approvalTs, pc, payment, nonce, chains>>

Serve(r) ==
    \/ LookUpApproval(r) \/ GetNonce(r) \/ SendApproval(r) \/ WaitMined(r)
    \/ StampApproval(r) \/ AnswerPayment(r)

Next ==
    \/ \E r \in Request, p \in Payment : SignPayment(r, p)
    \/ \E r \in Request : Serve(r) \/ Mine(r)
    \/ MapFault
    \/ ClockTick

Spec == Init /\ [][Next]_vars

(* Go runs every goroutine that can run; blocks are produced.              *)
FairSpec == Spec /\ \A r \in Request : WF_vars(Serve(r)) /\ WF_vars(Mine(r))

-----------------------------------------------------------------------------
(* Properties                                                              *)

(* The multipay contract may spend the token: an approval for the key was  *)
(* mined and did not fail.                                                 *)
Approved(k) == \E r \in mined \ reverted : KeyOf(r) = k

(* Every variable has its type; no time stamp is of the future.            *)
TypeOK ==
    /\ now \in Nat
    /\ approvalTs \in [Key -> 0..now]
    /\ pc \in [Request -> {"new", "dead"} \cup Working \cup Answered]
    /\ payment \in [Request -> Payment \cup {None}]
    /\ nonce \in [Request -> Nat]
    /\ pending \in SUBSET Request
    /\ mined \in SUBSET Request
    /\ reverted \in SUBSET mined
    /\ displaced \in SUBSET Request

(* A payment is signed only if an allowed executor signed it, and only     *)
(* after an approval of its token got into a block, through whichever      *)
(* request, and also across the cache, replaced transactions and the end   *)
(* of the process; the token can be unapproved only where that failed.     *)
SignedIsBacked ==
    \A r \in Request : pc[r] = "signed" =>
        /\ payment[r].signer \in Executors[payment[r].chain]
        /\ Approved(KeyOf(r)) \/ \E q \in reverted : KeyOf(q) = KeyOf(r)

(* The account's transactions stay a gapless run of nonces, although two   *)
(* requests may be given the same nonce: nothing waits behind a nonce that *)
(* nobody uses.                                                            *)
NoNonceGap ==
    \A c \in Chain :
        {nonce[r] : r \in OnChain(c)} = 0..(Cardinality(OnChain(c)) - 1)

(* Every request is answered, unless its transaction was replaced: then    *)
(* WaitMined waits for ever.                                               *)
PaymentAnswered ==
    \A r \in Request :
        pc[r] \in Working ~> (pc[r] \in Answered \cup {"dead"} \/ r \in displaced)

(* "allowed executor, token approved, we can sign": what is signed can be  *)
(* paid.                                                                   *)
SignedIsApproved == \A r \in Request : pc[r] = "signed" => Approved(KeyOf(r))
=============================================================================
