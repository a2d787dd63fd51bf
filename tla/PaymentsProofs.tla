---------------------------- MODULE PaymentsProofs ----------------------------
(***************************************************************************)
(* Theorems about Payments, for any requests, payments, chains, tokens and *)
(* executors, any expiry time and any end of the clock.                    *)
(***************************************************************************)
EXTENDS Payments, FiniteSetTheorems, TLAPS

(* What a request asks for was found in order, before anything is done for *)
(* it, and stays so.                                                       *)
PaymentsOK ==
    \A r \in Request :
        /\ pc[r] = "new" => payment[r] = None
        /\ pc[r] \in Working \cup {"signed", "dead"} => payment[r] \in Payment
        /\ payment[r] \in Payment => Authorised(payment[r])

(* A transaction is one of a request that sent it; finitely many did.      *)
Sent == {"wait", "stamp", "sign", "signed", "refused", "dead"}
TransactionsOK ==
    /\ \A r \in pending \cup mined \cup displaced :
          pc[r] \in Sent /\ payment[r] \in Payment
    /\ IsFiniteSet(pending) /\ IsFiniteSet(mined)

(* Time never returns to where 0 would be a recent time stamp.             *)
Shape == TypeOK /\ now >= Expiry /\ PaymentsOK /\ TransactionsOK

(* An approval for the key got into a block, whether or not it failed.     *)
Backed(k) == \E q \in mined : KeyOf(q) = k

(* A time stamp, and a request that is about to sign, has such an approval *)
(* behind it; a request about to put a time stamp has its own.             *)
BackedOK ==
    /\ \A k \in Key : approvalTs[k] # 0 => Backed(k)
    /\ \A r \in Request :
          /\ pc[r] = "stamp" => r \in mined
          /\ pc[r] \in {"sign", "signed"} => Backed(KeyOf(r))

(* Distinct transactions of a chain have distinct nonces, which are a run  *)
(* from 0; a nonce that is about to be used goes on with the run or is in  *)
(* it.                                                                     *)
NoncesOK ==
    /\ \A c \in Chain : \A r, q \in OnChain(c) : nonce[r] = nonce[q] => r = q
    /\ NoNonceGap
    /\ \A r \in Request, c \in Chain :
          pc[r] = "send" /\ payment[r].chain = c => nonce[r] <= Cardinality(OnChain(c))

PaymentsInv == Shape /\ BackedOK /\ NoncesOK
-----------------------------------------------------------------------------
(* Types                                                                   *)

(* The key of a payment is a chain and a token.                            *)
LEMMA KeyType ==
    ASSUME NEW r \in Request, payment[r] \in Payment
    PROVE  KeyOf(r) \in Key /\ payment[r].chain \in Chain
BY PaymentsAssumption DEF KeyOf, Key

(* At the start all have their shape.                                      *)
LEMMA ShapeInit == Init => Shape
<1> SUFFICES ASSUME Init
             PROVE  Shape
  OBVIOUS
<1>1. TypeOK /\ now >= Expiry
  BY PaymentsAssumption DEF Init, TypeOK
<1>2. PaymentsOK
  BY PaymentsAssumption DEF Init, PaymentsOK, Working
<1>3. TransactionsOK
  BY FS_EmptySet DEF Init, TransactionsOK
<1>4. QED
  BY <1>1, <1>2, <1>3 DEF Shape

(* The transactions of a chain can be counted.                             *)
LEMMA OnChainFinite ==
    ASSUME Shape, NEW c
    PROVE  /\ IsFiniteSet(OnChain(c)) /\ Cardinality(OnChain(c)) \in Nat
           /\ OnChain(c) \subseteq Request
<1>1. IsFiniteSet(pending \cup mined)
  BY FS_Union DEF Shape, TransactionsOK
<1>2. OnChain(c) \in SUBSET (pending \cup mined)
  BY DEF OnChain
<1>3. IsFiniteSet(OnChain(c))
  BY <1>1, <1>2, FS_Subset
<1>4. OnChain(c) \subseteq Request
  BY DEF Shape, TypeOK, OnChain
<1>5. QED
  BY <1>3, <1>4, FS_CardinalityType

(* A step of a request that keeps its payment, and comes no nearer to the  *)
(* chain than it was, keeps the shape.                                     *)
LEMMA ShapeFrame ==
    ASSUME Shape, UNCHANGED payment,
           NEW r \in Request, pc[r] \in Working,
           NEW l \in Working \cup Answered, pc' = [pc EXCEPT ![r] = l],
           pc[r] \in Sent => l \in Sent
    PROVE  PaymentsOK' /\ (UNCHANGED chains => TransactionsOK')
<1>1. \A q \in Request : pc'[q] = IF q = r THEN l ELSE pc[q]
  BY DEF Shape, TypeOK
<1>2. PaymentsOK'
  BY <1>1 DEF Shape, PaymentsOK, Working, Answered
<1>3. ASSUME UNCHANGED chains
      PROVE  TransactionsOK'
  <2>1. UNCHANGED <<pending, mined, displaced>>
    BY <1>3 DEF chains
  <2>2. \A q \in pending \cup mined \cup displaced : pc'[q] \in Sent
    BY <1>1 DEF Shape, TypeOK, TransactionsOK
  <2>3. QED
    BY <2>1, <2>2 DEF Shape, TransactionsOK
<1>4. QED
  BY <1>2, <1>3

(* Every step keeps the shape.                                             *)
LEMMA ShapeStep ==
    ASSUME Shape, [Next]_vars
    PROVE  Shape'
<1> USE PaymentsAssumption
<1>1. ASSUME NEW r \in Request, NEW p \in Payment, SignPayment(r, p)
      PROVE  Shape'
  <2>1. /\ pc[r] = "new" /\ UNCHANGED <<now, approvalTs, nonce, chains>>
        /\ \/ Authorised(p) /\ payment' = [payment EXCEPT ![r] = p] /\ pc' = [pc EXCEPT ![r] = "cache"]
           \/ UNCHANGED payment /\ pc' = [pc EXCEPT ![r] = "refused"]
    BY <1>1 DEF SignPayment, Goto
  <2>2. TypeOK' /\ now' >= Expiry
    BY <2>1 DEF Shape, TypeOK, chains, Working, Answered
  <2>3. PaymentsOK'
    BY <2>1 DEF Shape, TypeOK, PaymentsOK, Working, Authorised
  <2>4. r \notin pending \cup mined \cup displaced
    BY <2>1 DEF Shape, TransactionsOK, Sent
  <2>5. TransactionsOK'
    BY <2>1, <2>4 DEF Shape, TypeOK, TransactionsOK, chains
  <2>6. QED
    BY <2>2, <2>3, <2>5 DEF Shape
<1>2. ASSUME NEW r \in Request, LookUpApproval(r)
      PROVE  Shape'
  <2>1. PICK l \in {"sign", "nonce"} : pc' = [pc EXCEPT ![r] = l]
    BY <1>2 DEF LookUpApproval, Goto
  <2>2. pc[r] = "cache" /\ UNCHANGED <<now, approvalTs, payment, nonce, chains>>
    BY <1>2 DEF LookUpApproval
  <2>3. PaymentsOK' /\ TransactionsOK'
    BY <2>1, <2>2, ShapeFrame DEF Working, Sent
  <2>4. QED
    BY <2>1, <2>2, <2>3 DEF Shape, TypeOK, chains, Working
<1>3. ASSUME NEW r \in Request, GetNonce(r)
      PROVE  Shape'
  <2>1. PICK l \in {"send", "refused"} : pc' = [pc EXCEPT ![r] = l]
    BY <1>3 DEF GetNonce, Goto
  <2>2. pc[r] = "nonce" /\ UNCHANGED <<now, approvalTs, payment, chains>>
    BY <1>3 DEF GetNonce
  <2>3. PaymentsOK' /\ TransactionsOK'
    BY <2>1, <2>2, ShapeFrame DEF Working, Answered, Sent
  <2>4. TypeOK'
    <3>1. nonce' \in [Request -> Nat]
      BY <1>3, OnChainFinite DEF Shape, TypeOK, GetNonce
    <3>2. QED
      BY <2>1, <2>2, <3>1 DEF Shape, TypeOK, chains, Working, Answered
  <2>5. QED
    BY <2>2, <2>3, <2>4 DEF Shape
<1>4. ASSUME NEW r \in Request, SendApproval(r)
      PROVE  Shape'
  <2>1. /\ pc[r] = "send" /\ UNCHANGED <<now, approvalTs, payment, nonce, mined, reverted>>
        /\ \/ /\ pending' = (pending \ Rivals(r)) \cup {r}
              /\ displaced' = displaced \cup Rivals(r)
              /\ \E l \in {"wait", "refused"} : pc' = [pc EXCEPT ![r] = l]
           \/ UNCHANGED <<pending, displaced>> /\ pc' = [pc EXCEPT ![r] = "refused"]
    BY <1>4 DEF SendApproval, Goto
  <2>2. /\ Rivals(r) \subseteq pending \cup mined
        /\ pending \cup mined \subseteq Request
    BY DEF Rivals, OnChain, Shape, TypeOK
  <2>3. PaymentsOK'
    BY <2>1, ShapeFrame DEF Working, Answered, Sent
  <2>4. \A q \in (pending \cup mined \cup displaced)' : q = r \/ q \in pending \cup mined \cup displaced
    BY <2>1, <2>2
  <2>5. payment[r] \in Payment
    BY <2>1 DEF Shape, PaymentsOK, Working
  <2>6. IsFiniteSet(pending') /\ IsFiniteSet(mined')
    <3>1. IsFiniteSet(pending \ Rivals(r))
      BY FS_Subset DEF Shape, TransactionsOK
    <3>2. IsFiniteSet((pending \ Rivals(r)) \cup {r})
      BY <3>1, FS_AddElement
    <3>3. QED
      BY <2>1, <3>2 DEF Shape, TransactionsOK
  <2>7. TransactionsOK'
    BY <2>1, <2>4, <2>5, <2>6 DEF Shape, TypeOK, TransactionsOK, Sent
  <2>8. TypeOK' /\ now' >= Expiry
    BY <2>1, <2>2 DEF Shape, TypeOK, Working, Answered
  <2>9. QED
    BY <2>3, <2>7, <2>8 DEF Shape
<1>5. ASSUME NEW r \in Request, WaitMined(r)
      PROVE  Shape'
  <2>1. pc[r] = "wait" /\ pc' = [pc EXCEPT ![r] = "stamp"] /\ UNCHANGED <<now, approvalTs, payment, nonce, chains>>
    BY <1>5 DEF WaitMined, Goto
  <2>2. PaymentsOK' /\ TransactionsOK'
    BY <2>1, ShapeFrame DEF Working, Sent
  <2>3. QED
    BY <2>1, <2>2 DEF Shape, TypeOK, chains, Working
<1>6. ASSUME NEW r \in Request, StampApproval(r)
      PROVE  Shape'
  <2>1. /\ pc[r] = "stamp" /\ pc' = [pc EXCEPT ![r] = "sign"] /\ UNCHANGED <<now, payment, nonce, chains>>
        /\ approvalTs' = [approvalTs EXCEPT ![KeyOf(r)] = now]
    BY <1>6 DEF StampApproval, Goto
  <2>2. PaymentsOK' /\ TransactionsOK'
    BY <2>1, ShapeFrame DEF Working, Sent
  <2>3. approvalTs' \in [Key -> 0..now]
    <3>1. now \in 0..now
      BY DEF Shape, TypeOK
    <3>2. QED
      BY <2>1, <3>1 DEF Shape, TypeOK
  <2>4. QED
    BY <2>1, <2>2, <2>3 DEF Shape, TypeOK, chains, Working
<1>7. ASSUME NEW r \in Request, AnswerPayment(r)
      PROVE  Shape'
  <2>1. PICK l \in Answered : pc' = [pc EXCEPT ![r] = l]
    BY <1>7 DEF AnswerPayment, Goto, Answered
  <2>2. pc[r] = "sign" /\ UNCHANGED <<now, approvalTs, payment, nonce, chains>>
    BY <1>7 DEF AnswerPayment
  <2>3. PaymentsOK' /\ TransactionsOK'
    BY <2>1, <2>2, ShapeFrame DEF Working, Answered, Sent
  <2>4. QED
    BY <2>1, <2>2, <2>3 DEF Shape, TypeOK, chains, Working, Answered
<1>8. ASSUME NEW r \in Request, Mine(r)
      PROVE  Shape'
  <2>1. /\ r \in pending
        /\ pending' = pending \ {r} /\ mined' = mined \cup {r}
        /\ reverted' \in {reverted, reverted \cup {r}}
        /\ UNCHANGED <<now, approvalTs, pc, payment, nonce, displaced>>
    BY <1>8 DEF Mine
  <2>2. IsFiniteSet(pending') /\ IsFiniteSet(mined')
    BY <2>1, FS_AddElement, FS_RemoveElement DEF Shape, TransactionsOK
  <2>3. TransactionsOK'
    BY <2>1, <2>2 DEF Shape, TransactionsOK
  <2>4. TypeOK' /\ PaymentsOK'
    BY <2>1 DEF Shape, TypeOK, PaymentsOK
  <2>5. QED
    BY <2>1, <2>3, <2>4 DEF Shape
<1>9. ASSUME MapFault
      PROVE  Shape'
  <2>1. /\ pc' = [r \in Request |-> IF pc[r] \in Working THEN "dead" ELSE pc[r]]
        /\ approvalTs' = [k \in Key |-> 0]
        /\ UNCHANGED <<now, payment, nonce, chains>>
    BY <1>9 DEF MapFault
  <2>2. TypeOK'
    BY <2>1 DEF Shape, TypeOK, chains
  <2>3. PaymentsOK' /\ TransactionsOK'
    BY <2>1 DEF Shape, TypeOK, PaymentsOK, TransactionsOK, Working, Sent, chains
  <2>4. QED
    BY <2>1, <2>2, <2>3 DEF Shape
<1>10. ASSUME ClockTick
       PROVE  Shape'
  <2>1. now' = now + 1 /\ UNCHANGED <<approvalTs, pc, payment, nonce, chains>>
    BY <1>10 DEF ClockTick
  <2>2. TypeOK' /\ now' >= Expiry
    BY <2>1 DEF Shape, TypeOK, chains
  <2>3. QED
    BY <2>1, <2>2 DEF Shape, PaymentsOK, TransactionsOK, chains
<1>11. ASSUME UNCHANGED vars
       PROVE  Shape'
  BY <1>11 DEF vars, chains, Shape, TypeOK, PaymentsOK, TransactionsOK
<1>12. QED
  BY <1>1, <1>2, <1>3, <1>4, <1>5, <1>6, <1>7, <1>8, <1>9, <1>10, <1>11 DEF Next, Serve
-----------------------------------------------------------------------------
(* Approvals                                                               *)

(* Keys stay with the requests that are on their way, and what is in a     *)
(* block stays there.                                                      *)
LEMMA BackedKept ==
    ASSUME Shape, [Next]_vars
    PROVE  /\ mined \subseteq mined'
           /\ \A r \in Request : payment[r] \in Payment => payment'[r] = payment[r]
           /\ \A k : Backed(k) => Backed(k)'
<1>1. mined \subseteq mined'
  BY DEF Next, Serve, SignPayment, LookUpApproval, GetNonce, SendApproval, WaitMined, StampApproval,
         AnswerPayment, Mine, MapFault, ClockTick, vars, chains
<1>2. \A r \in Request : payment[r] \in Payment => payment'[r] = payment[r]
  <2>1. ASSUME NEW r \in Request, NEW p \in Payment, SignPayment(r, p), NEW q \in Request, payment[q] \in Payment
        PROVE  payment'[q] = payment[q]
    <3>1. payment[r] = None
      BY <2>1 DEF SignPayment, Shape, PaymentsOK
    <3>2. q # r
      BY <2>1, <3>1, PaymentsAssumption
    <3>3. QED
      BY <2>1, <3>2 DEF SignPayment, Shape, TypeOK
  <2>2. ASSUME ~ \E r \in Request, p \in Payment : SignPayment(r, p)
        PROVE  UNCHANGED payment
    BY <2>2 DEF Next, Serve, LookUpApproval, GetNonce, SendApproval, WaitMined, StampApproval,
                AnswerPayment, Mine, MapFault, ClockTick, vars
  <2>3. QED
    BY <2>1, <2>2
<1>3. \A k : Backed(k) => Backed(k)'
  <2>1. \A q \in mined : q \in mined' /\ payment'[q] = payment[q]
    BY <1>1, <1>2 DEF Shape, TypeOK, TransactionsOK
  <2>2. QED
    BY <2>1 DEF Backed, KeyOf
<1>4. QED
  BY <1>1, <1>2, <1>3

(* Every step keeps an approval behind each time stamp and each signature. *)
LEMMA BackedStep ==
    ASSUME Shape, BackedOK, [Next]_vars
    PROVE  BackedOK'
<1> USE PaymentsAssumption
<1>0. /\ mined \subseteq mined'
      /\ \A k : Backed(k) => Backed(k)'
      /\ \A r \in Request : pc[r] \in Working \cup {"signed"} => KeyOf(r)' = KeyOf(r) /\ KeyOf(r) \in Key
  <2>1. \A r \in Request : pc[r] \in Working \cup {"signed"} => payment[r] \in Payment
    BY DEF Shape, PaymentsOK
  <2>2. \A r \in Request : pc[r] \in Working \cup {"signed"} => KeyOf(r)' = KeyOf(r)
    BY <2>1, BackedKept DEF KeyOf
  <2>3. QED
    BY <2>1, <2>2, BackedKept, KeyType
<1> DEFINE Steps(r) == /\ pc'[r] = "stamp" => r \in mined'
                       /\ pc'[r] \in {"sign", "signed"} => Backed(KeyOf(r))'
<1>1. \A r \in Request : pc'[r] = pc[r] => Steps(r)
  <2>1. \A r \in Request : pc[r] \in {"sign", "signed"} => Backed(KeyOf(r)) /\ KeyOf(r)' = KeyOf(r)
    BY <1>0 DEF BackedOK, Working
  <2>2. \A r \in Request : pc[r] \in {"sign", "signed"} => Backed(KeyOf(r))'
    BY <1>0, <2>1 DEF Backed
  <2>3. QED
    BY <1>0, <2>2 DEF BackedOK
<1>2. ASSUME \A k \in Key : approvalTs'[k] \in {0, approvalTs[k]} \/ Backed(k)',
             \A r \in Request : pc'[r] = pc[r] \/ Steps(r)
      PROVE  BackedOK'
  <2>1. \A k \in Key : approvalTs'[k] # 0 => Backed(k)'
    BY <1>0, <1>2 DEF BackedOK
  <2>2. \A r \in Request : Steps(r)
    BY <1>1, <1>2
  <2>3. QED
    BY <2>1, <2>2 DEF BackedOK
<1>3. ASSUME UNCHANGED approvalTs,
             NEW r \in Request, NEW l, pc' = [pc EXCEPT ![r] = l], l \notin {"stamp", "sign", "signed"}
      PROVE  BackedOK'
  <2>1. \A q \in Request : pc'[q] = pc[q] \/ Steps(q)
    BY <1>3 DEF Shape, TypeOK
  <2>2. QED
    BY <1>2, <1>3, <2>1
<1>4. ASSUME NEW r \in Request, NEW p \in Payment, SignPayment(r, p)
      PROVE  BackedOK'
  BY <1>3, <1>4 DEF SignPayment, Goto
<1>5. ASSUME NEW r \in Request, LookUpApproval(r)
      PROVE  BackedOK'
  <2>1. pc[r] = "cache" /\ UNCHANGED approvalTs
    BY <1>5 DEF LookUpApproval
  <2>2. CASE pc' = [pc EXCEPT ![r] = "nonce"]
    BY <1>3, <2>1, <2>2
  <2>3. CASE now - approvalTs[KeyOf(r)] < Expiry /\ pc' = [pc EXCEPT ![r] = "sign"]
    <3>1. KeyOf(r) \in Key /\ KeyOf(r)' = KeyOf(r)
      BY <1>0, <2>1 DEF Working
    <3>2. approvalTs[KeyOf(r)] # 0
      BY <2>3, <3>1 DEF Shape, TypeOK
    <3>3. Backed(KeyOf(r))
      BY <3>1, <3>2 DEF BackedOK
    <3>4. Backed(KeyOf(r))'
      BY <1>0, <3>1, <3>3 DEF Backed
    <3>5. \A q \in Request : pc'[q] = pc[q] \/ Steps(q)
      BY <2>3, <3>4 DEF Shape, TypeOK
    <3>6. QED
      BY <1>2, <2>1, <3>5
  <2>4. QED
    BY <1>5, <2>2, <2>3 DEF LookUpApproval, Goto
<1>6. ASSUME NEW r \in Request, GetNonce(r) \/ SendApproval(r)
      PROVE  BackedOK'
  BY <1>3, <1>6 DEF GetNonce, SendApproval, Goto
<1>7. ASSUME NEW r \in Request, WaitMined(r)
      PROVE  BackedOK'
  <2>1. pc' = [pc EXCEPT ![r] = "stamp"] /\ UNCHANGED approvalTs /\ r \in mined'
    BY <1>0, <1>7 DEF WaitMined, Goto
  <2>2. \A q \in Request : pc'[q] = pc[q] \/ Steps(q)
    BY <2>1 DEF Shape, TypeOK
  <2>3. QED
    BY <1>2, <2>1, <2>2
<1>8. ASSUME NEW r \in Request, StampApproval(r)
      PROVE  BackedOK'
  <2>1. /\ pc[r] = "stamp" /\ pc' = [pc EXCEPT ![r] = "sign"]
        /\ approvalTs' = [approvalTs EXCEPT ![KeyOf(r)] = now]
    BY <1>8 DEF StampApproval, Goto
  <2>2. KeyOf(r) \in Key /\ KeyOf(r)' = KeyOf(r) /\ Backed(KeyOf(r))
    BY <1>0, <2>1 DEF BackedOK, Backed, Working
  <2>3. Backed(KeyOf(r))'
    BY <1>0, <2>2 DEF Backed
  <2>4. \A q \in Request : pc'[q] = pc[q] \/ Steps(q)
    BY <2>1, <2>3 DEF Shape, TypeOK
  <2>5. \A k \in Key : approvalTs'[k] \in {0, approvalTs[k]} \/ Backed(k)'
    <3>1. ASSUME NEW k \in Key
          PROVE  approvalTs'[k] = approvalTs[k] \/ Backed(k)'
      <4>1. CASE k = KeyOf(r)
        BY <1>0, <2>2, <4>1
      <4>2. CASE k # KeyOf(r)
        BY <2>1, <4>2 DEF Shape, TypeOK
      <4>3. QED
        BY <4>1, <4>2
    <3>2. QED
      BY <3>1
  <2>6. QED
    BY <1>2, <2>4, <2>5
<1>9. ASSUME NEW r \in Request, AnswerPayment(r)
      PROVE  BackedOK'
  <2>1. PICK l \in Answered : pc' = [pc EXCEPT ![r] = l]
    BY <1>9 DEF AnswerPayment, Goto, Answered
  <2>2. pc[r] = "sign" /\ UNCHANGED approvalTs
    BY <1>9 DEF AnswerPayment
  <2>3. KeyOf(r)' = KeyOf(r) /\ Backed(KeyOf(r))
    BY <1>0, <2>2 DEF BackedOK, Working
  <2>4. Backed(KeyOf(r))'
    BY <1>0, <2>3 DEF Backed
  <2>5. \A q \in Request : pc'[q] = pc[q] \/ Steps(q)
    BY <2>1, <2>4 DEF Shape, TypeOK, Answered
  <2>6. QED
    BY <1>2, <2>2, <2>5
<1>10. ASSUME MapFault
       PROVE  BackedOK'
  <2>1. \A k \in Key : approvalTs'[k] = 0
    BY <1>10 DEF MapFault
  <2>2. \A r \in Request : pc'[r] = pc[r] \/ pc'[r] = "dead"
    BY <1>10 DEF MapFault
  <2>3. QED
    BY <1>2, <2>1, <2>2
<1>11. ASSUME (\E r \in Request : Mine(r)) \/ ClockTick \/ UNCHANGED vars
       PROVE  BackedOK'
  <2>1. UNCHANGED <<approvalTs, pc>>
    BY <1>11 DEF Mine, ClockTick, vars
  <2>2. QED
    BY <1>2, <2>1
<1>12. QED
  BY <1>4, <1>5, <1>6, <1>7, <1>8, <1>9, <1>10, <1>11 DEF Next, Serve
-----------------------------------------------------------------------------
(* Nonces                                                                  *)

(* A step that leaves the transactions of each chain and their nonces as   *)
(* they are, and gives nobody a nonce beyond their run, keeps them in order*)
LEMMA NoncesFrame ==
    ASSUME Shape, NoncesOK,
           \A c \in Chain : OnChain(c)' = OnChain(c) /\ \A q \in OnChain(c) : nonce'[q] = nonce[q],
           \A r \in Request, c \in Chain :
              pc'[r] = "send" /\ payment'[r].chain = c => nonce'[r] <= Cardinality(OnChain(c))
    PROVE  NoncesOK'
<1>1. NoNonceGap'
  <2>1. \A c \in Chain : {nonce'[r] : r \in OnChain(c)'} = {nonce[r] : r \in OnChain(c)}
    OBVIOUS
  <2>2. QED
    BY <2>1 DEF NoncesOK, NoNonceGap
<1>2. \A c \in Chain : \A r, q \in OnChain(c)' : nonce'[r] = nonce'[q] => r = q
  BY DEF NoncesOK
<1>3. \A r \in Request, c \in Chain :
         pc'[r] = "send" /\ payment'[r].chain = c => nonce'[r] <= Cardinality(OnChain(c)')
  OBVIOUS
<1>4. QED
  BY <1>1, <1>2, <1>3 DEF NoncesOK

(* One more nonce than a full run holds, or one of the run again: the run  *)
(* stays full either way.                                                  *)
LEMMA RunExtended ==
    ASSUME NEW S, IsFiniteSet(S), NEW f, \A x \in S : f[x] \in Nat,
           \A x, y \in S : f[x] = f[y] => x = y,
           {f[x] : x \in S} = 0..(Cardinality(S) - 1),
           NEW r, r \notin S, f[r] \in Nat, f[r] <= Cardinality(S),
           NEW T, T = (S \ {x \in S : f[x] = f[r]}) \cup {r}
    PROVE  /\ Cardinality(T) >= Cardinality(S)
           /\ \A x, y \in T : f[x] = f[y] => x = y
           /\ {f[x] : x \in T} = 0..(Cardinality(T) - 1)
<1> DEFINE n == Cardinality(S)
<1>0. n \in Nat
  BY FS_CardinalityType
<1>1. CASE {x \in S : f[x] = f[r]} = {}
  <2>1. T = S \cup {r}
    BY <1>1
  <2>2. Cardinality(T) = n + 1
    BY <2>1, FS_AddElement
  <2>3. f[r] \notin {f[x] : x \in S}
    BY <1>1
  <2>4. f[r] = n
    <3>1. f[r] \notin 0..(n - 1)
      BY <2>3
    <3>2. \A i \in Nat : i <= n /\ i \notin 0..(n - 1) => i = n
      BY <1>0
    <3>3. QED
      BY <3>1, <3>2
  <2>5. \A x, y \in T : f[x] = f[y] => x = y
    BY <2>1, <2>3
  <2>6. {f[x] : x \in T} = {f[x] : x \in S} \cup {f[r]}
    BY <2>1
  <2>7. 0..n = (0..(n - 1)) \cup {n}
    BY <1>0
  <2>8. {f[x] : x \in T} = 0..n
    BY <2>4, <2>6, <2>7
  <2>9. Cardinality(T) >= Cardinality(S) /\ Cardinality(T) - 1 = n
    BY <1>0, <2>2
  <2>10. QED
    BY <2>5, <2>8, <2>9
<1>2. CASE {x \in S : f[x] = f[r]} # {}
  <2>1. PICK q \in S : f[q] = f[r]
    BY <1>2
  <2>2. {x \in S : f[x] = f[r]} = {q}
    BY <2>1
  <2>3. T = (S \ {q}) \cup {r}
    BY <2>2
  <2>4. IsFiniteSet(S \ {q}) /\ Cardinality(S \ {q}) = n - 1
    BY <2>1, FS_RemoveElement
  <2>5. Cardinality(T) = n
    <3>1. r \notin S \ {q}
      OBVIOUS
    <3>2. Cardinality(T) = (n - 1) + 1
      BY <2>3, <2>4, <3>1, FS_AddElement
    <3>3. QED
      BY <1>0, <3>2
  <2>6. \A x, y \in T : f[x] = f[y] => x = y
    BY <2>1, <2>3
  <2>7. {f[x] : x \in T} = {f[x] : x \in S}
    BY <2>1, <2>3
  <2>8. QED
    BY <1>0, <2>5, <2>6, <2>7
<1>3. QED
  BY <1>1, <1>2

(* Every step keeps the nonces a run without gaps.                         *)
LEMMA NoncesStep ==
    ASSUME Shape, NoncesOK, [Next]_vars
    PROVE  NoncesOK'
<1> USE PaymentsAssumption
<1>0. \A r \in Request : pc[r] \in Working => payment[r] \in Payment /\ payment[r].chain \in Chain
  BY DEF Shape, PaymentsOK
<1>1. ASSUME NEW r \in Request, NEW p \in Payment, SignPayment(r, p)
      PROVE  NoncesOK'
  <2>1. pc[r] = "new" /\ UNCHANGED <<nonce, pending, mined>>
    BY <1>1 DEF SignPayment, chains
  <2>2. r \notin pending \cup mined
    BY <2>1 DEF Shape, TransactionsOK, Sent
  <2>3. \A q \in Request : q # r => payment'[q] = payment[q] /\ pc'[q] = pc[q]
    BY <1>1 DEF SignPayment, Goto, Shape, TypeOK
  <2>4. pc'[r] # "send"
    BY <1>1 DEF SignPayment, Goto, Shape, TypeOK
  <2>5. \A c : OnChain(c)' = OnChain(c)
    BY <2>1, <2>2, <2>3 DEF OnChain, Shape, TypeOK
  <2>6. \A q \in Request, c \in Chain :
           pc'[q] = "send" /\ payment'[q].chain = c => nonce'[q] <= Cardinality(OnChain(c))
    BY <1>0, <2>1, <2>3, <2>4 DEF NoncesOK, Working
  <2>7. QED
    BY <2>1, <2>5, <2>6, NoncesFrame
<1>2. ASSUME UNCHANGED <<payment, nonce>>, pending' \cup mined' = pending \cup mined,
             \A q \in Request : pc'[q] = "send" => pc[q] = "send"
      PROVE  NoncesOK'
  <2>1. \A c : OnChain(c)' = OnChain(c)
    BY <1>2 DEF OnChain
  <2>2. \A q \in Request, c \in Chain :
           pc'[q] = "send" /\ payment'[q].chain = c => nonce'[q] <= Cardinality(OnChain(c))
    BY <1>0, <1>2 DEF NoncesOK, Working
  <2>3. QED
    BY <1>2, <2>1, <2>2, NoncesFrame
<1>3. ASSUME NEW r \in Request, GetNonce(r)
      PROVE  NoncesOK'
  <2>1. pc[r] = "nonce" /\ UNCHANGED <<payment, pending, mined>>
    BY <1>3 DEF GetNonce, chains
  <2>2. r \notin pending \cup mined
    BY <2>1 DEF Shape, TransactionsOK, Sent
  <2>3. \A c : OnChain(c)' = OnChain(c)
    BY <2>1 DEF OnChain
  <2>4. \A q \in Request : q # r => nonce'[q] = nonce[q] /\ pc'[q] = pc[q]
    BY <1>3 DEF GetNonce, Goto, Shape, TypeOK
  <2>5. \A c : \A q \in OnChain(c) : nonce'[q] = nonce[q]
    BY <2>2, <2>4 DEF OnChain, Shape, TypeOK
  <2>6. pc'[r] = "send" => nonce'[r] <= Cardinality(OnChain(payment[r].chain))
    <3>1. Cardinality(OnChain(payment[r].chain)) \in Nat
      BY OnChainFinite
    <3>2. QED
      BY <1>3, <3>1 DEF GetNonce, Goto, Shape, TypeOK
  <2>7. \A q \in Request, c \in Chain :
           pc'[q] = "send" /\ payment'[q].chain = c => nonce'[q] <= Cardinality(OnChain(c))
    BY <1>0, <2>1, <2>4, <2>6 DEF NoncesOK, Working
  <2>8. QED
    BY <2>3, <2>5, <2>7, NoncesFrame
<1>4. ASSUME NEW r \in Request, SendApproval(r)
      PROVE  NoncesOK'
  <2>1. pc[r] = "send" /\ UNCHANGED <<payment, nonce, mined>>
    BY <1>4 DEF SendApproval
  <2>2. CASE UNCHANGED pending /\ pc' = [pc EXCEPT ![r] = "refused"]
    BY <1>2, <2>1, <2>2 DEF Shape, TypeOK
  <2>3. CASE /\ Rivals(r) \cap mined = {}
             /\ pending' = (pending \ Rivals(r)) \cup {r}
             /\ \E l \in {"wait", "refused"} : pc' = [pc EXCEPT ![r] = l]
    <3> DEFINE C == payment[r].chain
    <3>1. C \in Chain
      BY <1>0, <2>1 DEF Working
    <3>2. r \notin pending \cup mined
      BY <2>1 DEF Shape, TransactionsOK, Sent
    <3>3. Rivals(r) = {q \in OnChain(C) : nonce[q] = nonce[r]}
      BY DEF Rivals
    <3>4. OnChain(C)' = (OnChain(C) \ {q \in OnChain(C) : nonce[q] = nonce[r]}) \cup {r}
      <4>1. OnChain(C)' = {q \in pending' \cup mined' : payment[q].chain = C}
        BY <2>1 DEF OnChain
      <4>2. pending' \cup mined' = ((pending \cup mined) \ Rivals(r)) \cup {r}
        BY <2>1, <2>3
      <4>3. OnChain(C)' = (OnChain(C) \ Rivals(r)) \cup {r}
        BY <4>1, <4>2 DEF OnChain
      <4>4. QED
        BY <3>3, <4>3
    <3>5. \A c \in Chain : c # C => OnChain(c)' = OnChain(c)
      <4>1. ASSUME NEW c \in Chain, c # C
            PROVE  OnChain(c)' = OnChain(c)
        <5>1. OnChain(c)' = {q \in pending' \cup mined' : payment[q].chain = c}
          BY <2>1 DEF OnChain
        <5>2. \A q \in Rivals(r) \cup {r} : payment[q].chain # c
          BY <4>1 DEF Rivals, OnChain
        <5>3. \A q : payment[q].chain = c => (q \in pending' \cup mined' <=> q \in pending \cup mined)
          BY <2>1, <2>3, <5>2
        <5>4. QED
          BY <5>1, <5>3 DEF OnChain
      <4>2. QED
        BY <4>1
    <3>6. /\ IsFiniteSet(OnChain(C)) /\ OnChain(C) \subseteq Request
          /\ \A c : Cardinality(OnChain(c)) \in Nat
      BY OnChainFinite
    <3>7. \A q \in OnChain(C) \cup {r} : nonce[q] \in Nat
      BY <3>6 DEF Shape, TypeOK
    <3>8. r \notin OnChain(C)
      BY <3>2 DEF OnChain
    <3>9. /\ \A x, y \in OnChain(C) : nonce[x] = nonce[y] => x = y
          /\ {nonce[x] : x \in OnChain(C)} = 0..(Cardinality(OnChain(C)) - 1)
          /\ nonce[r] <= Cardinality(OnChain(C))
      BY <2>1, <3>1 DEF NoncesOK, NoNonceGap
    <3> DEFINE T == OnChain(C)'
    <3>10. /\ Cardinality(T) >= Cardinality(OnChain(C))
           /\ \A x, y \in T : nonce[x] = nonce[y] => x = y
           /\ {nonce[x] : x \in T} = 0..(Cardinality(T) - 1)
      <4> HIDE DEF C, T
      <4>1. QED
        BY <3>4, <3>6, <3>7, <3>8, <3>9, RunExtended DEF T
    <3> DEFINE Full(c) ==
           /\ Cardinality(OnChain(c)') >= Cardinality(OnChain(c))
           /\ \A x, y \in OnChain(c)' : nonce'[x] = nonce'[y] => x = y
           /\ {nonce'[x] : x \in OnChain(c)'} = 0..(Cardinality(OnChain(c)') - 1)
    <3>11. \A c \in Chain : Full(c)
      <4>1. ASSUME NEW c \in Chain, c # C
            PROVE  Full(c)
        <5>1. OnChain(c)' = OnChain(c) /\ nonce' = nonce
          BY <2>1, <3>5, <4>1
        <5>2. Cardinality(OnChain(c)) >= Cardinality(OnChain(c))
          BY <3>6
        <5>3. QED
          BY <5>1, <5>2 DEF NoncesOK, NoNonceGap
      <4>2. Full(C)
        BY <2>1, <3>10
      <4> HIDE DEF Full, C
      <4>3. QED
        BY <4>1, <4>2
    <3>12. \A q \in Request : pc'[q] = "send" => pc[q] = "send"
      BY <2>3 DEF Shape, TypeOK
    <3>13. \A q \in Request, c \in Chain :
              pc'[q] = "send" /\ payment'[q].chain = c => nonce'[q] <= Cardinality(OnChain(c)')
      <4>1. ASSUME NEW q \in Request, NEW c \in Chain, pc'[q] = "send", payment'[q].chain = c
            PROVE  nonce'[q] <= Cardinality(OnChain(c)')
        <5>1. nonce[q] <= Cardinality(OnChain(c)) /\ nonce[q] \in Nat /\ nonce'[q] = nonce[q]
          BY <2>1, <3>12, <4>1 DEF NoncesOK, Shape, TypeOK
        <5>2. Cardinality(OnChain(c)') \in Nat
          <6>1. Shape'
            BY ShapeStep
          <6>2. IsFiniteSet(pending' \cup mined')
            BY <6>1, FS_Union DEF Shape, TransactionsOK
          <6>3. OnChain(c)' \in SUBSET (pending' \cup mined')
            BY DEF OnChain
          <6>4. QED
            BY <6>2, <6>3, FS_Subset, FS_CardinalityType
        <5>3. QED
          BY <3>6, <3>11, <5>1, <5>2
      <4>2. QED
        BY <4>1
    <3>14. QED
      BY <3>11, <3>13 DEF NoncesOK, NoNonceGap
  <2>4. QED
    BY <1>4, <2>2, <2>3 DEF SendApproval, Goto
<1>5. ASSUME NEW r \in Request, LookUpApproval(r) \/ WaitMined(r) \/ StampApproval(r) \/ AnswerPayment(r)
      PROVE  NoncesOK'
  BY <1>2, <1>5 DEF LookUpApproval, WaitMined, StampApproval, AnswerPayment, Goto, chains, Shape, TypeOK
<1>6. ASSUME NEW r \in Request, Mine(r)
      PROVE  NoncesOK'
  BY <1>2, <1>6 DEF Mine
<1>7. ASSUME MapFault
      PROVE  NoncesOK'
  BY <1>2, <1>7 DEF MapFault, chains
<1>8. ASSUME ClockTick \/ UNCHANGED vars
      PROVE  NoncesOK'
  BY <1>2, <1>8 DEF ClockTick, vars, chains
<1>9. QED
  BY <1>1, <1>3, <1>4, <1>5, <1>6, <1>7, <1>8 DEF Next, Serve

-----------------------------------------------------------------------------
(* Theorems                                                                *)

(* The inductive invariant.                                                *)
LEMMA PaymentsInvariant == Spec => []PaymentsInv
<1>1. Init => PaymentsInv
  <2> SUFFICES ASSUME Init
               PROVE  PaymentsInv
    OBVIOUS
  <2>1. Shape
    BY ShapeInit
  <2>2. BackedOK
    BY DEF Init, BackedOK
  <2>3. \A c : OnChain(c) = {}
    BY DEF Init, OnChain
  <2>4. NoNonceGap
    <3>1. Cardinality({}) = 0
      BY FS_EmptySet
    <3>2. 0..(0 - 1) = {}
      OBVIOUS
    <3>3. \A c : {nonce[r] : r \in OnChain(c)} = {}
      BY <2>3
    <3>4. QED
      BY <2>3, <3>1, <3>2, <3>3 DEF NoNonceGap
  <2>5. NoncesOK
    BY <2>3, <2>4 DEF Init, NoncesOK
  <2>6. QED
    BY <2>1, <2>2, <2>5 DEF PaymentsInv
<1>2. PaymentsInv /\ [Next]_vars => PaymentsInv'
  BY ShapeStep, BackedStep, NoncesStep DEF PaymentsInv
<1>3. QED
  BY <1>1, <1>2, PTL DEF Spec

(* Every variable has its type; no time stamp is of the future.            *)
THEOREM TypeCorrect == Spec => []TypeOK
<1>1. PaymentsInv => TypeOK
  BY DEF PaymentsInv, Shape
<1>2. QED
  BY <1>1, PaymentsInvariant, PTL

(* Every signed payment was signed by an allowed executor and has an       *)
(* approval of its token behind it that got into a block.                  *)
THEOREM Backing == Spec => []SignedIsBacked
<1>1. PaymentsInv => SignedIsBacked
  <2> SUFFICES ASSUME PaymentsInv, NEW r \in Request, pc[r] = "signed"
               PROVE  /\ payment[r].signer \in Executors[payment[r].chain]
                      /\ Approved(KeyOf(r)) \/ \E q \in reverted : KeyOf(q) = KeyOf(r)
    BY DEF SignedIsBacked
  <2>1. payment[r].signer \in Executors[payment[r].chain]
    BY DEF PaymentsInv, Shape, PaymentsOK, Authorised
  <2>2. Backed(KeyOf(r))
    BY DEF PaymentsInv, BackedOK
  <2>3. QED
    BY <2>1, <2>2 DEF Backed, Approved
<1>2. QED
  BY <1>1, PaymentsInvariant, PTL

(* The nonces of a chain's transactions are a run without gaps.            *)
THEOREM Gapless == Spec => []NoNonceGap
<1>1. PaymentsInv => NoNonceGap
  BY DEF PaymentsInv, NoncesOK
<1>2. QED
  BY <1>1, PaymentsInvariant, PTL
=============================================================================
