------------------------------ MODULE Positions ------------------------------
(***************************************************************************)
(* A fact about positions in a list that the proofs about BrokerFee and    *)
(* Deployment share: both read a list from its first entry to its last,    *)
(* and keep the last one that fits.                                        *)
(***************************************************************************)
EXTENDS Integers, WellFoundedInduction, TLAPS

(* Among the positions of a list that fit, one is the last: the entry that *)
(* the loops of vip3ToFeeMap and of the configuration loader end up with.  *)
LEMMA LastOf ==
    ASSUME NEW n \in Nat, NEW S \in SUBSET (1..n), S # {}
    PROVE  \E i \in S : \A j \in S : j <= i
<1> DEFINE T == {n - i : i \in S}
           R == {ss \in Nat \X Nat : ss[1] < ss[2]}
<1>1. T \subseteq Nat
  <2>1. \A i \in S : n - i \in Nat
    OBVIOUS
  <2>2. QED
    BY <2>1, Zenon
<1>2. T # {}
  <2>1. PICK i \in S : TRUE
    OBVIOUS
  <2>2. n - i \in T
    OBVIOUS
  <2>3. QED
    BY <2>2
<1>3. IsWellFoundedOn(R, Nat)
  BY NatLessThanWellFounded, Zenon DEF OpToRel
<1>4. \E x \in T : \A y \in T : ~(<<y, x>> \in R)
  <2> HIDE DEF T, R
  <2>1. QED
    BY <1>1, <1>2, <1>3, WFMin, Zenon
<1>5. PICK x \in T : \A y \in T : ~(<<y, x>> \in R)
  BY <1>4
<1>6. \A y \in T : ~(y < x)
  BY <1>1, <1>5
<1>7. PICK i \in S : x = n - i
  OBVIOUS
<1>8. \A j \in S : ~(n - j < n - i)
  BY <1>6, <1>7
<1>9. QED
  BY <1>8
=============================================================================
