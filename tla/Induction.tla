------------------------------ MODULE Induction ------------------------------
(***************************************************************************)
(* Induction over the natural numbers in the form the proofs need it: with *)
(* a set in the place of the property that is shown.                       *)
(***************************************************************************)
EXTENDS Naturals, FiniteSets, TLAPS, WellFoundedInduction, FiniteSetTheorems

\* A set of naturals that is not empty has a least element.
LEMMA LeastNat ==
    ASSUME NEW S \in SUBSET Nat, S # {}
    PROVE  \E n \in S : \A m \in S : n <= m
<1> DEFINE R == OpToRel(<, Nat)
<1>1. IsWellFoundedOn(R, Nat)
  BY NatLessThanWellFounded
<1>2. \A x, y \in Nat : x < y => <<x, y>> \in R
  BY DEF OpToRel
<1> HIDE DEF R
<1>3. PICK n \in S : \A m \in S : <<m, n>> \notin R
  BY <1>1, WFMin
<1>4. \A m \in S : ~(m < n) /\ m \in Nat /\ n \in Nat
  BY <1>2, <1>3
<1>5. \A m \in S : n <= m
  BY <1>4
<1>6. QED BY <1>5

\* A set of naturals that is bounded and not empty has a greatest element.
LEMMA GreatestNat ==
    ASSUME NEW S \in SUBSET Nat, S # {}, NEW b \in Nat, \A n \in S : n <= b
    PROVE  \E n \in S : \A m \in S : m <= n
<1> DEFINE Bounds == {n \in Nat : \A m \in S : m <= n}
<1>1. PICK n \in Bounds : \A m \in Bounds : n <= m
  <2>1. b \in Bounds
    OBVIOUS
  <2> HIDE DEF Bounds
  <2>2. QED BY <2>1, LeastNat DEF Bounds
<1>2. n \in S
  <2>1. SUFFICES ASSUME n \notin S PROVE FALSE
    OBVIOUS
  <2>2. \A m \in S : m < n /\ m \in Nat
    BY <1>1, <2>1
  <2>3. n > 0 /\ n - 1 \in Nat
    <3>1. PICK m \in S : TRUE
      OBVIOUS
    <3>2. n \in Nat /\ m \in Nat /\ m < n
      BY <2>2
    <3>3. QED BY <3>2
  <2>4. n - 1 \in Bounds
    BY <2>2, <2>3
  <2>5. QED BY <1>1, <2>3, <2>4
<1>3. QED BY <1>1, <1>2

\* A set with 0 that has with a number up to b also its successor has all
\* numbers up to b.
LEMMA UpTo ==
    ASSUME NEW b \in Nat, NEW S, 0 \in S, \A n \in 0..b : n \in S /\ n < b => n + 1 \in S
    PROVE  0..b \subseteq S
<1> DEFINE Out == (0..b) \ S
<1>1. SUFFICES ASSUME Out # {} PROVE FALSE
  OBVIOUS
<1>2. PICK n \in Out : \A m \in Out : n <= m
  <2>1. Out \in SUBSET Nat
    OBVIOUS
  <2> HIDE DEF Out
  <2>2. QED BY <1>1, <2>1, LeastNat
<1>3. n # 0 /\ n - 1 \in 0..b /\ n - 1 < b /\ n - 1 \notin Out
  BY <1>2
<1>4. QED BY <1>2, <1>3
=============================================================================
