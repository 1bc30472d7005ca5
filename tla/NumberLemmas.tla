---------------------------- MODULE NumberLemmas ----------------------------
(***************************************************************************)
(* Facts about numbers that the proofs of several components rest on.      *)
(***************************************************************************)
EXTENDS Integers, WellFoundedInduction, TLAPS

(* Every set of natural numbers that is not empty has a least element: what *)
(* a loop over indices in ascending order takes next.                       *)
LEMMA LeastNat ==
  ASSUME NEW T \in SUBSET Nat, T # {}
  PROVE  \E x \in T : \A y \in T : x <= y
<1>1. IsWellFoundedOn(OpToRel(<, Nat), Nat)
  BY NatLessThanWellFounded
<1>2. \E x \in T : \A y \in T : ~(<<y, x>> \in OpToRel(<, Nat))
  BY <1>1, WFMin
<1>3. PICK x \in T : \A y \in T : ~(<<y, x>> \in OpToRel(<, Nat))
  BY <1>2
<1>4. ASSUME NEW y \in T PROVE x <= y
  <2>1. ~(<<y, x>> \in OpToRel(<, Nat))
    BY <1>3
  <2>2. ~(y < x)
    BY <2>1 DEF OpToRel
  <2> QED
    BY <2>2
<1> QED
  BY <1>4

(* Products, in the steps that the solver does not take on its own.         *)
LEMMA ProductGrows ==
  ASSUME NEW b \in Nat, NEW m \in Int, NEW n \in Int, m <= n
  PROVE  b * m <= b * n
<1>1. n - m \in Nat
  OBVIOUS
<1>2. b * (n - m) >= 0
  BY <1>1
<1>3. b * (n - m) = b * n - b * m
  OBVIOUS
<1> QED
  BY <1>2, <1>3

(* Division of integers by a positive number rounds down.                   *)
LEMMA Quotient ==
  ASSUME NEW a \in Int, NEW b \in Nat, b > 0
  PROVE  a \div b \in Int /\ b * (a \div b) <= a /\ a < b * (a \div b) + b
OBVIOUS

LEMMA QuotientAtLeast ==
  ASSUME NEW a \in Int, NEW b \in Nat, b > 0, NEW q \in Int, b * q <= a
  PROVE  q <= a \div b
<1> DEFINE d == a \div b
<1>1. d \in Int /\ b * d <= a /\ a < b * d + b
  BY Quotient
<1> HIDE DEF d
<1>2. SUFFICES ASSUME d + 1 <= q PROVE FALSE
  BY <1>1 DEF d
<1>3. b * (d + 1) <= b * q
  BY <1>1, <1>2, ProductGrows
<1>4. b * (d + 1) = b * d + b
  BY <1>1
<1> QED
  BY <1>1, <1>3, <1>4

LEMMA QuotientAtMost ==
  ASSUME NEW a \in Int, NEW b \in Nat, b > 0, NEW q \in Int, a < b * q + b
  PROVE  a \div b <= q
<1> DEFINE d == a \div b
<1>1. d \in Int /\ b * d <= a /\ a < b * d + b
  BY Quotient
<1> HIDE DEF d
<1>2. SUFFICES ASSUME q + 1 <= d PROVE FALSE
  BY <1>1 DEF d
<1>3. b * (q + 1) <= b * d
  BY <1>1, <1>2, ProductGrows
<1>4. b * (q + 1) = b * q + b
  OBVIOUS
<1> QED
  BY <1>1, <1>3, <1>4

(* What is added in whole divisors comes out of the division whole.         *)
LEMMA QuotientGrows ==
  ASSUME NEW a \in Int, NEW b \in Int, NEW d \in Nat, d > 0, NEW c \in Int, c * d <= b
  PROVE  (a \div d) + c <= (a + b) \div d
<1> DEFINE e == a \div d
<1>1. e \in Int /\ d * e <= a
  BY Quotient
<1> HIDE DEF e
<1>2. d * (e + c) = d * e + c * d
  BY <1>1
<1>3. d * (e + c) <= a + b
  BY <1>1, <1>2
<1>4. e + c <= (a + b) \div d
  BY <1>1, <1>3, QuotientAtLeast
<1> QED
  BY <1>4 DEF e
=============================================================================
