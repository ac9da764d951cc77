---------------------------- MODULE NumberFacts ----------------------------
(***************************************************************************)
(* Facts about natural numbers that the proofs of several components cite: *)
(* least elements, steps, products, quotients and remainders.              *)
(***************************************************************************)
EXTENDS Integers, FiniteSetsExt, WellFoundedInduction, TLAPS

\* A set of numbers has a least element.
LEMMA MinOfNats ==
    ASSUME NEW S \in SUBSET Nat, S # {}
    PROVE  Min(S) \in S /\ \A y \in S : Min(S) <= y
<1>1. PICK x \in S : \A y \in S : <<y, x>> \notin OpToRel(<, Nat)
  BY NatLessThanWellFounded, WFMin
<1>2. \A y \in S : x <= y
  <2>. SUFFICES ASSUME NEW y \in S, y < x PROVE FALSE
    OBVIOUS
  <2>1. <<y, x>> \in Nat \X Nat /\ <<y, x>>[1] < <<y, x>>[2]
    OBVIOUS
  <2>2. <<y, x>> \in OpToRel(<, Nat)
    BY <2>1, Zenon DEF OpToRel
  <2>. QED
    BY <1>1, <2>2
<1>. QED
  BY <1>2 DEF Min

\* It is the one that no other is below.
LEMMA MinIs ==
    ASSUME NEW S \in SUBSET Nat, NEW m \in S, \A y \in S : m <= y
    PROVE  Min(S) = m
<1>1. Min(S) \in S /\ Min(S) <= m
  BY MinOfNats
<1>2. Min(S) \in Nat /\ m \in Nat /\ m <= Min(S)
  BY <1>1
<1>. QED
  BY <1>1, <1>2

\* A set of steps that has the first, and with each the next, has them all.
LEMMA StepByStep ==
    ASSUME NEW N \in Nat, NEW I, 0 \in I, \A n \in 0 .. N - 1 : n \in I => n + 1 \in I
    PROVE  \A n \in 0 .. N : n \in I
<1>. SUFFICES ASSUME NEW k \in 0 .. N, k \notin I PROVE FALSE
  OBVIOUS
<1>. DEFINE S == {n \in 0 .. N : n \notin I}
<1>1. S \in SUBSET Nat /\ S # {}
  OBVIOUS
<1>2. PICK x : x = Min(S)
  OBVIOUS
<1>3. x \in S /\ \A y \in S : x <= y
  BY <1>1, <1>2, MinOfNats
<1>4. x # 0 /\ x \in 0 .. N /\ x \notin I
  BY <1>3
<1>5. x - 1 \in 0 .. N - 1 /\ (x - 1) + 1 = x /\ ~(x <= x - 1)
  BY <1>4
<1>6. x - 1 \in I
  BY <1>3, <1>5
<1>. QED
  BY <1>4, <1>5, <1>6

\* Products of naturals grow with their factors.
LEMMA ProductMonotone ==
    ASSUME NEW b \in Nat, NEW x \in Int, NEW y \in Int, x <= y
    PROVE  b * x <= b * y
OBVIOUS

\* A digit below b in front of a number below n is a number below b * n.
LEMMA DigitBound ==
    ASSUME NEW b \in Nat \ {0}, NEW n \in Nat \ {0},
           NEW a \in 0 .. b - 1, NEW x \in 0 .. n - 1
    PROVE  a + b * x \in 0 .. b * n - 1
<1>1. b * x <= b * (n - 1) /\ b * 0 <= b * x
  BY ProductMonotone
<1>2. b * (n - 1) = b * n - b /\ b * x \in Int /\ b * n \in Int
  OBVIOUS
<1>. QED
  BY <1>1, <1>2

\* A product of positive numbers is positive.
LEMMA ProductPositive ==
    ASSUME NEW a \in Nat \ {0}, NEW b \in Nat \ {0}
    PROVE  a * b \in Nat \ {0}
OBVIOUS

\* What quotient and remainder are.
LEMMA Division ==
    ASSUME NEW x \in Nat, NEW b \in Nat \ {0}
    PROVE  /\ x \div b \in Nat /\ x % b \in 0 .. b - 1
           /\ x = (x % b) + b * (x \div b)
OBVIOUS

\* Quotient and remainder are the only ones.
LEMMA QuotientUnique ==
    ASSUME NEW x \in Nat, NEW b \in Nat \ {0}, NEW q \in Nat, NEW r \in 0 .. b - 1,
           x = r + b * q
    PROVE  x \div b = q /\ x % b = r
<1>. DEFINE d == x \div b
            e == x % b
<1>1. d \in Nat /\ e \in 0 .. b - 1 /\ x = e + b * d
  BY Division
<1>. HIDE DEF d, e
<1>2. CASE q >= d + 1
  <2>1. b * (d + 1) <= b * q /\ b * (d + 1) = b * d + b /\ b * q \in Int /\ b * d \in Int
    BY <1>1, <1>2, ProductMonotone
  <2>. QED
    BY <1>1, <2>1
<1>3. CASE d >= q + 1
  <2>1. b * (q + 1) <= b * d /\ b * (q + 1) = b * q + b /\ b * q \in Int /\ b * d \in Int
    BY <1>1, <1>3, ProductMonotone
  <2>. QED
    BY <1>1, <2>1
<1>4. d = q
  BY <1>1, <1>2, <1>3
<1>5. e = r
  BY <1>1, <1>4
<1>. QED
  BY <1>4, <1>5 DEF d, e

\* Multiples of a number that are equal have equal factors.
LEMMA SameProduct ==
    ASSUME NEW i \in Nat, NEW k \in Nat, NEW b \in Nat \ {0}, i * b = k * b
    PROVE  i = k
<1>1. ASSUME NEW x \in Nat, NEW y \in Nat, x < y, x * b = y * b PROVE FALSE
  <2>1. b * (x + 1) <= b * y
    BY <1>1, ProductMonotone
  <2>2. b * (x + 1) = x * b + b /\ b * y = y * b /\ x * b \in Nat
    OBVIOUS
  <2>. QED
    BY <1>1, <2>1, <2>2
<1>. QED
  BY <1>1

\* Dividing twice is dividing once by the product.
LEMMA DivideTwice ==
    ASSUME NEW x \in Nat, NEW b \in Nat \ {0}, NEW c \in Nat \ {0}
    PROVE  x \div (b * c) = (x \div b) \div c
<1>. DEFINE d == x \div b
            q == d \div c
            r == (x % b) + b * (d % c)
<1>1. d \in Nat /\ x % b \in 0 .. b - 1 /\ x = (x % b) + b * d
  BY Division
<1>2. q \in Nat /\ d % c \in 0 .. c - 1 /\ d = (d % c) + c * q
  BY <1>1, Division
<1>3. r \in 0 .. b * c - 1
  BY <1>1, <1>2, DigitBound
<1>4. x = r + (b * c) * q
  <2>1. b * d = b * (d % c) + b * (c * q)
    BY <1>1, <1>2
  <2>2. b * (c * q) = (b * c) * q
    BY <1>2
  <2>. QED
    BY <1>1, <1>2, <2>1, <2>2
<1>5. b * c \in Nat \ {0}
  BY ProductPositive
<1>. HIDE DEF q, r
<1>6. x \div (b * c) = q
  BY <1>2, <1>3, <1>4, <1>5, QuotientUnique
<1>. QED
  BY <1>6 DEF q
=============================================================================
