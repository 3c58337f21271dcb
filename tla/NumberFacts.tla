---------------------------- MODULE NumberFacts ----------------------------
(***************************************************************************)
(* Facts about numbers and finite sets that the proofs share.              *)
(***************************************************************************)
EXTENDS Integers, FiniteSetsExt, TLAPS, WellFoundedInduction, FiniteSetTheorems

\* A non-empty set of natural numbers has a least element: the sets of the
\* elements up to each are finite, and one of them has no other within.
LEMMA LeastElement ==
  ASSUME NEW S \in SUBSET Nat, S # {}
  PROVE  Min(S) \in S /\ \A x \in S : Min(S) <= x
<1>. DEFINE Below(x) == {y \in S : y <= x}
            all == {Below(x) : x \in S}
<1>1. \A x \in S : IsFiniteSet(Below(x))
  <2>1. \A x \in S : Below(x) \subseteq 0 .. x
    <3>1. \A x, y \in S : y <= x => y \in 0 .. x
      OBVIOUS
    <3>2. QED BY Zenon, <3>1
  <2>2. \A x \in S : IsFiniteSet(0 .. x)
    BY FS_Interval
  <2>3. QED BY <2>1, <2>2, FS_Subset
<1>2. all \subseteq FiniteSubsetsOf(S) /\ all # {}
  BY <1>1 DEF FiniteSubsetsOf
<1>3. PICK least \in all : \A b \in all : <<b, least>> \notin StrictSubsetOrdering(S)
  <2>. HIDE DEF all
  <2>1. QED BY <1>2, FS_StrictSubsetOrderingWellFounded, WFMin
<1>4. PICK m \in S : least = Below(m)
  OBVIOUS
<1>5. ASSUME NEW x \in S, x < m PROVE FALSE
  <2>1. Below(x) \subseteq Below(m) /\ m \in Below(m) /\ m \notin Below(x)
    <3>1. \A y \in S : y <= x => y <= m
      BY <1>5
    <3>2. m <= m /\ ~(m <= x)
      BY <1>5
    <3>3. QED BY Zenon, <3>1, <3>2
  <2>2. <<Below(x), Below(m)>> \in StrictSubsetOrdering(S)
    BY <2>1 DEF StrictSubsetOrdering
  <2>3. QED BY <1>3, <1>4, <2>2
<1>6. \A x \in S : m <= x
  BY <1>5
<1>7. QED
  BY <1>6 DEF Min

\* Induction over the natural numbers, by a set that holds the good ones.
LEMMA Induction ==
  ASSUME NEW S, 0 \in S, \A n \in Nat : n \in S => n + 1 \in S
  PROVE  \A n \in Nat : n \in S
<1>. DEFINE T == Nat \ S
<1>1. CASE T # {}
  <2>1. PICK m \in Nat : m \in T /\ \A x \in T : m <= x
    BY <1>1, LeastElement
  <2>2. m # 0
    BY <2>1
  <2>3. m - 1 \in Nat /\ m - 1 \in S /\ m = m - 1 + 1
    BY <2>1, <2>2
  <2>4. QED BY <2>1, <2>3
<1>2. CASE T = {}
  BY <1>2
<1>3. QED BY <1>1, <1>2

\* Of two numbers Max is the larger.
LEMMA LargerOfTwo ==
  ASSUME NEW a \in Int, NEW b \in Int
  PROVE  Max({a, b}) = IF a >= b THEN a ELSE b
<1>1. PICK x \in {a, b} : x = Max({a, b}) /\ \A y \in {a, b} : x >= y
  <2>1. \E x \in {a, b} : \A y \in {a, b} : x >= y
    OBVIOUS
  <2>2. QED BY <2>1 DEF Max
<1>2. QED BY <1>1

\* ... and Min the smaller.
LEMMA SmallerOfTwo ==
  ASSUME NEW a \in Int, NEW b \in Int
  PROVE  Min({a, b}) = IF a <= b THEN a ELSE b
<1>1. PICK x \in {a, b} : x = Min({a, b}) /\ \A y \in {a, b} : x <= y
  <2>1. \E x \in {a, b} : \A y \in {a, b} : x <= y
    OBVIOUS
  <2>2. QED BY <2>1 DEF Min
<1>2. QED BY <1>1

\* n * d reaches beyond x, by d at most.
LEMMA Quotient ==
  ASSUME NEW x \in Nat, NEW d \in Nat \ {0}
  PROVE  /\ x \div d \in Nat
         /\ d * (x \div d) <= x
         /\ x < d * ((x \div d) + 1)
OBVIOUS

\* Multiples of d.
LEMMA Multiples ==
  ASSUME NEW d \in Nat \ {0}, NEW i \in Nat, NEW j \in Nat
  PROVE  /\ i * d \in Nat /\ (i + j) * d = i * d + j * d
         /\ i < j <=> i * d < j * d
<1>1. ASSUME NEW m \in Nat, NEW n \in Nat, m < n PROVE m * d < n * d
  <2>1. PICK e \in Nat : n = m + 1 + e
    <3>1. n - m - 1 \in Nat
      BY <1>1
    <3>2. QED BY <1>1, <3>1
  <2>2. n * d = m * d + d + e * d /\ e * d \in Nat /\ m * d \in Nat
    BY <2>1
  <2>3. QED BY <2>2
<1>2. i * d \in Nat /\ j * d \in Nat /\ (i + j) * d = i * d + j * d
  OBVIOUS
<1>3. i = j => i * d = j * d
  OBVIOUS
<1>4. QED BY <1>1, <1>2, <1>3

LEMMA QuotientOfMultiple ==
  ASSUME NEW d \in Nat \ {0}, NEW n \in Nat
  PROVE  (n * d) \div d = n
<1>1. PICK q \in Nat, x \in Nat : x = n * d /\ q = x \div d /\ d * q <= x /\ x < d * (q + 1)
  BY Multiples, Quotient
<1>2. q * d <= n * d /\ n * d < (q + 1) * d
  BY <1>1
<1>3. ~(n < q) /\ n < q + 1
  <2>1. ~(n < q)
    BY <1>2, Multiples
  <2>2. ~(q + 1 <= n)
    <3>1. q + 1 < n => (q + 1) * d < n * d
      BY Multiples
    <3>2. n * d \in Nat
      BY Multiples
    <3>3. QED BY <1>2, <3>1, <3>2
  <2>3. QED BY <2>1, <2>2
<1>4. QED BY <1>1, <1>3

LEMMA Remainder ==
  ASSUME NEW x \in Nat, NEW d \in Nat \ {0}
  PROVE  \E q \in Nat, r \in Nat : x = q * d + r /\ r < d /\ r = x % d
<1>1. /\ x \div d \in Nat /\ x % d \in Nat /\ x % d < d
      /\ x = d * (x \div d) + (x % d)
  OBVIOUS
<1>2. x = (x \div d) * d + (x % d)
  BY <1>1
<1>3. QED BY <1>1, <1>2

\* A larger number has no smaller quotient.
LEMMA QuotientGrows ==
  ASSUME NEW x \in Nat, NEW y \in Nat, x <= y, NEW d \in Nat \ {0}
  PROVE  x \div d <= y \div d
<1>1. PICK q \in Nat, r \in Nat : q = x \div d /\ r = y \div d
  BY Quotient
<1>2. d * q <= x /\ y < d * (r + 1)
  BY <1>1, Quotient
<1>3. d * q < d * (r + 1)
  BY <1>2
<1>4. q >= r + 1 => d * q >= d * (r + 1)
  OBVIOUS
<1>5. QED BY <1>1, <1>3, <1>4

\* A part of a finite set.
LEMMA Part ==
  ASSUME NEW S, IsFiniteSet(S), NEW T \in SUBSET S
  PROVE  /\ IsFiniteSet(T)
         /\ Cardinality(T) \in Nat /\ Cardinality(S) \in Nat
         /\ Cardinality(T) <= Cardinality(S)
BY FS_Subset, FS_CardinalityType
=============================================================================
