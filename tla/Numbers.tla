------------------------------- MODULE Numbers -------------------------------
(***************************************************************************)
(* Facts about numbers that the proofs about windows rest on.              *)
(***************************************************************************)
EXTENDS Naturals, FiniteSetTheorems, WellFoundedInduction, TLAPS

\* A number below n is its own remainder.
LEMMA ModSmall ==
  ASSUME NEW n \in Nat \ {0}, NEW a \in 0..(n - 1)
  PROVE  a % n = a
  OBVIOUS

\* Between n and twice n, the remainder is what is above n.
LEMMA ModOnce ==
  ASSUME NEW n \in Nat \ {0}, NEW a \in n..(2 * n - 1)
  PROVE  a % n = a - n
  OBVIOUS

LEMMA ModRange ==
  ASSUME NEW n \in Nat \ {0}, NEW a \in Nat
  PROVE  a % n \in 0..(n - 1)
  OBVIOUS

\* A set of numbers has a least element.
LEMMA LeastNumber ==
  ASSUME NEW S \in SUBSET Nat, S # {}
  PROVE  \E m \in S : \A k \in S : m <= k
<1>1. PICK m \in S : \A k \in S : ~ (<<k, m>> \in OpToRel(<, Nat))
  BY WFMin, NatLessThanWellFounded
<1>2. ASSUME NEW k \in S PROVE m <= k
  <2>1. ~ (k < m)
    BY <1>1 DEF OpToRel
  <2>2. k \in Nat /\ m \in Nat
    OBVIOUS
  <2> QED
    BY <2>1, <2>2
<1> QED
  BY <1>2

\* A bounded set of numbers has a greatest element.
LEMMA GreatestNumber ==
  ASSUME NEW n \in Nat, NEW S \in SUBSET (1..n), S # {}
  PROVE  \E m \in S : \A k \in S : m >= k
<1> DEFINE T == {d \in 0..n : n - d \in S}
<1>1. T \in SUBSET Nat
  OBVIOUS
<1>2. \A k \in S : n - k \in T
  OBVIOUS
<1>3. T # {}
  BY <1>2
<1>4. PICK d \in T : \A e \in T : d <= e
  <2> HIDE DEF T
  <2> QED
    BY <1>1, <1>3, LeastNumber
<1>5. \A k \in S : n - d >= k
  BY <1>2, <1>4
<1> QED
  BY <1>5

\* Where the numbers of D, counted from 0, have their first gap.
LEMMA FirstGap ==
  ASSUME NEW D \in SUBSET Nat, IsFiniteSet(D), NEW n \in Nat,
         0..(n - 1) \subseteq D, n \notin D
  PROVE  (CHOOSE k \in 0..Cardinality(D) : 0..k \cap D = {d \in 0..k : d < k}) = n
<1> DEFINE IsGap(k) == 0..k \cap D = {d \in 0..k : d < k}
<1>1. Cardinality(D) \in Nat
  BY FS_CardinalityType
<1>2. n <= Cardinality(D)
  <2>1. Cardinality(0..(n - 1)) = n
    BY FS_Interval
  <2> QED
    BY <2>1, FS_Subset
<1>3. n \in 0..Cardinality(D) /\ IsGap(n)
  BY <1>1, <1>2
<1>4. ASSUME NEW k \in 0..Cardinality(D), IsGap(k)
      PROVE  k = n
  <2>1. k \notin D /\ 0..(k - 1) \subseteq D
    BY <1>4
  <2>2. ~ (k < n) /\ ~ (n < k)
    BY <1>1, <2>1
  <2> QED
    BY <1>1, <2>2
<1> HIDE DEF IsGap
<1>5. (CHOOSE k \in 0..Cardinality(D) : IsGap(k)) = n
  BY <1>3, <1>4
<1> QED
  BY <1>5 DEF IsGap
=============================================================================
