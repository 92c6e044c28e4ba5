--------------------------- MODULE SegmentsProofs ----------------------------
(***************************************************************************)
(* What holds of segmented messages for any messages, sizes and bases, and *)
(* that the numbers of a packet are read as they were written.             *)
(***************************************************************************)
EXTENDS Segments, Numbers

-----------------------------------------------------------------------------
(* The digits of a number *)

LEMMA Quotient ==
  ASSUME NEW n \in Nat
  PROVE  /\ n \div Base \in Nat /\ n % Base \in 0..(Base - 1)
         /\ n = Base * (n \div Base) + (n % Base)
         /\ n >= Base => n \div Base < n
<1>1. Base \in Nat /\ Base > 1
  BY CodecAssumption
<1>2. n \div Base \in Nat /\ n % Base \in 0..(Base - 1) /\ n = Base * (n \div Base) + (n % Base)
  BY <1>1
<1>3. ASSUME n >= Base PROVE n \div Base < n
  <2> DEFINE q == n \div Base
  <2>1. q \in Nat /\ n >= Base * q
    BY <1>1, <1>2
  <2> HIDE DEF q
  <2>2. Base * q >= q + q
    BY <1>1, <2>1
  <2> QED
    BY <1>1, <1>3, <2>1, <2>2 DEF q
<1> QED
  BY <1>2, <1>3

\* The digits of n by a function that has those of the numbers below.
DigitsBy(f, n) == IF n < Base THEN <<n>> ELSE <<(n % Base) + Base>> \o f[n \div Base]

\* The numbers up to n have digits.
UpTo(f, n) == f = [i \in 0..n |-> DigitsBy(f, i)]

LEMMA DigitsByLower ==
  ASSUME NEW f, NEW g, NEW n \in Nat, \A i \in 0..(n - 1) : f[i] = g[i]
  PROVE  DigitsBy(f, n) = DigitsBy(g, n)
<1>1. CASE n < Base
  BY <1>1 DEF DigitsBy
<1>2. CASE ~(n < Base)
  <2>1. n \div Base \in 0..(n - 1)
    BY <1>2, Quotient, CodecAssumption
  <2>2. f[n \div Base] = g[n \div Base]
    BY <2>1
  <2> QED
    BY <1>2, <2>2 DEF DigitsBy
<1> QED
  BY <1>1, <1>2

LEMMA UpToExists == \A n \in Nat : \E f : UpTo(f, n)
<1> DEFINE Missing == {n \in Nat : ~ \E f : UpTo(f, n)}
<1> SUFFICES ASSUME Missing # {} PROVE FALSE
  OBVIOUS
<1>1. PICK n \in Missing : \A k \in Missing : n <= k
  <2>1. Missing \in SUBSET Nat
    OBVIOUS
  <2> HIDE DEF Missing
  <2> QED
    BY <2>1, LeastNumber
<1>2. n \in Nat
  OBVIOUS
<1>3. PICK f : n = 0 \/ UpTo(f, n - 1)
  <2>1. CASE n = 0
    BY <2>1
  <2>2. CASE n # 0
    <3>1. n - 1 \in Nat /\ ~(n <= n - 1)
      BY <1>2, <2>2
    <3>2. n - 1 \notin Missing
      BY <1>1, <3>1
    <3> QED
      BY <3>1, <3>2
  <2> QED
    BY <2>1, <2>2
<1> DEFINE g == [i \in 0..n |-> DigitsBy(f, i)]
<1>4. \A i \in 0..(n - 1) : g[i] = f[i]
  <2>1. CASE n = 0
    BY <2>1
  <2>2. CASE n # 0
    <3>1. f = [i \in 0..(n - 1) |-> DigitsBy(f, i)]
      BY <1>3, <2>2 DEF UpTo
    <3>2. ASSUME NEW i \in 0..(n - 1) PROVE g[i] = f[i]
      <4>1. i \in 0..n /\ g[i] = DigitsBy(f, i)
        BY <1>2
      <4>2. f[i] = DigitsBy(f, i)
        BY ONLY <3>1, i \in 0..(n - 1), Zenon
      <4> QED
        BY <4>1, <4>2
    <3> QED
      BY <3>2
  <2> QED
    BY <2>1, <2>2
<1>5. ASSUME NEW i \in 0..n PROVE g[i] = DigitsBy(g, i)
  <2>1. g[i] = DigitsBy(f, i)
    OBVIOUS
  <2>2. i \in Nat /\ \A j \in 0..(i - 1) : f[j] = g[j]
    BY <1>2, <1>4
  <2> HIDE DEF g
  <2>3. DigitsBy(f, i) = DigitsBy(g, i)
    BY <2>2, DigitsByLower
  <2> QED
    BY <2>1, <2>3
<1>6. UpTo(g, n)
  <2>1. g = [i \in 0..n |-> DigitsBy(g, i)]
    <3>1. g = [i \in 0..n |-> g[i]]
      OBVIOUS
    <3> HIDE DEF g
    <3> QED
      BY <1>5, <3>1
  <2> QED
    BY <2>1 DEF UpTo
<1> QED
  BY <1>2, <1>6

LEMMA UpToAgree ==
  ASSUME NEW n \in Nat, NEW m \in Nat, NEW f, UpTo(f, n), NEW g, UpTo(g, m)
  PROVE  \A i \in 0..n : i <= m => f[i] = g[i]
<1> DEFINE Differ == {i \in 0..n : i <= m /\ f[i] # g[i]}
<1> SUFFICES ASSUME Differ # {} PROVE FALSE
  OBVIOUS
<1>1. PICK i \in Differ : \A k \in Differ : i <= k
  <2>1. Differ \in SUBSET Nat
    OBVIOUS
  <2> HIDE DEF Differ
  <2> QED
    BY <2>1, LeastNumber
<1>2. i \in 0..n /\ i \in 0..m /\ i \in Nat /\ f[i] # g[i]
  OBVIOUS
<1>3. \A k \in 0..(i - 1) : f[k] = g[k]
  BY <1>1, <1>2
<1>4. DigitsBy(f, i) = DigitsBy(g, i)
  BY <1>2, <1>3, DigitsByLower
<1>5. f[i] = DigitsBy(f, i) /\ g[i] = DigitsBy(g, i)
  <2>1. f = [k \in 0..n |-> DigitsBy(f, k)] /\ g = [k \in 0..m |-> DigitsBy(g, k)]
    BY DEF UpTo
  <2> QED
    BY ONLY <1>2, <2>1, Zenon
<1> QED
  BY <1>2, <1>4, <1>5

\* Every number has digits.
LEMMA DigitsDefined == \A n \in Nat : Digits[n] = DigitsBy(Digits, n)
<1> DEFINE F == [n \in Nat |-> (CHOOSE f : UpTo(f, n))[n]]
<1>1. ASSUME NEW n \in Nat, NEW f, UpTo(f, n)
      PROVE  \A i \in 0..n : F[i] = f[i]
  <2> SUFFICES ASSUME NEW i \in 0..n PROVE F[i] = f[i]
    OBVIOUS
  <2> DEFINE g == CHOOSE h : UpTo(h, i)
  <2>1. i \in Nat /\ UpTo(g, i)
    BY UpToExists
  <2>2. F[i] = g[i]
    BY <2>1
  <2> HIDE DEF g
  <2>3. f[i] = g[i]
    BY <1>1, <2>1, UpToAgree
  <2> QED
    BY <2>2, <2>3
<1>2. ASSUME NEW n \in Nat PROVE F[n] = DigitsBy(F, n)
  <2>1. PICK f : UpTo(f, n)
    BY UpToExists
  <2>2. \A i \in 0..n : F[i] = f[i]
    BY <1>1, <2>1
  <2>3. n \in 0..n /\ \A i \in 0..(n - 1) : i \in 0..n
    OBVIOUS
  <2>4. f[n] = DigitsBy(f, n)
    <3>1. f = [i \in 0..n |-> DigitsBy(f, i)]
      BY <2>1 DEF UpTo
    <3> QED
      BY ONLY <2>3, <3>1, Zenon
  <2> HIDE DEF F
  <2>5. DigitsBy(f, n) = DigitsBy(F, n)
    BY <2>2, <2>3, DigitsByLower
  <2> QED
    BY <2>2, <2>3, <2>4, <2>5
<1>3. F = [n \in Nat |-> DigitsBy(F, n)]
  <2>1. F = [n \in Nat |-> F[n]]
    OBVIOUS
  <2> HIDE DEF F
  <2> QED
    BY <1>2, <2>1
<1> HIDE DEF F
<1>4. Digits = [n \in Nat |-> DigitsBy(Digits, n)]
  BY <1>3, Zenon DEF Digits, DigitsBy
<1> QED
  BY <1>4, Zenon

\* The digits d of n, and what is left of n before each of them.
Spells(d, left, n) ==
    /\ d \in Seq(Byte) /\ Len(d) > 0
    /\ left \in [1..Len(d) -> Nat] /\ left[1] = n
    /\ d[Len(d)] < Base /\ \A i \in 1..(Len(d) - 1) : ~(d[i] < Base)
    /\ \A i \in 1..Len(d) :
          left[i] = (d[i] % Base) + (IF i = Len(d) THEN 0 ELSE Base * left[i + 1])

LEMMA Marked ==
  ASSUME NEW a \in 0..(Base - 1)
  PROVE  /\ a \in Byte /\ a % Base = a /\ a + Base \in Byte /\ (a + Base) % Base = a
         /\ a < Base /\ ~(a + Base < Base)
<1>1. Base \in Nat /\ Base > 1
  BY CodecAssumption
<1>2. a % Base = a
  BY <1>1, ModSmall
<1>3. (a + Base) % Base = (a + Base) - Base
  <2>1. a + Base \in Base..(2 * Base - 1) /\ Base \in Nat \ {0}
    BY <1>1
  <2> QED
    BY ONLY <2>1, ModOnce
<1> QED
  BY <1>1, <1>2, <1>3 DEF Byte

LEMMA Prepended ==
  ASSUME NEW S, NEW a \in S, NEW s \in Seq(S)
  PROVE  /\ <<a>> \o s \in Seq(S) /\ Len(<<a>> \o s) = Len(s) + 1 /\ (<<a>> \o s)[1] = a
         /\ \A i \in 2..(Len(s) + 1) : (<<a>> \o s)[i] = s[i - 1]
  OBVIOUS

\* The digits of a number spell it.
LEMMA DigitsSpell == \A n \in Nat : \E left : Spells(Digits[n], left, n)
<1> DEFINE Missing == {n \in Nat : ~ \E left : Spells(Digits[n], left, n)}
<1> SUFFICES ASSUME Missing # {} PROVE FALSE
  OBVIOUS
<1>1. PICK n \in Missing : \A k \in Missing : n <= k
  <2>1. Missing \in SUBSET Nat
    OBVIOUS
  <2> HIDE DEF Missing
  <2> QED
    BY <2>1, LeastNumber
<1>2. n \in Nat /\ ~ \E left : Spells(Digits[n], left, n)
  OBVIOUS
<1>3. Base \in Nat /\ Base > 1
  BY CodecAssumption
<1>4. CASE n < Base
  <2> DEFINE left == [i \in 1..1 |-> n]
  <2>1. Digits[n] = <<n>>
    BY <1>2, <1>4, DigitsDefined DEF DigitsBy
  <2>2. n \in Byte /\ n % Base = n
    BY <1>2, <1>3, <1>4, Marked
  <2>3. Spells(<<n>>, left, n)
    BY <1>2, <1>4, <2>2 DEF Spells
  <2> QED
    BY <1>2, <2>1, <2>3
<1>5. CASE ~(n < Base)
  <2> DEFINE m == n \div Base
             a == n % Base
             s == Digits[m]
             d == <<a + Base>> \o s
  <2>1. m \in Nat /\ a \in 0..(Base - 1) /\ n = Base * m + a /\ m < n
    BY <1>2, <1>3, <1>5, Quotient
  <2>2. Digits[n] = d
    BY <1>2, <1>5, DigitsDefined DEF DigitsBy
  <2> HIDE DEF m, a
  <2>3. m \notin Missing
    <3>1. ~(n <= m)
      BY <1>2, <2>1
    <3> QED
      BY <1>1, <3>1
  <2>4. PICK rest : Spells(s, rest, m)
    BY <2>1, <2>3
  <2> HIDE DEF s
  <2>5. s \in Seq(Byte) /\ Len(s) \in Nat /\ Len(s) > 0 /\ rest \in [1..Len(s) -> Nat]
        /\ rest[1] = m
    BY <2>4 DEF Spells
  <2>6. /\ a + Base \in Byte /\ (a + Base) % Base = a /\ ~(a + Base < Base)
    BY <2>1, Marked
  <2>7. /\ d \in Seq(Byte) /\ Len(d) = Len(s) + 1 /\ d[1] = a + Base
        /\ \A i \in 2..Len(d) : d[i] = s[i - 1]
    BY <2>5, <2>6, Prepended
  <2> HIDE DEF d
  <2> DEFINE left == [i \in 1..Len(d) |-> IF i = 1 THEN n ELSE rest[i - 1]]
  <2>8. /\ left \in [1..Len(d) -> Nat] /\ left[1] = n
        /\ \A i \in 2..Len(d) : left[i] = rest[i - 1]
    BY <1>2, <2>5, <2>7
  <2> HIDE DEF left
  <2>9. d[Len(d)] < Base /\ \A i \in 1..(Len(d) - 1) : ~(d[i] < Base)
    <3>1. d[Len(d)] = s[Len(s)]
      BY <2>5, <2>7
    <3>2. ASSUME NEW i \in 1..(Len(d) - 1) PROVE ~(d[i] < Base)
      <4>1. CASE i = 1
        BY <2>6, <2>7, <4>1
      <4>2. CASE i # 1
        <5>1. i - 1 \in 1..(Len(s) - 1) /\ d[i] = s[i - 1]
          BY <2>5, <2>7, <4>2
        <5> QED
          BY <2>4, <5>1 DEF Spells
      <4> QED
        BY <4>1, <4>2
    <3> QED
      BY <2>4, <3>1, <3>2 DEF Spells
  <2>10. ASSUME NEW i \in 1..Len(d)
         PROVE  left[i] = (d[i] % Base) + (IF i = Len(d) THEN 0 ELSE Base * left[i + 1])
    <3>1. CASE i = 1
      <4>1. left[i + 1] = m /\ i # Len(d)
        BY <2>5, <2>7, <2>8, <3>1
      <4>2. d[i] % Base = a
        BY <2>6, <2>7, <3>1
      <4>3. left[i] = n
        BY <2>8, <3>1
      <4> QED
        BY <1>3, <2>1, <4>1, <4>2, <4>3
    <3>2. CASE i # 1
      <4> DEFINE j == i - 1
      <4>1. /\ j \in 1..Len(s) /\ left[i] = rest[j] /\ d[i] = s[j]
            /\ (i = Len(d) <=> j = Len(s))
            /\ i # Len(d) => left[i + 1] = rest[j + 1]
        <5>1. i \in 2..Len(d) /\ i \in Nat /\ Len(d) \in Nat
          BY <2>5, <2>7, <3>2
        <5>2. j \in 1..Len(s) /\ (i = Len(d) <=> j = Len(s))
          BY <2>5, <2>7, <5>1
        <5>3. left[i] = rest[j] /\ d[i] = s[j]
          BY <2>7, <2>8, <5>1
        <5>4. ASSUME i # Len(d) PROVE left[i + 1] = rest[j + 1]
          <6>1. i + 1 \in 2..Len(d) /\ (i + 1) - 1 = j + 1
            BY <5>1, <5>4
          <6>2. left[i + 1] = rest[(i + 1) - 1]
            BY ONLY <2>8, <6>1
          <6> QED
            BY ONLY <6>1, <6>2
        <5> QED
          BY <5>2, <5>3, <5>4
      <4> HIDE DEF j
      <4>2. rest[j] = (s[j] % Base) + (IF j = Len(s) THEN 0 ELSE Base * rest[j + 1])
        BY <2>4, <4>1 DEF Spells
      <4> QED
        BY <4>1, <4>2
    <3> QED
      BY <3>1, <3>2
  <2>11. Spells(d, left, n)
    BY <2>5, <2>7, <2>8, <2>9, <2>10 DEF Spells
  <2> QED
    BY <1>2, <2>2, <2>11
<1> QED
  BY <1>4, <1>5

LEMMA QuotientsOrdered ==
  ASSUME NEW n \in Nat, NEW m \in Nat, n <= m
  PROVE  n \div Base <= m \div Base
<1> DEFINE q == n \div Base
           p == m \div Base
<1> SUFFICES ASSUME ~(q <= p) PROVE FALSE
  OBVIOUS
<1>1. Base \in Nat /\ Base > 1
  BY CodecAssumption
<1>2. /\ q \in Nat /\ p \in Nat /\ n % Base \in 0..(Base - 1) /\ m % Base \in 0..(Base - 1)
      /\ n = Base * q + (n % Base) /\ m = Base * p + (m % Base)
  BY Quotient
<1> DEFINE d == q - (p + 1)
<1>3. d \in Nat /\ q = d + (p + 1)
  <2> HIDE DEF q, p
  <2> QED
    BY <1>2
<1> HIDE DEF q, p, d
<1>4. Base * q = Base * d + (Base * p + Base) /\ Base * d \in Nat /\ Base * p \in Nat
  BY <1>1, <1>2, <1>3
<1> QED
  BY <1>1, <1>2, <1>4

\* A larger number has no fewer digits.
LEMMA LongerDigits ==
  \A m \in Nat : \A n \in 0..m : Len(Digits[n]) <= Len(Digits[m])
<1> DEFINE Missing == {m \in Nat : ~ \A n \in 0..m : Len(Digits[n]) <= Len(Digits[m])}
<1> SUFFICES ASSUME Missing # {} PROVE FALSE
  OBVIOUS
<1>1. PICK m \in Missing : \A k \in Missing : m <= k
  <2>1. Missing \in SUBSET Nat
    OBVIOUS
  <2> HIDE DEF Missing
  <2> QED
    BY <2>1, LeastNumber
<1>2. PICK n \in 0..m : ~(Len(Digits[n]) <= Len(Digits[m]))
  OBVIOUS
<1>3. m \in Nat /\ n \in Nat /\ n <= m
  OBVIOUS
<1>4. \A k \in Nat : Digits[k] \in Seq(Byte) /\ Len(Digits[k]) \in Nat /\ Len(Digits[k]) > 0
  BY DigitsSpell DEF Spells
<1>5. Base \in Nat /\ Base > 1
  BY CodecAssumption
<1>6. CASE n < Base
  <2>1. Len(Digits[n]) = 1
    <3>1. Digits[n] = <<n>>
      BY <1>3, <1>6, DigitsDefined DEF DigitsBy
    <3> QED
      BY <3>1
  <2> QED
    BY <1>2, <1>3, <1>4, <2>1
<1>7. CASE ~(n < Base)
  <2>1. ASSUME NEW k \in Nat, ~(k < Base)
        PROVE  k \div Base \in Nat /\ Len(Digits[k]) = Len(Digits[k \div Base]) + 1
    <3> DEFINE q == k \div Base
               a == k % Base
    <3>1. q \in Nat /\ a \in 0..(Base - 1)
      BY Quotient
    <3>2. Digits[k] = <<a + Base>> \o Digits[q]
      BY <2>1, DigitsDefined DEF DigitsBy
    <3> HIDE DEF q, a
    <3>3. a + Base \in Byte /\ Digits[q] \in Seq(Byte)
      BY <1>4, <3>1, Marked
    <3>4. Len(<<a + Base>> \o Digits[q]) = Len(Digits[q]) + 1
      BY <3>3, Prepended
    <3> QED
      BY <3>1, <3>2, <3>4 DEF q
  <2>2. ~(m < Base)
    BY <1>3, <1>5, <1>7
  <2> DEFINE q == n \div Base
             p == m \div Base
  <2>3. /\ q \in Nat /\ Len(Digits[n]) = Len(Digits[q]) + 1
        /\ p \in Nat /\ Len(Digits[m]) = Len(Digits[p]) + 1
    BY <1>3, <1>7, <2>1, <2>2
  <2>4. p < m /\ q <= p
    <3>1. m >= Base
      BY <1>3, <1>5, <2>2
    <3>2. p < m
      BY ONLY <1>3, <3>1, Quotient
    <3> QED
      BY ONLY <1>3, <3>2, QuotientsOrdered
  <2> HIDE DEF q, p
  <2>5. p \notin Missing
    <3>1. ~(m <= p)
      BY <1>3, <2>3, <2>4
    <3> QED
      BY <1>1, <3>1
  <2>6. Len(Digits[q]) <= Len(Digits[p])
    BY <2>3, <2>4, <2>5
  <2> QED
    BY <1>2, <1>4, <2>3, <2>6
<1> QED
  BY <1>6, <1>7

\* What is left of a sequence when its beginning is cut off.
LEMMA CutOff ==
  ASSUME NEW s \in Seq(Byte), NEW t \in Seq(Byte)
  PROVE  SubSeq(s \o t, Len(s) + 1, Len(s \o t)) = t
<1>1. Len(s) \in Nat /\ Len(t) \in Nat /\ Len(s \o t) = Len(s) + Len(t)
  OBVIOUS
<1> DEFINE u == SubSeq(s \o t, Len(s) + 1, Len(s) + Len(t))
<1>2. u \in Seq(Byte) /\ Len(u) = Len(t)
  OBVIOUS
<1>3. ASSUME NEW i \in 1..Len(t) PROVE u[i] = t[i]
  OBVIOUS
<1> HIDE DEF u
<1>4. u = t
  BY <1>2, <1>3
<1> QED
  BY <1>1, <1>4 DEF u

\* A number is read as it was written, and what follows it is left.
Number(n, rest) == [ok |-> TRUE, panics |-> FALSE, value |-> n, rest |-> rest]

LEMMA VarIntReadBack ==
  ASSUME NEW numbers \in Nat \ {0}, NEW n \in 0..(numbers - 1), NEW rest \in Seq(Byte)
  PROVE  /\ VarInt(n) \in Seq(Byte)
         /\ ReadVarInt(VarInt(n) \o rest, numbers) = Number(n, rest)
<1> DEFINE d      == Digits[n]
           places == Places(numbers)
           bytes  == d \o rest
           ends   == {i \in DOMAIN bytes : i <= places /\ bytes[i] < Base}
           size   == Min(ends)
<1>1. n \in Nat /\ Base \in Nat /\ Base > 1
  BY CodecAssumption
<1>0. Len(d) <= places
  <2>1. numbers - 1 \in Nat
    OBVIOUS
  <2> QED
    BY <2>1, LongerDigits DEF Places
<1>2. PICK left : Spells(d, left, n)
  BY <1>1, DigitsSpell
<1>3. VarInt(n) = d
  BY DEF VarInt
<1> HIDE DEF d, places
<1>4. d \in Seq(Byte) /\ Len(d) \in Nat /\ Len(d) > 0
  BY <1>2 DEF Spells
<1>5. /\ bytes \in Seq(Byte) /\ Len(bytes) = Len(d) + Len(rest) /\ Len(rest) \in Nat
      /\ \A i \in 1..Len(d) : bytes[i] = d[i]
      /\ DOMAIN bytes = 1..Len(bytes)
  BY <1>4
<1>6. SubSeq(bytes, Len(d) + 1, Len(bytes)) = rest
  BY ONLY <1>4, rest \in Seq(Byte), CutOff
<1> HIDE DEF bytes
<1>7. Len(d) \in ends /\ \A i \in ends : Len(d) <= i /\ i \in Nat
  <2>1. Len(d) \in ends
    BY <1>0, <1>2, <1>4, <1>5 DEF Spells
  <2>2. ASSUME NEW i \in ends PROVE Len(d) <= i /\ i \in Nat
    <3>1. i \in 1..Len(bytes) /\ bytes[i] < Base
      BY <1>5
    <3>2. ASSUME i \in 1..(Len(d) - 1) PROVE FALSE
      <4>1. ~(d[i] < Base)
        BY <1>2, <3>2 DEF Spells
      <4>2. bytes[i] = d[i]
        BY <1>4, <1>5, <3>2
      <4> QED
        BY <3>1, <4>1, <4>2
    <3> QED
      BY <1>4, <1>5, <3>1, <3>2
  <2> QED
    BY <2>1, <2>2
<1>8. size = Len(d)
  <2> HIDE DEF ends
  <2> QED
    BY <1>4, <1>7 DEF Min
<1> DEFINE From(f) == [i \in 1..Len(d) |->
                          (bytes[i] % Base) + (IF i = Len(d) THEN 0 ELSE Base * f[i + 1])]
           from == CHOOSE f : f = From(f)
<1>9. left = From(left)
  BY <1>2, <1>5 DEF Spells
<1>10. from = From(from)
  BY <1>9
<1>11. from[1] = n
  <2> DEFINE Differ == {i \in 1..Len(d) : from[i] # left[i]}
  <2>1. \A i \in 1..Len(d) :
           /\ from[i] = (bytes[i] % Base) + (IF i = Len(d) THEN 0 ELSE Base * from[i + 1])
           /\ left[i] = (bytes[i] % Base) + (IF i = Len(d) THEN 0 ELSE Base * left[i + 1])
    <3> HIDE DEF from
    <3> QED
      BY <1>9, <1>10
  <2> HIDE DEF from
  <2>2. Differ = {}
    <3> SUFFICES ASSUME Differ # {} PROVE FALSE
      OBVIOUS
    <3>1. PICK i \in Differ : \A k \in Differ : i >= k
      <4>1. Differ \in SUBSET (1..Len(d))
        OBVIOUS
      <4> HIDE DEF Differ
      <4> QED
        BY <1>4, <4>1, GreatestNumber
    <3>2. i \in 1..Len(d) /\ from[i] # left[i]
      OBVIOUS
    <3>3. i # Len(d) => from[i + 1] = left[i + 1]
      <4>1. i # Len(d) => i + 1 \in 1..Len(d) /\ ~(i >= i + 1)
        BY <1>4, <3>2
      <4> QED
        BY <3>1, <4>1
    <3> QED
      BY <2>1, <3>2, <3>3
  <2>3. 1 \in 1..Len(d) /\ left[1] = n
    BY <1>2, <1>4 DEF Spells
  <2> QED
    BY <2>2, <2>3
<1>12. ReadVarInt(bytes, numbers) = Number(from[1] % numbers, SubSeq(bytes, Len(d) + 1, Len(bytes)))
  <2> DEFINE each == CHOOSE f : f = [i \in 1..size |->
                          (bytes[i] % Base) + (IF i = size THEN 0 ELSE Base * f[i + 1])]
  <2>1. ReadVarInt(bytes, numbers) =
           IF ends = {} THEN IF Len(bytes) > places THEN Panicked ELSE Failed
           ELSE Number(each[1] % numbers, SubSeq(bytes, size + 1, Len(bytes)))
    BY DEF ReadVarInt, Number, places
  <2> HIDE DEF size, ends
  <2>2. each = from
    BY <1>8
  <2>3. ends # {}
    BY <1>7
  <2> HIDE DEF each, from
  <2> QED
    BY ONLY <1>8, <2>1, <2>2, <2>3
<1>13. n % numbers = n
  BY ModSmall
<1> QED
  BY <1>3, <1>4, <1>6, <1>11, <1>12, <1>13 DEF bytes

-----------------------------------------------------------------------------
(* The metadata of a packet *)

LEMMA Words ==
  /\ Base \in Nat /\ Base > 1 /\ WordCount \in Nat \ {0} /\ 0 \in 0..(WordCount - 1)
  /\ ShortCount \in Nat \ {0}
  /\ ChannelId \in Nat /\ 2 * ChannelId + 1 < WordCount
  /\ Ordered \in BOOLEAN /\ Reliable \in BOOLEAN
  BY CodecAssumption, SegmentsAssumption

LEMMA Joining ==
  ASSUME NEW s \in Seq(Byte), NEW t \in Seq(Byte), NEW u \in Seq(Byte)
  PROVE  s \o t \in Seq(Byte) /\ (s \o t) \o u = s \o (t \o u)
  OBVIOUS

LEMMA Associative ==
  ASSUME NEW s \in Seq(Byte), NEW t \in Seq(Byte), NEW u \in Seq(Byte)
  PROVE  (s \o t) \o u = s \o (t \o u)
  OBVIOUS

LEMMA PrimaryReadBack ==
  ASSUME NEW segment \in BOOLEAN, NEW rest \in Seq(Byte)
  PROVE  /\ PrimaryMetadata(ChannelId, segment) \in Seq(Byte)
         /\ ReadPrimary(PrimaryMetadata(ChannelId, segment) \o rest) =
               [ok |-> TRUE, panics |-> FALSE, rest |-> rest, id |-> ChannelId,
                segment |-> segment]
<1> DEFINE n == 2 * ChannelId + (IF segment THEN 1 ELSE 0)
<1>1. n \in 0..(WordCount - 1) /\ n \div 2 = ChannelId /\ (n % 2 = 1 <=> segment)
  BY Words
<1>2. PrimaryMetadata(ChannelId, segment) = VarInt(n)
  BY DEF PrimaryMetadata
<1> HIDE DEF n
<1>3. /\ VarInt(n) \in Seq(Byte)
      /\ ReadVarInt(VarInt(n) \o rest, WordCount) = Number(n, rest)
  BY <1>1, Words, VarIntReadBack
<1> DEFINE read == ReadVarInt(VarInt(n) \o rest, WordCount)
<1>4. ReadPrimary(VarInt(n) \o rest) =
         [ok |-> read.ok, panics |-> read.panics, rest |-> read.rest,
          id |-> read.value \div 2, segment |-> read.value % 2 = 1]
  BY DEF ReadPrimary
<1>5. read.ok = TRUE /\ read.panics = FALSE /\ read.rest = rest /\ read.value = n
  BY <1>3 DEF Number
<1> HIDE DEF read
<1>6. (read.value % 2 = 1) = segment
  BY <1>1, <1>5
<1>7. ReadPrimary(VarInt(n) \o rest) =
         [ok |-> TRUE, panics |-> FALSE, rest |-> rest, id |-> ChannelId,
          segment |-> segment]
  BY ONLY <1>1, <1>4, <1>5, <1>6
<1> QED
  BY ONLY <1>2, <1>3, <1>7

LEMMA SegmentReadBack ==
  ASSUME NEW key \in 0..(WordCount - 1), NEW segment \in 0..(ShortCount - 1),
         NEW n \in 1..ShortCount, NEW rest \in Seq(Byte)
  PROVE  /\ SegmentMetadata(key, segment, n) \in Seq(Byte)
         /\ ReadSegmentMetadata(SegmentMetadata(key, segment, n) \o rest) =
               [ok |-> TRUE, panics |-> FALSE, rest |-> rest, key |-> key,
                segment |-> segment, count |-> n]
<1> DEFINE a == VarInt(key)
           b == VarInt(segment)
           c == VarInt(n - 1)
<1>1. n - 1 \in 0..(ShortCount - 1) /\ (n - 1) + 1 = n
  BY Words
<1>2. /\ a \in Seq(Byte) /\ b \in Seq(Byte) /\ c \in Seq(Byte)
      /\ \A t \in Seq(Byte) :
            /\ ReadVarInt(a \o t, WordCount) = Number(key, t)
            /\ ReadVarInt(b \o t, ShortCount) = Number(segment, t)
            /\ ReadVarInt(c \o t, ShortCount) = Number(n - 1, t)
  <2>1. \A numbers \in Nat \ {0} : \A k \in 0..(numbers - 1) : \A t \in Seq(Byte) :
           VarInt(k) \in Seq(Byte) /\ ReadVarInt(VarInt(k) \o t, numbers) = Number(k, t)
    BY VarIntReadBack
  <2>2. <<>> \in Seq(Byte)
    OBVIOUS
  <2> QED
    BY <1>1, <2>1, <2>2, Words
<1>3. SegmentMetadata(key, segment, n) = (a \o b) \o c
  BY DEF SegmentMetadata
<1> HIDE DEF a, b, c
<1> DEFINE bc == b \o (c \o rest)
           cr == c \o rest
<1>4. (a \o b) \o c \in Seq(Byte) /\ bc \in Seq(Byte) /\ cr \in Seq(Byte)
  BY <1>2
<1>5. ((a \o b) \o c) \o rest = a \o bc
  <2> DEFINE ab == a \o b
  <2>1. ab \in Seq(Byte)
    BY <1>2
  <2>2. ab \o cr = a \o (b \o cr)
    <3>1. a \in Seq(Byte) /\ b \in Seq(Byte) /\ cr \in Seq(Byte)
      BY <1>2, <1>4
    <3> HIDE DEF cr
    <3>2. (a \o b) \o cr = a \o (b \o cr)
      BY ONLY <3>1, Associative, Zenon
    <3> QED
      BY <3>2
  <2> HIDE DEF ab
  <2>3. (ab \o c) \o rest = ab \o (c \o rest)
    BY ONLY <1>2, <2>1, rest \in Seq(Byte), Joining
  <2> QED
    BY ONLY <2>2, <2>3 DEF ab
<1>6. bc = b \o cr /\ cr = c \o rest
  OBVIOUS
<1> HIDE DEF bc, cr
<1>7. /\ ReadVarInt(a \o bc, WordCount) = Number(key, bc)
      /\ ReadVarInt(bc, ShortCount) = Number(segment, cr)
      /\ ReadVarInt(cr, ShortCount) = Number(n - 1, rest)
  BY <1>2, <1>4, <1>6
<1>8. ReadSegmentMetadata(a \o bc) =
         [ok |-> TRUE, panics |-> FALSE, rest |-> rest, key |-> key,
          segment |-> segment, count |-> n]
  <2> DEFINE x == ReadVarInt(a \o bc, WordCount)
             y == ReadVarInt(x.rest, ShortCount)
             z == ReadVarInt(y.rest, ShortCount)
  <2>1. ReadSegmentMetadata(a \o bc) =
           [ok |-> z.ok, rest |-> z.rest,
            panics |-> x.panics \/ y.panics \/ z.panics,
            key |-> x.value, segment |-> y.value, count |-> z.value + 1]
    BY DEF ReadSegmentMetadata
  <2>2. x.value = key /\ x.rest = bc /\ x.panics = FALSE
    BY <1>7 DEF Number
  <2>3. y.value = segment /\ y.rest = cr /\ y.panics = FALSE
    BY <1>7, <2>2 DEF Number
  <2>4. z.ok = TRUE /\ z.rest = rest /\ z.value = n - 1 /\ z.panics = FALSE
    BY <1>7, <2>3 DEF Number
  <2> HIDE DEF x, y, z
  <2> QED
    BY ONLY <1>1, <2>1, <2>2, <2>3, <2>4
<1> QED
  BY <1>3, <1>4, <1>5, <1>8

LEMMA KeyReadBack ==
  ASSUME NEW n \in 0..(WordCount - 1), NEW rest \in Seq(Byte)
  PROVE  LET key == [index |-> n, generation |-> 0] IN
         /\ KeyBytes(key) \in Seq(Byte)
         /\ ReadKey(KeyBytes(key) \o rest) = Number(key, rest)
<1> DEFINE key == [index |-> n, generation |-> 0]
           a == VarInt(n)
           b == VarInt(0)
           br == b \o rest
<1>1. KeyBytes(key) = a \o b
  BY DEF KeyBytes
<1>2. /\ a \in Seq(Byte) /\ b \in Seq(Byte)
      /\ \A t \in Seq(Byte) :
            /\ ReadVarInt(a \o t, WordCount) = Number(n, t)
            /\ ReadVarInt(b \o t, WordCount) = Number(0, t)
  BY Words, VarIntReadBack
<1> HIDE DEF a, b
<1>3. a \o b \in Seq(Byte) /\ br \in Seq(Byte) /\ (a \o b) \o rest = a \o br
  BY ONLY <1>2, rest \in Seq(Byte), Joining
<1>4. ReadVarInt(br, WordCount) = Number(0, rest)
  BY <1>2
<1> HIDE DEF br
<1>5. ReadVarInt(a \o br, WordCount) = Number(n, br)
  BY <1>2, <1>3
<1>6. ReadKey(a \o br) = Number(key, rest)
  <2> DEFINE x == ReadVarInt(a \o br, WordCount)
             y == ReadVarInt(x.rest, WordCount)
  <2>1. ReadKey(a \o br) =
           [ok |-> y.ok, rest |-> y.rest, panics |-> x.panics \/ y.panics,
            value |-> [index |-> x.value, generation |-> y.value]]
    BY DEF ReadKey
  <2>2. x.value = n /\ x.rest = br /\ x.panics = FALSE
    BY <1>5 DEF Number
  <2>3. y.ok = TRUE /\ y.rest = rest /\ y.value = 0 /\ y.panics = FALSE
    BY <1>4, <2>2 DEF Number
  <2> HIDE DEF x, y
  <2> QED
    BY ONLY <2>1, <2>2, <2>3 DEF Number
<1> QED
  BY <1>1, <1>3, <1>6

\* The order and the key of packet number n.
LEMMA PrefixReadBack ==
  ASSUME NEW order \in 0..(WordCount - 1), NEW n \in 0..(WordCount - 1),
         NEW rest \in Seq(Byte)
  PROVE  /\ Prefix(order, n) \in Seq(Byte)
         /\ LET read == ReadPrefix(Prefix(order, n) \o rest) IN
            /\ read.ok = TRUE /\ read.panics = FALSE /\ read.rest = rest
            /\ Reliable => read.key = [index |-> n, generation |-> 0]
<1> DEFINE key == [index |-> n, generation |-> 0]
           a == IF Ordered THEN VarInt(order) ELSE <<>>
           b == IF Reliable THEN KeyBytes(key) ELSE <<>>
           br == b \o rest
<1>1. Prefix(order, n) = a \o b
  BY DEF Prefix
<1>2. /\ b \in Seq(Byte)
      /\ Reliable => ReadKey(b \o rest) = Number(key, rest)
      /\ ~Reliable => b \o rest = rest
  BY KeyReadBack
<1>3. br \in Seq(Byte)
  BY <1>2
<1>4. /\ a \in Seq(Byte)
      /\ Ordered => ReadVarInt(a \o br, WordCount) = Number(order, br)
      /\ ~Ordered => a \o br = br
  <2> HIDE DEF br
  <2>1. CASE Ordered
    <3>1. a = VarInt(order)
      BY <2>1
    <3>2. /\ VarInt(order) \in Seq(Byte)
          /\ ReadVarInt(VarInt(order) \o br, WordCount) = Number(order, br)
      BY <1>3, Words, VarIntReadBack
    <3> QED
      BY ONLY <2>1, <3>1, <3>2
  <2>2. CASE ~Ordered
    <3>1. a = <<>>
      BY <2>2
    <3> HIDE DEF a
    <3>2. <<>> \in Seq(Byte) /\ <<>> \o br = br
      BY <1>3
    <3> QED
      BY <2>2, <3>1, <3>2
  <2> QED
    BY <2>1, <2>2
<1> HIDE DEF a, b
<1>5. a \o b \in Seq(Byte) /\ (a \o b) \o rest = a \o (b \o rest)
  BY ONLY <1>2, <1>4, rest \in Seq(Byte), Joining
<1>6. /\ Reliable => ReadKey(br) = Number(key, rest)
      /\ ~Reliable => br = rest
  BY <1>2
<1> HIDE DEF br, key
<1> DEFINE read == ReadPrefix(a \o br)
           x == IF Ordered THEN ReadVarInt(a \o br, WordCount) ELSE NoNumber(a \o br)
           y == IF Reliable THEN ReadKey(x.rest) ELSE NoNumber(x.rest)
<1>7. read = [ok |-> x.ok /\ y.ok, panics |-> x.panics \/ y.panics,
              rest |-> y.rest, key |-> y.value]
  BY DEF ReadPrefix
<1>8. x.ok = TRUE /\ x.panics = FALSE /\ x.rest = br
  BY ONLY <1>4, Words DEF Number, NoNumber
<1> HIDE DEF x
<1>9. y.ok = TRUE /\ y.panics = FALSE /\ y.rest = rest /\ (Reliable => y.value = key)
  BY ONLY <1>6, <1>8, Words DEF Number, NoNumber
<1> HIDE DEF y, read
<1>10. read.ok = TRUE /\ read.panics = FALSE /\ read.rest = rest /\ (Reliable => read.key = key)
  BY ONLY <1>7, <1>8, <1>9
<1> QED
  BY <1>1, <1>5, <1>10 DEF key, read, br

-----------------------------------------------------------------------------
(* Chunks *)

LEMMA Sizes ==
  /\ ChunkLen \in Nat /\ ChunkLen > 0 /\ MaxPlainLen \in Nat /\ ChunkLen <= MaxPlainLen
  /\ MaxArrivals \in Nat /\ JoinerCapacity \in Nat
  /\ Message \in Seq(Seq(Byte)) /\ Len(Message) \in Nat /\ IsInjective(Message)
  /\ \A m \in 1..Len(Message) : Message[m] \in Seq(Byte)
  BY SegmentsAssumption

\* How many chunks a payload has.
Pieces(payload) == (Len(payload) + ChunkLen - 1) \div ChunkLen

\* The bytes up to the end of chunk i.
End(payload, i) == IF i * ChunkLen < Len(payload) THEN i * ChunkLen ELSE Len(payload)

LEMMA PiecesReach ==
  ASSUME NEW payload \in Seq(Byte), Len(payload) > 0
  PROVE  /\ Pieces(payload) \in Nat /\ Pieces(payload) > 0
         /\ End(payload, 0) = 0 /\ End(payload, Pieces(payload)) = Len(payload)
         /\ \A i \in 1..Pieces(payload) :
               /\ (i - 1) * ChunkLen \in Nat /\ i * ChunkLen \in Nat
               /\ i * ChunkLen = (i - 1) * ChunkLen + ChunkLen
               /\ End(payload, i - 1) = (i - 1) * ChunkLen
               /\ End(payload, i) \in End(payload, i - 1)..Len(payload)
<1> DEFINE n == Pieces(payload)
           x == Len(payload) + ChunkLen - 1
           r == x % ChunkLen
<1>1. ChunkLen \in Nat \ {0} /\ Len(payload) \in Nat /\ x \in Nat
  BY Sizes
<1>2. n \in Nat /\ r \in 0..(ChunkLen - 1) /\ x = ChunkLen * n + r
  <2>1. n = x \div ChunkLen
    BY DEF Pieces
  <2> HIDE DEF x, n
  <2> QED
    BY <1>1, <2>1
<1>3. n > 0
  <2>1. n = 0 => ChunkLen * n = 0
    BY <1>1, <1>2
  <2> HIDE DEF n, r
  <2> QED
    BY <1>1, <1>2, <2>1
<1> HIDE DEF n, r
<1>4. ASSUME NEW i \in 1..n
      PROVE  /\ (i - 1) * ChunkLen \in Nat /\ i * ChunkLen \in Nat
             /\ i * ChunkLen = (i - 1) * ChunkLen + ChunkLen
             /\ (i - 1) * ChunkLen < Len(payload)
  <2>1. i \in Nat /\ i - 1 \in Nat /\ n - i \in Nat
    BY <1>2
  <2>2. /\ (i - 1) * ChunkLen \in Nat /\ i * ChunkLen \in Nat
        /\ i * ChunkLen = (i - 1) * ChunkLen + ChunkLen
    BY <1>1, <2>1
  <2>3. ChunkLen * n = i * ChunkLen + (n - i) * ChunkLen /\ (n - i) * ChunkLen \in Nat
    BY <1>1, <1>2, <2>1
  <2> QED
    BY <1>1, <1>2, <2>2, <2>3
<1>5. n * ChunkLen >= Len(payload) /\ n * ChunkLen \in Nat
  <2>1. n * ChunkLen = ChunkLen * n /\ n * ChunkLen \in Nat
    BY <1>1, <1>2
  <2> QED
    BY <1>1, <1>2, <2>1
<1>6. 0 * ChunkLen = 0
  BY <1>1
<1>7. End(payload, 0) = 0 /\ End(payload, n) = Len(payload)
  BY <1>1, <1>5, <1>6 DEF End
<1>8. ASSUME NEW i \in 1..n
      PROVE  /\ End(payload, i - 1) = (i - 1) * ChunkLen
             /\ End(payload, i) \in End(payload, i - 1)..Len(payload)
  BY <1>1, <1>4 DEF End
<1> QED
  BY <1>2, <1>3, <1>4, <1>7, <1>8 DEF n

LEMMA ChunksAre ==
  ASSUME NEW payload \in Seq(Byte)
  PROVE  /\ Pieces(payload) \in Nat /\ Len(Chunks(payload)) = Pieces(payload)
         /\ DOMAIN Chunks(payload) = 1..Pieces(payload)
         /\ \A i \in 1..Pieces(payload) :
               /\ Chunks(payload)[i] \in Seq(Byte)
               /\ Chunks(payload)[i] =
                     SubSeq(payload, End(payload, i - 1) + 1, End(payload, i))
         /\ Len(payload) > 0 => Pieces(payload) > 0
<1>1. Pieces(payload) \in Nat
  <2> DEFINE x == Len(payload) + ChunkLen - 1
  <2>1. x \in Nat /\ ChunkLen \in Nat \ {0} /\ Pieces(payload) = x \div ChunkLen
    BY Sizes DEF Pieces
  <2> HIDE DEF x
  <2>2. x \div ChunkLen \in Nat
    BY <2>1
  <2> QED
    BY <2>1, <2>2
<1>2. Chunks(payload) = [i \in 1..Pieces(payload) |->
                            SubSeq(payload, (i - 1) * ChunkLen + 1, End(payload, i))]
  BY DEF Chunks, Pieces, End
<1>3. Len(payload) = 0 => Pieces(payload) = 0
  <2>1. ASSUME Len(payload) = 0 PROVE Pieces(payload) = 0
    <3>1. Pieces(payload) = (ChunkLen - 1) \div ChunkLen
      BY <2>1, Sizes DEF Pieces
    <3> QED
      BY <3>1, Sizes
  <2> QED
    BY <2>1
<1>4. ASSUME NEW i \in 1..Pieces(payload)
      PROVE  /\ Chunks(payload)[i] \in Seq(Byte)
             /\ Chunks(payload)[i] = SubSeq(payload, End(payload, i - 1) + 1, End(payload, i))
  <2>1. Len(payload) > 0 /\ Len(payload) \in Nat
    BY <1>3
  <2>2. /\ (i - 1) * ChunkLen = End(payload, i - 1)
        /\ End(payload, i) \in End(payload, i - 1)..Len(payload)
        /\ End(payload, i - 1) \in Nat
    BY <2>1, PiecesReach
  <2>3. Chunks(payload)[i] = SubSeq(payload, End(payload, i - 1) + 1, End(payload, i))
    BY <1>2, <2>2
  <2>4. SubSeq(payload, End(payload, i - 1) + 1, End(payload, i)) \in Seq(Byte)
    <3> DEFINE a == End(payload, i - 1) + 1
               b == End(payload, i)
    <3>1. a \in Nat \ {0} /\ b \in Nat /\ b <= Len(payload)
      BY <2>1, <2>2
    <3> HIDE DEF a, b
    <3>2. \A k \in a..b : payload[k] \in Byte
      BY <2>1, <3>1
    <3>3. SubSeq(payload, a, b) \in Seq(Byte)
      BY <3>1, <3>2
    <3> QED
      BY <3>3 DEF a, b
  <2> QED
    BY <2>3, <2>4
<1>5. Len(payload) > 0 => Pieces(payload) > 0
  BY PiecesReach
<1>6. DOMAIN Chunks(payload) = 1..Pieces(payload) /\ Len(Chunks(payload)) = Pieces(payload)
  BY <1>1, <1>2
<1> QED
  BY <1>1, <1>4, <1>5, <1>6

LEMMA Appended ==
  ASSUME NEW s \in Seq(Byte), NEW t \in Seq(Byte)
  PROVE  /\ s \o t \in Seq(Byte) /\ Len(s \o t) = Len(s) + Len(t)
         /\ \A i \in 1..(Len(s) + Len(t)) :
               (s \o t)[i] = IF i <= Len(s) THEN s[i] ELSE t[i - Len(s)]
  OBVIOUS

\* Two parts of a payload next to each other.
LEMMA PartsJoin ==
  ASSUME NEW s \in Seq(Byte), NEW j \in 0..Len(s), NEW k \in 0..j
  PROVE  SubSeq(s, 1, j) = SubSeq(s, 1, k) \o SubSeq(s, k + 1, j)
<1> DEFINE a == SubSeq(s, 1, j)
           b == SubSeq(s, 1, k)
           c == SubSeq(s, k + 1, j)
<1>1. /\ j \in Nat /\ k \in Nat /\ k <= j /\ Len(s) \in Nat /\ j <= Len(s)
  OBVIOUS
<1>2. /\ a \in Seq(Byte) /\ Len(a) = j /\ \A i \in 1..j : a[i] = s[i]
  BY <1>1
<1>3. /\ b \in Seq(Byte) /\ Len(b) = k /\ \A i \in 1..k : b[i] = s[i]
  BY <1>1
<1>4. /\ c \in Seq(Byte) /\ Len(c) = j - k /\ \A i \in 1..(j - k) : c[i] = s[k + i]
  <2>1. c \in Seq(Byte)
    <3>1. \A i \in (k + 1)..j : s[i] \in Byte
      BY <1>1
    <3> QED
      BY <1>1, <3>1
  <2>2. Len(c) = j - k
    BY <1>1
  <2>3. \A i \in 1..(j - k) : c[i] = s[k + i]
    BY <1>1
  <2> QED
    BY <2>1, <2>2, <2>3
<1> HIDE DEF a, b, c
<1>5. /\ b \o c \in Seq(Byte) /\ Len(b \o c) = k + (j - k)
      /\ \A i \in 1..(k + (j - k)) : (b \o c)[i] = IF i <= k THEN b[i] ELSE c[i - k]
  <2>0. b \in Seq(Byte) /\ c \in Seq(Byte)
    BY <1>3, <1>4
  <2>1. /\ b \o c \in Seq(Byte) /\ Len(b \o c) = Len(b) + Len(c)
        /\ \A i \in 1..(Len(b) + Len(c)) :
              (b \o c)[i] = IF i <= Len(b) THEN b[i] ELSE c[i - Len(b)]
    BY ONLY <2>0, Appended
  <2>2. Len(b) = k /\ Len(c) = j - k
    BY <1>3, <1>4
  <2> DEFINE d == b \o c
  <2> HIDE DEF d
  <2>3. /\ d \in Seq(Byte) /\ Len(d) = Len(b) + Len(c)
        /\ \A i \in 1..(Len(b) + Len(c)) : d[i] = IF i <= Len(b) THEN b[i] ELSE c[i - Len(b)]
    BY <2>1 DEF d
  <2>4. /\ d \in Seq(Byte) /\ Len(d) = k + (j - k)
        /\ \A i \in 1..(k + (j - k)) : d[i] = IF i <= k THEN b[i] ELSE c[i - k]
    BY ONLY <2>2, <2>3, Zenon
  <2> QED
    BY <2>4 DEF d
<1> DEFINE d == b \o c
<1> HIDE DEF d
<1>8. \A i \in 1..(k + (j - k)) : d[i] = IF i <= k THEN b[i] ELSE c[i - k]
  BY <1>5 DEF d
<1>6. \A i \in 1..j : d[i] = a[i]
  <2> SUFFICES ASSUME NEW i \in 1..j PROVE d[i] = a[i]
    OBVIOUS
  <2>3. i \in Nat /\ i \in 1..(k + (j - k)) /\ a[i] = s[i]
    BY <1>1, <1>2
  <2>4. d[i] = IF i <= k THEN b[i] ELSE c[i - k]
    BY <1>8, <2>3
  <2>1. CASE i <= k
    <3>1. i \in 1..k
      BY <1>1, <2>1, <2>3
    <3> QED
      BY ONLY <1>3, <2>1, <2>3, <2>4, <3>1
  <2>2. CASE ~(i <= k)
    <3>1. i - k \in 1..(j - k) /\ k + (i - k) = i
      BY <1>1, <2>2
    <3>2. c[i - k] = s[i]
      BY ONLY <1>4, <3>1
    <3> QED
      BY ONLY <2>2, <2>3, <2>4, <3>2
  <2> QED
    BY <2>1, <2>2
<1>7. a = b \o c
  <2>1. d \in Seq(Byte) /\ Len(d) = k + (j - k)
    BY <1>5 DEF d
  <2>2. Len(d) = j
    BY <1>1, <2>1
  <2>3. a = d
    BY ONLY <1>1, <1>2, <1>6, <2>1, <2>2
  <2> QED
    BY <2>3 DEF d
<1> QED
  BY <1>7 DEF a, b, c

\* The chunks of a payload make up the payload.
LEMMA ChunksJoin ==
  ASSUME NEW payload \in Seq(Byte), Len(payload) > 0
  PROVE  FlattenSeq(Chunks(payload)) = payload
<1> DEFINE n == Pieces(payload)
           c == Chunks(payload)
           upto == [i \in 1..n |-> SubSeq(payload, 1, End(payload, i))]
           F(f) == [i \in 1..n |-> IF i = 1 THEN c[i] ELSE f[i - 1] \o c[i]]
           flat == CHOOSE f : f = F(f)
<1>1. /\ n \in Nat /\ n > 0 /\ Len(c) = n /\ Len(payload) \in Nat
      /\ End(payload, 0) = 0 /\ End(payload, n) = Len(payload)
      /\ \A i \in 1..n : /\ End(payload, i - 1) \in Nat
                         /\ End(payload, i) \in End(payload, i - 1)..Len(payload)
                         /\ c[i] = SubSeq(payload, End(payload, i - 1) + 1, End(payload, i))
  BY PiecesReach, ChunksAre
<1>2. FlattenSeq(c) = flat[n]
  <2>1. Len(c) # 0
    BY <1>1
  <2> HIDE DEF c
  <2>2. FlattenSeq(c) = (CHOOSE f : f = [i \in 1..Len(c) |->
                            IF i = 1 THEN c[i] ELSE f[i - 1] \o c[i]])[Len(c)]
    BY <2>1 DEF FlattenSeq
  <2> HIDE DEF n
  <2> QED
    BY <1>1, <2>2
<1> HIDE DEF n, c
<1>3. ASSUME NEW i \in 1..n
      PROVE  upto[i] = IF i = 1 THEN c[i] ELSE upto[i - 1] \o c[i]
  <2> DEFINE k == End(payload, i - 1)
             j == End(payload, i)
  <2>1. k \in Nat /\ j \in k..Len(payload) /\ c[i] = SubSeq(payload, k + 1, j)
    BY <1>1
  <2>2. upto[i] = SubSeq(payload, 1, j)
    OBVIOUS
  <2>3. i # 1 => upto[i - 1] = SubSeq(payload, 1, k)
    <3>1. i # 1 => i - 1 \in 1..n
      BY <1>1
    <3> QED
      BY <3>1
  <2>4. i = 1 => k = 0
    BY <1>1
  <2> HIDE DEF k, j, upto
  <2>5. SubSeq(payload, 1, j) = SubSeq(payload, 1, k) \o SubSeq(payload, k + 1, j)
    <3>1. j \in 0..Len(payload) /\ k \in 0..j
      BY <1>1, <2>1
    <3> QED
      BY ONLY payload \in Seq(Byte), <3>1, PartsJoin
  <2>6. CASE i = 1
    BY <2>1, <2>2, <2>4, <2>6
  <2>7. CASE i # 1
    BY <2>1, <2>2, <2>3, <2>5, <2>7
  <2> QED
    BY <2>6, <2>7
<1>4. upto = F(upto)
  <2>1. upto = [i \in 1..n |-> upto[i]]
    OBVIOUS
  <2> HIDE DEF upto
  <2> QED
    BY <1>3, <2>1
<1>5. flat = F(flat)
  <2> HIDE DEF upto
  <2> QED
    BY <1>4
<1>6. \A i \in 1..n : flat[i] = upto[i]
  <2> DEFINE Differ == {i \in 1..n : flat[i] # upto[i]}
  <2> SUFFICES ASSUME Differ # {} PROVE FALSE
    OBVIOUS
  <2>1. PICK i \in Differ : \A k \in Differ : i <= k
    <3>1. Differ \in SUBSET Nat
      <4>1. 1..n \subseteq Nat
        BY <1>1
      <4> QED
        BY <4>1
    <3> HIDE DEF Differ
    <3> QED
      BY <3>1, LeastNumber
  <2>2. i \in 1..n /\ flat[i] # upto[i]
    OBVIOUS
  <2>3. flat[i] = IF i = 1 THEN c[i] ELSE flat[i - 1] \o c[i]
    <3> HIDE DEF flat
    <3> QED
      BY <1>5, <2>2
  <2>4. i # 1 => flat[i - 1] = upto[i - 1]
    <3>1. i # 1 => i - 1 \in 1..n /\ ~(i <= i - 1)
      <4>1. n \in Nat /\ i \in 1..n
        BY <1>1, <2>2
      <4> HIDE DEF flat, upto, Differ
      <4> QED
        BY ONLY <4>1
    <3> QED
      BY <2>1, <3>1
  <2> HIDE DEF flat, upto, Differ
  <2>5. upto[i] = IF i = 1 THEN c[i] ELSE upto[i - 1] \o c[i]
    BY <1>3, <2>2
  <2> QED
    BY ONLY <2>2, <2>3, <2>4, <2>5
<1>7. upto[n] = payload
  <2>0. n \in 1..n /\ End(payload, n) = Len(payload)
    BY <1>1
  <2>1. upto[n] = SubSeq(payload, 1, Len(payload))
    BY ONLY <2>0 DEF upto
  <2>2. SubSeq(payload, 1, Len(payload)) = payload
    BY ONLY payload \in Seq(Byte)
  <2> QED
    BY ONLY <2>1, <2>2
<1> HIDE DEF flat, upto
<1>8. flat[n] = payload
  <2>1. n \in 1..n
    BY <1>1
  <2> QED
    BY ONLY <1>6, <1>7, <2>1
<1>9. FlattenSeq(c) = payload
  BY ONLY <1>2, <1>8
<1> QED
  BY <1>9 DEF c

-----------------------------------------------------------------------------
(* What was sent *)

\* Fewer packets than there are numbers of a word.
FewPackets == Len(packets) < WordCount

\* How many packets message number m takes.
PacketsOf(m) == IF IsLong(Message[m]) THEN Pieces(Message[m]) ELSE 1

\* The bytes of a piece of message number m when n packets went before it.
BytesOf(m, key, segment, n) ==
    IF IsLong(Message[m])
    THEN PrimaryMetadata(ChannelId, TRUE)
             \o SegmentMetadata(key, segment, Pieces(Message[m]))
             \o Prefix(m - 1, n)
             \o Chunks(Message[m])[segment + 1]
    ELSE PrimaryMetadata(ChannelId, FALSE) \o Prefix(m - 1, n) \o Message[m]

\* Packet number i is one of those of its message.
Written(i) ==
    /\ packets[i].message \in 1..count /\ packets[i].message <= i
    /\ packets[i].key \in 0..(WordCount - 1)
    /\ packets[i].segment \in 0..(PacketsOf(packets[i].message) - 1)
    /\ packets[i].segment < i
    /\ PacketsOf(packets[i].message) <= Len(packets)
    /\ PacketsOf(packets[i].message) <= ShortCount
    /\ packets[i].bytes =
           BytesOf(packets[i].message, packets[i].key, packets[i].segment, i - 1)

LEMMA LongHasPieces ==
  ASSUME NEW m \in 1..Len(Message)
  PROVE  /\ Message[m] \in Seq(Byte) /\ IsLong(Message[m]) \in BOOLEAN
         /\ IsLong(Message[m]) => Len(Message[m]) > 0
         /\ Pieces(Message[m]) \in Nat
         /\ PacketsOf(m) \in Nat /\ PacketsOf(m) > 0
<1>1. Message[m] \in Seq(Byte)
  BY Sizes
<1>2. IsLong(Message[m]) \in BOOLEAN
  BY DEF IsLong
<1>3. IsLong(Message[m]) => Len(Message[m]) > 0
  BY <1>1, Sizes DEF IsLong
<1>4. Pieces(Message[m]) \in Nat /\ (Len(Message[m]) > 0 => Pieces(Message[m]) > 0)
  BY <1>1, ChunksAre
<1> QED
  BY <1>1, <1>2, <1>3, <1>4 DEF PacketsOf

\* What the receiver reads from packet number i.
ReadAs(i) ==
    LET packet  == packets[i]
        payload == Message[packet.message]
        primary == ReadPrimary(packet.bytes)
        meta    == ReadSegmentMetadata(primary.rest)
        prefix  == ReadPrefix(IF primary.segment THEN meta.rest ELSE primary.rest)
    IN /\ primary.ok /\ ~primary.panics /\ primary.id = ChannelId
       /\ primary.segment = IsLong(payload)
       /\ primary.segment =>
              /\ meta.ok /\ ~meta.panics
              /\ meta.key = packet.key /\ meta.segment = packet.segment
              /\ meta.count = Len(Chunks(payload))
       /\ prefix.ok /\ ~prefix.panics
       /\ prefix.rest = IF primary.segment THEN Chunks(payload)[packet.segment + 1]
                        ELSE payload
       /\ Reliable => prefix.key = [index |-> i - 1, generation |-> 0]

LEMMA PacketReadBack ==
  ASSUME count \in 0..Len(Message), FewPackets, Len(packets) \in Nat,
         NEW i \in 1..Len(packets), Written(i)
  PROVE  ReadAs(i)
<1> DEFINE m       == packets[i].message
           key     == packets[i].key
           segment == packets[i].segment
           payload == Message[m]
           order   == m - 1
           n       == i - 1
           bytes   == packets[i].bytes
<1>1. /\ m \in 1..Len(Message) /\ order \in 0..(WordCount - 1) /\ n \in 0..(WordCount - 1)
      /\ key \in 0..(WordCount - 1) /\ segment \in 0..(ShortCount - 1)
      /\ segment \in 0..(PacketsOf(m) - 1) /\ PacketsOf(m) <= ShortCount
  <2>1. Len(Message) \in Nat /\ WordCount \in Nat /\ ShortCount \in Nat
    BY Sizes, Words
  <2>2. m \in 1..Len(Message) /\ m <= i /\ i < WordCount /\ i \in Nat
    BY <2>1 DEF Written, FewPackets
  <2>3. PacketsOf(m) \in Nat
    BY <2>2, LongHasPieces
  <2>4. segment \in 0..(PacketsOf(m) - 1) /\ PacketsOf(m) <= ShortCount
        /\ key \in 0..(WordCount - 1)
    BY DEF Written
  <2> HIDE DEF m, key, segment
  <2> QED
    BY <2>1, <2>2, <2>3, <2>4 DEF FewPackets
<1>2. /\ payload \in Seq(Byte) /\ IsLong(payload) \in BOOLEAN
      /\ IsLong(payload) => Len(payload) > 0 /\ PacketsOf(m) = Pieces(payload)
      /\ Pieces(payload) \in Nat /\ PacketsOf(m) > 0
  BY <1>1, LongHasPieces DEF PacketsOf
<1>3. bytes = BytesOf(m, key, segment, n)
  BY DEF Written
<1> DEFINE b == Prefix(order, n)
<1>4. /\ b \in Seq(Byte)
      /\ \A rest \in Seq(Byte) :
            LET read == ReadPrefix(b \o rest) IN
            /\ read.ok = TRUE /\ read.panics = FALSE /\ read.rest = rest
            /\ Reliable => read.key = [index |-> n, generation |-> 0]
  <2> HIDE DEF order, n
  <2>1. \A rest \in Seq(Byte) :
            LET read == ReadPrefix(b \o rest) IN
            /\ b \in Seq(Byte)
            /\ read.ok = TRUE /\ read.panics = FALSE /\ read.rest = rest
            /\ Reliable => read.key = [index |-> n, generation |-> 0]
    BY ONLY <1>1, PrefixReadBack
  <2>2. <<>> \in Seq(Byte)
    OBVIOUS
  <2> HIDE DEF b
  <2> QED
    BY ONLY <2>1, <2>2
<1>5. CASE IsLong(payload)
  <2> DEFINE a == PrimaryMetadata(ChannelId, TRUE)
             c == SegmentMetadata(key, segment, Pieces(payload))
             d == Chunks(payload)[segment + 1]
             bd == b \o d
             cbd == c \o bd
  <2>1. d \in Seq(Byte) /\ Len(Chunks(payload)) = Pieces(payload)
    <3>1. segment \in 0..(PacketsOf(m) - 1) /\ PacketsOf(m) = Pieces(payload)
      BY <1>1, <1>2, <1>5
    <3> HIDE DEF payload, segment, m
    <3>2. segment + 1 \in 1..Pieces(payload)
      BY <1>2, <3>1
    <3> QED
      BY <1>2, <3>2, ChunksAre
  <2>2. bytes = ((a \o c) \o b) \o d
    BY <1>3, <1>5 DEF BytesOf
  <2>3. c \in Seq(Byte) /\ bd \in Seq(Byte) /\ cbd \in Seq(Byte)
        /\ ReadSegmentMetadata(cbd) =
              [ok |-> TRUE, panics |-> FALSE, rest |-> bd, key |-> key,
               segment |-> segment, count |-> Pieces(payload)]
    <3>1. Pieces(payload) \in 1..ShortCount
      BY <1>1, <1>2, <1>5, Words
    <3> HIDE DEF b, d, payload, key, segment
    <3>2. bd \in Seq(Byte)
      BY <1>4, <2>1
    <3> HIDE DEF bd
    <3>3. c \in Seq(Byte)
        /\ ReadSegmentMetadata(c \o bd) =
              [ok |-> TRUE, panics |-> FALSE, rest |-> bd, key |-> key,
               segment |-> segment, count |-> Pieces(payload)]
      <4>1. key \in 0..(WordCount - 1) /\ segment \in 0..(ShortCount - 1)
        BY <1>1
      <4> QED
        BY ONLY <3>1, <3>2, <4>1, SegmentReadBack
    <3> HIDE DEF c
    <3> QED
      BY <3>2, <3>3
  <2> HIDE DEF c, d, b, payload, key, segment, order, n, m, bytes
  <2>4. a \in Seq(Byte)
        /\ ReadPrimary(a \o cbd) =
              [ok |-> TRUE, panics |-> FALSE, rest |-> cbd, id |-> ChannelId,
               segment |-> TRUE]
    <3> HIDE DEF cbd
    <3> QED
      BY <2>3, PrimaryReadBack
  <2> HIDE DEF a
  <2>5. bytes = a \o cbd
    <3>1. a \o c \in Seq(Byte) /\ (a \o c) \o bd = a \o (c \o bd)
      <4> HIDE DEF bd
      <4> QED
        BY ONLY <2>3, <2>4, Joining
    <3> DEFINE ac == a \o c
    <3>2. ac \in Seq(Byte)
      BY <3>1
    <3> HIDE DEF ac
    <3>3. (ac \o b) \o d = ac \o (b \o d)
      BY ONLY <1>4, <2>1, <3>2, Joining
    <3> QED
      BY <2>2, <3>1, <3>3 DEF ac
  <2>6. /\ ReadPrefix(bd).ok = TRUE /\ ReadPrefix(bd).panics = FALSE /\ ReadPrefix(bd).rest = d
        /\ Reliable => ReadPrefix(bd).key = [index |-> n, generation |-> 0]
    BY <1>4, <2>1
  <2> HIDE DEF bd, cbd
  <2> DEFINE primary == ReadPrimary(bytes)
             meta    == ReadSegmentMetadata(primary.rest)
             prefix  == ReadPrefix(IF primary.segment THEN meta.rest ELSE primary.rest)
  <2>7. /\ primary.ok = TRUE /\ primary.panics = FALSE
        /\ primary.id = ChannelId /\ primary.segment = TRUE /\ primary.rest = cbd
    BY <2>4, <2>5
  <2> HIDE DEF primary
  <2>8. meta.ok = TRUE /\ meta.panics = FALSE /\ meta.rest = bd /\ meta.key = key /\ meta.segment = segment
        /\ meta.count = Pieces(payload)
    BY <2>3, <2>7
  <2> HIDE DEF meta
  <2>9. prefix = ReadPrefix(bd)
    BY <2>7, <2>8
  <2> HIDE DEF prefix
  <2>10. /\ primary.ok /\ ~primary.panics /\ primary.id = ChannelId
         /\ primary.segment = IsLong(payload)
         /\ primary.segment => /\ meta.ok /\ ~meta.panics
                               /\ meta.key = key /\ meta.segment = segment
                               /\ meta.count = Len(Chunks(payload))
         /\ prefix.ok /\ ~prefix.panics
         /\ prefix.rest = IF primary.segment THEN d ELSE payload
         /\ Reliable => prefix.key = [index |-> n, generation |-> 0]
    BY <1>5, <2>1, <2>6, <2>7, <2>8, <2>9
  <2> QED
    BY <2>10 DEF ReadAs, primary, meta, prefix, payload, bytes, key, segment, d, m, n
<1>6. CASE ~IsLong(payload)
  <2> DEFINE a == PrimaryMetadata(ChannelId, FALSE)
             bd == b \o payload
  <2>1. bytes = (a \o b) \o payload
    BY <1>3, <1>6 DEF BytesOf
  <2> HIDE DEF b, payload, key, segment, order, n, m, bytes
  <2>2. bd \in Seq(Byte)
    BY <1>2, <1>4
  <2>3. a \in Seq(Byte)
        /\ ReadPrimary(a \o bd) =
              [ok |-> TRUE, panics |-> FALSE, rest |-> bd, id |-> ChannelId,
               segment |-> FALSE]
    <3> HIDE DEF bd
    <3> QED
      BY <2>2, PrimaryReadBack
  <2> HIDE DEF a
  <2>4. bytes = a \o bd
    <3>1. (a \o b) \o payload = a \o (b \o payload)
      BY ONLY <1>2, <1>4, <2>3, Joining
    <3> QED
      BY <2>1, <3>1
  <2>5. /\ ReadPrefix(bd).ok = TRUE /\ ReadPrefix(bd).panics = FALSE
        /\ ReadPrefix(bd).rest = payload
        /\ Reliable => ReadPrefix(bd).key = [index |-> n, generation |-> 0]
    BY <1>2, <1>4
  <2> HIDE DEF bd
  <2> DEFINE primary == ReadPrimary(bytes)
             meta    == ReadSegmentMetadata(primary.rest)
             prefix  == ReadPrefix(IF primary.segment THEN meta.rest ELSE primary.rest)
  <2>6. /\ primary.ok = TRUE /\ primary.panics = FALSE
        /\ primary.id = ChannelId /\ primary.segment = FALSE /\ primary.rest = bd
    BY <2>3, <2>4
  <2> HIDE DEF primary
  <2>7. prefix = ReadPrefix(bd)
    BY <2>6
  <2> HIDE DEF prefix, meta
  <2>8. /\ primary.ok /\ ~primary.panics /\ primary.id = ChannelId
        /\ primary.segment = IsLong(payload)
        /\ ~primary.segment
        /\ prefix.ok /\ ~prefix.panics
        /\ prefix.rest = payload
        /\ Reliable => prefix.key = [index |-> n, generation |-> 0]
    BY <1>2, <1>6, <2>5, <2>6, <2>7
  <2> QED
    BY <2>8 DEF ReadAs, primary, meta, prefix, payload, bytes, key, segment, m, n
<1> QED
  BY <1>2, <1>5, <1>6

APacket == [message : Nat, key : Nat, segment : Nat, bytes : Seq(Byte)]

\* The packets of message number m when n went before.
PacketsFor(m, n, key) ==
    [k \in 1..PacketsOf(m) |-> Packet(m, key, k - 1, BytesOf(m, key, k - 1, n + k - 1))]

LEMMA BytesTyped ==
  ASSUME NEW m \in 1..Len(Message), NEW key \in 0..(WordCount - 1), NEW n \in 0..(WordCount - 1),
         m <= WordCount, PacketsOf(m) <= ShortCount,
         NEW segment \in 0..(PacketsOf(m) - 1)
  PROVE  BytesOf(m, key, segment, n) \in Seq(Byte)
<1> DEFINE payload == Message[m]
           order   == m - 1
           b       == Prefix(order, n)
<1>1. /\ payload \in Seq(Byte) /\ IsLong(payload) \in BOOLEAN
      /\ IsLong(payload) => Len(payload) > 0 /\ PacketsOf(m) = Pieces(payload)
      /\ Pieces(payload) \in Nat /\ PacketsOf(m) > 0 /\ PacketsOf(m) \in Nat
  BY LongHasPieces DEF PacketsOf
<1>2. order \in 0..(WordCount - 1) /\ m \in Nat /\ segment \in 0..(ShortCount - 1)
  <2>1. WordCount \in Nat /\ ShortCount \in Nat /\ Len(Message) \in Nat
    BY Words, Sizes
  <2> QED
    BY <1>1, <2>1
<1>3. b \in Seq(Byte)
  <2> HIDE DEF order
  <2>1. \A rest \in Seq(Byte) : b \in Seq(Byte)
    BY <1>2, PrefixReadBack
  <2>2. <<>> \in Seq(Byte)
    OBVIOUS
  <2> QED
    BY ONLY <2>1, <2>2
<1>4. <<>> \in Seq(Byte)
  OBVIOUS
<1>5. CASE IsLong(payload)
  <2> DEFINE a == PrimaryMetadata(ChannelId, TRUE)
             c == SegmentMetadata(key, segment, Pieces(payload))
             d == Chunks(payload)[segment + 1]
  <2>1. a \in Seq(Byte)
    BY ONLY <1>4, PrimaryReadBack, TRUE \in BOOLEAN
  <2>2. c \in Seq(Byte)
    <3>1. Pieces(payload) \in 1..ShortCount
      BY <1>1, <1>5, Words
    <3> HIDE DEF payload
    <3>2. key \in 0..(WordCount - 1)
      OBVIOUS
    <3> QED
      BY ONLY <1>2, <1>4, <3>1, <3>2, SegmentReadBack
  <2>3. d \in Seq(Byte)
    <3>1. segment + 1 \in 1..Pieces(payload)
      BY <1>1, <1>2, <1>5
    <3> HIDE DEF payload
    <3> QED
      BY <1>1, <3>1, ChunksAre
  <2>4. BytesOf(m, key, segment, n) = ((a \o c) \o b) \o d
    BY <1>5 DEF BytesOf
  <2> HIDE DEF a, b, c, d
  <2> QED
    BY ONLY <1>3, <2>1, <2>2, <2>3, <2>4, Joining
<1>6. CASE ~IsLong(payload)
  <2> DEFINE a == PrimaryMetadata(ChannelId, FALSE)
  <2>1. a \in Seq(Byte)
    BY ONLY <1>4, PrimaryReadBack, FALSE \in BOOLEAN
  <2>2. BytesOf(m, key, segment, n) = (a \o b) \o payload
    BY <1>6 DEF BytesOf
  <2> HIDE DEF a, b, payload
  <2> QED
    BY ONLY <1>1, <1>3, <2>1, <2>2, Joining
<1> QED
  BY <1>1, <1>5, <1>6

\* A step of Send, packet by packet.
SentAre(m, n, key) ==
    /\ m \in 1..Len(Message) /\ count' = m /\ m = count + 1
    /\ PacketsOf(m) <= ShortCount
    /\ packets' = packets \o PacketsFor(m, n, key)
    /\ arrivals' = arrivals \o [k \in 1..PacketsOf(m) |-> 0]
    /\ IF IsLong(Message[m]) THEN key = counter /\ counter' = (counter + 1) % WordCount
       ELSE key = 0 /\ counter' = counter
    /\ UNCHANGED <<joiner, seen, alive, passed>>

LEMMA SendIs ==
  ASSUME count \in 0..Len(Message), Len(packets) \in Nat, Send
  PROVE  \E m, key : SentAre(m, Len(packets), key)
<1> DEFINE m    == count + 1
           long == IsLong(Message[m])
           n    == Len(packets)
           key  == IF long THEN counter ELSE 0
           new  == IF long THEN Segmented(m, n, counter) ELSE Plain(m, n)
<1>1. /\ count < Len(Message) /\ Countable(Message[m])
      /\ packets'  = packets \o new
      /\ arrivals' = arrivals \o [i \in DOMAIN new |-> 0]
      /\ counter'  = IF long THEN (counter + 1) % WordCount ELSE counter
      /\ count'    = m
      /\ UNCHANGED <<joiner, seen, alive, passed>>
  BY DEF Send
<1>2. m \in 1..Len(Message) /\ m \in Nat
  BY <1>1, Sizes
<1> HIDE DEF m
<1>3. Message[m] \in Seq(Byte) /\ long \in BOOLEAN /\ PacketsOf(m) \in Nat
  BY <1>2, LongHasPieces
<1>0. PacketsOf(m) <= ShortCount
  <2>1. Len(Chunks(Message[m])) = Pieces(Message[m]) /\ 1 <= ShortCount
    BY <1>3, ChunksAre, Words
  <2> QED
    BY <1>1, <1>3, <2>1 DEF PacketsOf, Countable
<1>4. new = PacketsFor(m, n, key)
  <2>1. CASE long
    <3> DEFINE chunks == Chunks(Message[m])
    <3>1. DOMAIN chunks = 1..PacketsOf(m) /\ Len(chunks) = PacketsOf(m)
          /\ PacketsOf(m) = Pieces(Message[m])
      BY <1>3, <2>1, ChunksAre DEF PacketsOf
    <3>2. new = [i \in 1..PacketsOf(m) |->
                    Packet(m, counter, i - 1,
                           PrimaryMetadata(ChannelId, TRUE)
                               \o SegmentMetadata(counter, i - 1, Pieces(Message[m]))
                               \o Prefix(m - 1, n + i - 1)
                               \o chunks[i])]
      BY <2>1, <3>1 DEF Segmented
    <3>3. ASSUME NEW i \in 1..PacketsOf(m)
          PROVE  BytesOf(m, counter, i - 1, n + i - 1) =
                    PrimaryMetadata(ChannelId, TRUE)
                        \o SegmentMetadata(counter, i - 1, Pieces(Message[m]))
                        \o Prefix(m - 1, n + i - 1)
                        \o chunks[i]
      <4>1. (i - 1) + 1 = i
        BY <1>3
      <4> QED
        BY <2>1, <4>1 DEF BytesOf
    <3> HIDE DEF chunks, n
    <3>4. new = [i \in 1..PacketsOf(m) |->
                    Packet(m, counter, i - 1, BytesOf(m, counter, i - 1, n + i - 1))]
      BY ONLY <3>2, <3>3, Zenon
    <3> QED
      BY <2>1, <3>4 DEF PacketsFor
  <2>2. CASE ~long
    <3>1. PacketsOf(m) = 1
      BY <2>2 DEF PacketsOf
    <3>2. new = <<Packet(m, 0, 0, BytesOf(m, 0, 0, n))>>
      BY <2>2 DEF Plain, BytesOf
    <3>3. PacketsFor(m, n, key) =
             [k \in 1..1 |-> Packet(m, 0, k - 1, BytesOf(m, 0, k - 1, n + k - 1))]
      BY <2>2, <3>1 DEF PacketsFor
    <3>4. ASSUME NEW k \in 1..1 PROVE k = 1 /\ k - 1 = 0 /\ n + k - 1 = n
      OBVIOUS
    <3> HIDE DEF n
    <3>5. PacketsFor(m, n, key) = [k \in 1..1 |-> Packet(m, 0, 0, BytesOf(m, 0, 0, n))]
      BY ONLY <3>3, <3>4, Zenon
    <3> DEFINE p == Packet(m, 0, 0, BytesOf(m, 0, 0, n))
    <3> HIDE DEF p
    <3>6. [k \in 1..1 |-> p] = <<p>>
      OBVIOUS
    <3> QED
      BY <3>2, <3>5, <3>6 DEF p
  <2> QED
    BY <1>3, <2>1, <2>2
<1>5. DOMAIN new = 1..PacketsOf(m)
  BY <1>4 DEF PacketsFor
<1> HIDE DEF new, n
<1>6. m = count + 1
  BY DEF m
<1>7. SentAre(m, n, key)
  BY ONLY <1>0, <1>1, <1>2, <1>3, <1>4, <1>5, <1>6 DEF SentAre
<1> QED
  BY <1>7 DEF n

\* Long messages have keys of their own, from below the counter.
KeysUsed ==
    \A i \in 1..Len(packets) :
        IsLong(Message[packets[i].message]) => packets[i].key < counter

KeysApart ==
    \A i, j \in 1..Len(packets) :
        IsLong(Message[packets[i].message]) /\ IsLong(Message[packets[j].message]) =>
            (packets[i].key = packets[j].key <=> packets[i].message = packets[j].message)

\* A piece of a message is in one packet, and every piece is in one.
PackedOnce ==
    \A i, j \in 1..Len(packets) :
        packets[i].message = packets[j].message /\ packets[i].segment = packets[j].segment
            => i = j

AllPacked ==
    \A m \in 1..count : \A k \in 0..(PacketsOf(m) - 1) :
        \E i \in 1..Len(packets) : packets[i].message = m /\ packets[i].segment = k

\* As many entries as there are packets.
SentTyped ==
    /\ count \in 0..Len(Message) /\ counter \in 0..(WordCount - 1)
    /\ counter <= count /\ count <= Len(packets)
    /\ packets \in Seq(APacket)
    /\ arrivals \in Seq(0..MaxArrivals) /\ Len(arrivals) = Len(packets)

SentInvariant ==
    /\ SentTyped
    /\ \A i \in 1..Len(packets) : Written(i)
    /\ KeysUsed /\ KeysApart /\ PackedOnce /\ AllPacked

\* The packets of message number m went behind the others.
Grown(m, n, key) ==
    /\ n = Len(packets) /\ m = count + 1 /\ m \in 1..Len(Message) /\ count' = m
    /\ key \in 0..(WordCount - 1) /\ PacketsOf(m) \in Nat /\ PacketsOf(m) > 0
    /\ PacketsOf(m) <= ShortCount
    /\ packets' \in Seq(APacket) /\ Len(packets') = n + PacketsOf(m)
    /\ arrivals' \in Seq(0..MaxArrivals) /\ Len(arrivals') = n + PacketsOf(m)
    /\ \A i \in 1..n : packets'[i] = packets[i] /\ arrivals'[i] = arrivals[i]
    /\ \A i \in (n + 1)..(n + PacketsOf(m)) :
          /\ packets'[i] = Packet(m, key, i - n - 1, BytesOf(m, key, i - n - 1, i - 1))
          /\ arrivals'[i] = 0
    /\ counter' = (IF IsLong(Message[m]) THEN counter + 1 ELSE counter)
    /\ IsLong(Message[m]) => key = counter
    /\ counter' \in 0..(WordCount - 1)
    /\ UNCHANGED <<joiner, seen, alive, passed>>

LEMMA PacketsAppended ==
  ASSUME NEW s \in Seq(APacket), NEW t \in Seq(APacket)
  PROVE  /\ s \o t \in Seq(APacket) /\ Len(s \o t) = Len(s) + Len(t)
         /\ \A i \in 1..Len(s) : (s \o t)[i] = s[i]
         /\ \A i \in (Len(s) + 1)..(Len(s) + Len(t)) : (s \o t)[i] = t[i - Len(s)]
  OBVIOUS

LEMMA ArrivalsAppended ==
  ASSUME NEW s \in Seq(0..MaxArrivals), NEW t \in Seq(0..MaxArrivals)
  PROVE  /\ s \o t \in Seq(0..MaxArrivals) /\ Len(s \o t) = Len(s) + Len(t)
         /\ \A i \in 1..Len(s) : (s \o t)[i] = s[i]
         /\ \A i \in (Len(s) + 1)..(Len(s) + Len(t)) : (s \o t)[i] = t[i - Len(s)]
  OBVIOUS

\* Whatever the packets are, they are a sequence.
Listed == \E S : packets \in Seq(S)

LEMMA SendLengthens ==
  ASSUME NEW S, packets \in Seq(S), NEW m \in 1..Len(Message), NEW key,
         packets' = packets \o PacketsFor(m, Len(packets), key)
  PROVE  /\ Len(PacketsFor(m, Len(packets), key)) = PacketsOf(m)
         /\ Len(packets') = Len(packets) + PacketsOf(m)
         /\ Len(packets) \in Nat /\ PacketsOf(m) \in Nat /\ Listed'
<1> DEFINE new == PacketsFor(m, Len(packets), key)
           T == S \cup {new[k] : k \in 1..PacketsOf(m)}
<1>1. PacketsOf(m) \in Nat
  BY LongHasPieces
<1>2. new = [k \in 1..PacketsOf(m) |-> new[k]]
  BY DEF PacketsFor
<1>3. packets' = packets \o new
  OBVIOUS
<1> HIDE DEF new
<1>4. (\A k \in 1..PacketsOf(m) : new[k] \in T) /\ S \subseteq T
  OBVIOUS
<1> HIDE DEF T
<1>5. new \in Seq(T) /\ Len(new) = PacketsOf(m)
  BY ONLY <1>1, <1>2, <1>4
<1>6. packets \in Seq(T) /\ Len(packets) \in Nat
  BY ONLY <1>4, packets \in Seq(S)
<1>7. packets \o new \in Seq(T) /\ Len(packets \o new) = Len(packets) + Len(new)
  BY ONLY <1>5, <1>6
<1>8. Listed'
  BY <1>3, <1>7 DEF Listed
<1> QED
  BY <1>1, <1>3, <1>5, <1>6, <1>7, <1>8 DEF new

LEMMA SendGrows ==
  ASSUME SentTyped, FewPackets', NEW m, NEW key, SentAre(m, Len(packets), key)
  PROVE  FewPackets /\ Grown(m, Len(packets), key)
<1> DEFINE n   == Len(packets)
           new == PacketsFor(m, n, key)
           none == [k \in 1..PacketsOf(m) |-> 0]
<1>1. /\ count \in Nat /\ counter \in Nat /\ counter <= count /\ count <= n /\ n \in Nat
      /\ packets \in Seq(APacket) /\ arrivals \in Seq(0..MaxArrivals) /\ Len(arrivals) = n
      /\ counter \in 0..(WordCount - 1) /\ WordCount \in Nat \ {0} /\ MaxArrivals \in Nat
  BY Sizes, Words DEF SentTyped
<1>2. /\ m \in 1..Len(Message) /\ m \in Nat /\ m = count + 1 /\ count' = m
      /\ packets' = packets \o new /\ arrivals' = arrivals \o none
      /\ UNCHANGED <<joiner, seen, alive, passed>>
  BY <1>1 DEF SentAre
<1>3. PacketsOf(m) \in Nat /\ PacketsOf(m) > 0 /\ IsLong(Message[m]) \in BOOLEAN
      /\ PacketsOf(m) <= ShortCount
  BY <1>2, LongHasPieces DEF SentAre
<1>4. key \in 0..(WordCount - 1) /\ (IsLong(Message[m]) => key = counter)
  BY <1>1 DEF SentAre
<1>5. Len(packets') < WordCount
  BY DEF FewPackets
<1>6. Len(new) = PacketsOf(m) /\ Len(packets') = n + PacketsOf(m)
  <2>1. packets' = packets \o PacketsFor(m, Len(packets), key)
    BY <1>2
  <2>2. Len(new) = PacketsOf(m) /\ Len(packets') = Len(packets) + PacketsOf(m)
    BY ONLY <1>1, <1>2, <2>1, SendLengthens DEF new, n
  <2> QED
    BY <2>2
<1>7. n + PacketsOf(m) < WordCount /\ n \in 0..(WordCount - 1) /\ FewPackets
  <2> HIDE DEF n
  <2>1. n + PacketsOf(m) < WordCount /\ n < WordCount
    BY <1>1, <1>3, <1>5, <1>6
  <2> QED
    BY <1>1, <2>1 DEF n, FewPackets
<1>8. ASSUME NEW k \in 1..PacketsOf(m)
      PROVE  /\ new[k] = Packet(m, key, k - 1, BytesOf(m, key, k - 1, n + k - 1))
             /\ new[k] \in APacket
  <2> DEFINE j == n + k - 1
             b == BytesOf(m, key, k - 1, j)
  <2>1. new[k] = Packet(m, key, k - 1, b)
    BY DEF PacketsFor
  <2> HIDE DEF n, new
  <2>2. /\ j \in 0..(WordCount - 1) /\ m <= WordCount /\ PacketsOf(m) <= ShortCount
        /\ k - 1 \in 0..(PacketsOf(m) - 1)
    BY <1>1, <1>2, <1>3, <1>7
  <2> HIDE DEF j
  <2>3. b \in Seq(Byte)
    BY ONLY <1>2, <1>4, <2>2, BytesTyped
  <2> HIDE DEF b
  <2>4. new[k] \in APacket
    BY <1>2, <1>3, <1>4, <2>1, <2>3 DEF Packet, APacket
  <2> QED
    BY <2>1, <2>4 DEF b, j
<1>9. new \in Seq(APacket)
  <2>1. new = [k \in 1..PacketsOf(m) |-> new[k]]
    BY DEF PacketsFor
  <2> HIDE DEF new, n
  <2> QED
    BY <1>3, <1>8, <2>1
<1>10. none \in Seq(0..MaxArrivals) /\ Len(none) = PacketsOf(m)
       /\ \A k \in 1..PacketsOf(m) : none[k] = 0
  BY <1>1, <1>3
<1> HIDE DEF new, none
<1>11. /\ packets' \in Seq(APacket) /\ Len(packets') = n + PacketsOf(m)
       /\ \A i \in 1..n : packets'[i] = packets[i]
       /\ \A i \in (n + 1)..(n + PacketsOf(m)) : packets'[i] = new[i - n]
  <2>1. /\ packets' \in Seq(APacket)
        /\ \A i \in 1..Len(packets) : packets'[i] = packets[i]
        /\ \A i \in (Len(packets) + 1)..(Len(packets) + Len(new)) :
              packets'[i] = new[i - Len(packets)]
    BY ONLY <1>1, <1>2, <1>9, PacketsAppended
  <2> QED
    BY ONLY <1>6, <2>1 DEF n
<1>12. /\ arrivals' \in Seq(0..MaxArrivals) /\ Len(arrivals') = n + PacketsOf(m)
       /\ \A i \in 1..n : arrivals'[i] = arrivals[i]
       /\ \A i \in (n + 1)..(n + PacketsOf(m)) : arrivals'[i] = none[i - n]
  <2>1. /\ arrivals' \in Seq(0..MaxArrivals) /\ Len(arrivals') = Len(arrivals) + Len(none)
        /\ \A i \in 1..Len(arrivals) : arrivals'[i] = arrivals[i]
        /\ \A i \in (Len(arrivals) + 1)..(Len(arrivals) + Len(none)) :
              arrivals'[i] = none[i - Len(arrivals)]
    BY ONLY <1>1, <1>2, <1>10, ArrivalsAppended
  <2> HIDE DEF n
  <2> QED
    BY ONLY <1>1, <1>10, <2>1
<1> HIDE DEF n
<1>13. ASSUME NEW i \in (n + 1)..(n + PacketsOf(m))
       PROVE  /\ packets'[i] = Packet(m, key, i - n - 1, BytesOf(m, key, i - n - 1, i - 1))
              /\ arrivals'[i] = 0
  <2> DEFINE k == i - n
  <2>1. k \in 1..PacketsOf(m) /\ n + k - 1 = i - 1
    BY <1>1, <1>3
  <2> HIDE DEF k
  <2>2. new[k] = Packet(m, key, k - 1, BytesOf(m, key, k - 1, i - 1))
    BY <1>8, <2>1
  <2>3. packets'[i] = new[k] /\ arrivals'[i] = none[k]
    BY <1>11, <1>12 DEF k
  <2>4. arrivals'[i] = 0
    BY <1>10, <2>1, <2>3
  <2> QED
    BY <2>2, <2>3, <2>4 DEF k
<1>14. /\ counter' = (IF IsLong(Message[m]) THEN counter + 1 ELSE counter)
       /\ counter' \in 0..(WordCount - 1)
  <2>1. counter + 1 \in 0..(WordCount - 1)
    BY <1>1, <1>3, <1>7
  <2>2. (counter + 1) % WordCount = counter + 1
    BY ONLY <1>1, <2>1, ModSmall
  <2> QED
    BY <1>1, <1>3, <2>1, <2>2 DEF SentAre
<1>15. Grown(m, n, key)
  BY ONLY <1>1, <1>2, <1>3, <1>4, <1>11, <1>12, <1>13, <1>14 DEF Grown, n
<1> QED
  BY <1>7, <1>15 DEF n

\* What is known of the packets that Grown adds and of those before them.
LEMMA GrownPackets ==
  ASSUME SentInvariant, NEW m, NEW n, NEW key, Grown(m, n, key)
  PROVE  /\ n \in Nat /\ m \in Nat /\ PacketsOf(m) \in Nat /\ Len(packets') = n + PacketsOf(m)
         /\ \A i \in 1..n :
               /\ packets'[i] = packets[i] /\ i \in 1..Len(packets') /\ i \in Nat
               /\ packets[i].message \in 1..count /\ packets[i].message < m
               /\ packets[i].message \in Nat
         /\ \A i \in (n + 1)..(n + PacketsOf(m)) :
               /\ packets'[i].message = m /\ packets'[i].key = key
               /\ packets'[i].segment = i - n - 1
               /\ packets'[i].bytes = BytesOf(m, key, i - n - 1, i - 1)
         /\ \A i \in 1..Len(packets') : i \in 1..n \/ i \in (n + 1)..(n + PacketsOf(m))
<1>1. /\ n = Len(packets) /\ n \in Nat /\ m = count + 1 /\ count \in Nat
      /\ PacketsOf(m) \in Nat /\ Len(packets') = n + PacketsOf(m)
  BY DEF SentInvariant, SentTyped, Grown
<1>2. ASSUME NEW i \in 1..n
      PROVE  /\ packets'[i] = packets[i] /\ i \in 1..Len(packets') /\ i \in Nat
             /\ packets[i].message \in 1..count /\ packets[i].message < m
             /\ packets[i].message \in Nat
  <2>1. packets'[i] = packets[i] /\ packets[i].message \in 1..count
    BY <1>1 DEF SentInvariant, Written, Grown
  <2>2. i \in 1..Len(packets') /\ i \in Nat
    BY <1>1
  <2> DEFINE k == packets[i].message
  <2>3. k \in 1..count
    BY <2>1
  <2> HIDE DEF k
  <2>4. k < m /\ k \in Nat
    BY <1>1, <2>3
  <2> QED
    BY <2>1, <2>2, <2>4 DEF k
<1>3. ASSUME NEW i \in (n + 1)..(n + PacketsOf(m))
      PROVE  /\ packets'[i].message = m /\ packets'[i].key = key
             /\ packets'[i].segment = i - n - 1
             /\ packets'[i].bytes = BytesOf(m, key, i - n - 1, i - 1)
  <2> DEFINE k == i - n - 1
             b == BytesOf(m, key, k, i - 1)
  <2>1. packets'[i] = Packet(m, key, k, b)
    BY DEF Grown
  <2> HIDE DEF k, b
  <2>2. packets'[i].message = m /\ packets'[i].key = key /\ packets'[i].segment = k
        /\ packets'[i].bytes = b
    BY <2>1 DEF Packet
  <2> QED
    BY <2>2 DEF k, b
<1>4. \A i \in 1..Len(packets') : i \in 1..n \/ i \in (n + 1)..(n + PacketsOf(m))
  BY <1>1
<1> QED
  BY <1>1, <1>2, <1>3, <1>4

\* The message of a packet.
LEMMA PacketIs ==
  ASSUME SentInvariant, NEW i \in 1..Len(packets)
  PROVE  /\ packets[i].message \in 1..Len(Message) /\ packets[i].message \in 1..count
         /\ packets[i].key \in 0..(WordCount - 1)
         /\ packets[i].segment \in 0..(PacketsOf(packets[i].message) - 1)
<1>1. count \in 0..Len(Message) /\ Len(Message) \in Nat
  BY Sizes DEF SentInvariant, SentTyped
<1>2. /\ packets[i].message \in 1..count /\ packets[i].key \in 0..(WordCount - 1)
      /\ packets[i].segment \in 0..(PacketsOf(packets[i].message) - 1)
  BY DEF SentInvariant, Written
<1> QED
  BY <1>1, <1>2

LEMMA SendKeepsSent ==
  ASSUME SentInvariant, NEW m, NEW n, NEW key, Grown(m, n, key)
  PROVE  SentInvariant'
<1>1. /\ n = Len(packets) /\ m = count + 1 /\ count' = m /\ m \in 1..Len(Message)
      /\ count \in Nat /\ counter \in Nat /\ counter <= count /\ count <= n
      /\ key \in 0..(WordCount - 1) /\ PacketsOf(m) > 0
      /\ PacketsOf(m) <= ShortCount
  BY DEF SentInvariant, SentTyped, Grown
<1>2. /\ n \in Nat /\ m \in Nat /\ PacketsOf(m) \in Nat /\ Len(packets') = n + PacketsOf(m)
      /\ \A i \in 1..n :
            /\ packets'[i] = packets[i] /\ i \in 1..Len(packets') /\ i \in Nat
            /\ packets[i].message \in 1..count /\ packets[i].message < m
            /\ packets[i].message \in Nat
      /\ \A i \in (n + 1)..(n + PacketsOf(m)) :
            /\ packets'[i].message = m /\ packets'[i].key = key
            /\ packets'[i].segment = i - n - 1
            /\ packets'[i].bytes = BytesOf(m, key, i - n - 1, i - 1)
      /\ \A i \in 1..Len(packets') : i \in 1..n \/ i \in (n + 1)..(n + PacketsOf(m))
  BY GrownPackets
<1>3. /\ counter' = (IF IsLong(Message[m]) THEN counter + 1 ELSE counter)
      /\ IsLong(Message[m]) => key = counter
      /\ IsLong(Message[m]) \in BOOLEAN
  BY <1>1, LongHasPieces DEF Grown
<1>4. SentTyped'
  <2>1. m <= n + PacketsOf(m) /\ counter' <= m /\ m \in 0..Len(Message)
    BY <1>1, <1>2, <1>3, Sizes
  <2>2. /\ packets' \in Seq(APacket) /\ arrivals' \in Seq(0..MaxArrivals)
        /\ Len(arrivals') = Len(packets') /\ counter' \in 0..(WordCount - 1)
    BY <1>2 DEF Grown
  <2> QED
    BY <1>1, <1>2, <2>1, <2>2 DEF SentTyped
<1>5. ASSUME NEW i \in 1..Len(packets') PROVE Written(i)'
  <2>1. CASE i \in 1..n
    <3> DEFINE p == packets[i]
    <3>1. /\ p.message \in 1..count /\ p.message <= i /\ p.key \in 0..(WordCount - 1)
          /\ p.segment \in 0..(PacketsOf(p.message) - 1) /\ p.segment < i
          /\ PacketsOf(p.message) <= n /\ PacketsOf(p.message) <= ShortCount
          /\ p.bytes = BytesOf(p.message, p.key, p.segment, i - 1)
      BY <1>1, <2>1 DEF SentInvariant, Written
    <3>2. packets'[i] = p
      BY <1>2, <2>1
    <3>3. p.message \in 1..Len(Message)
      BY <1>1, <2>1, PacketIs
    <3> HIDE DEF p
    <3>4. PacketsOf(p.message) \in Nat
      BY <3>3, LongHasPieces
    <3>5. PacketsOf(p.message) <= Len(packets')
      <4>1. PacketsOf(p.message) <= n
        BY <3>1
      <4> QED
        BY ONLY <1>1, <1>2, <3>4, <4>1
    <3>6. p.message \in 1..count'
      <4>1. p.message \in 1..count
        BY <3>1
      <4> QED
        BY ONLY <1>1, <4>1
    <3> QED
      BY <3>1, <3>2, <3>5, <3>6 DEF Written
  <2>2. CASE i \in (n + 1)..(n + PacketsOf(m))
    <3>1. /\ packets'[i].message = m /\ packets'[i].key = key
          /\ packets'[i].segment = i - n - 1
          /\ packets'[i].bytes = BytesOf(m, key, i - n - 1, i - 1)
      BY <1>2, <2>2
    <3>2. /\ m \in 1..count' /\ m <= i /\ i - n - 1 \in 0..(PacketsOf(m) - 1)
          /\ i - n - 1 < i /\ PacketsOf(m) <= Len(packets')
      BY <1>1, <1>2, <2>2
    <3> QED
      BY <1>1, <3>1, <3>2 DEF Written
  <2> QED
    BY <1>2, <2>1, <2>2
<1>6. ASSUME NEW i \in 1..Len(packets'), IsLong(Message[packets'[i].message])
      PROVE  /\ packets'[i].key < counter'
             /\ packets'[i].key \in Nat
             /\ i \in 1..n => packets'[i].key < counter
             /\ i \in (n + 1)..(n + PacketsOf(m)) => packets'[i].key = counter
  <2>1. CASE i \in 1..n
    <3>1. packets[i].key < counter /\ packets[i].key \in 0..(WordCount - 1)
      BY <1>1, <1>2, <1>6, <2>1 DEF SentInvariant, KeysUsed, Written
    <3>2. packets'[i].key = packets[i].key /\ ~(i \in (n + 1)..(n + PacketsOf(m)))
      BY <1>2, <2>1
    <3> DEFINE k == packets[i].key
    <3>3. k < counter /\ k \in 0..(WordCount - 1)
      BY <3>1
    <3> HIDE DEF k
    <3>4. k < counter /\ k < counter' /\ k \in Nat
      BY <1>1, <1>3, <3>3, Words
    <3> QED
      BY <3>2, <3>4 DEF k
  <2>2. CASE i \in (n + 1)..(n + PacketsOf(m))
    <3>1. packets'[i].message = m /\ packets'[i].key = key
      BY <1>2, <2>2
    <3>2. key = counter /\ counter' = counter + 1
      BY <1>3, <1>6, <3>1
    <3>3. ~(i \in 1..n)
      BY <1>2, <2>2
    <3> QED
      BY <1>1, <3>1, <3>2, <3>3
  <2> QED
    BY <1>2, <2>1, <2>2
<1>7. KeysUsed'
  BY <1>6 DEF KeysUsed
<1>8. KeysApart'
  <2> SUFFICES ASSUME NEW i \in 1..Len(packets'), NEW j \in 1..Len(packets'),
                      IsLong(Message[packets'[i].message]), IsLong(Message[packets'[j].message])
               PROVE  packets'[i].key = packets'[j].key <=>
                         packets'[i].message = packets'[j].message
    BY DEF KeysApart
  <2>1. CASE i \in 1..n /\ j \in 1..n
    <3>1. packets'[i] = packets[i] /\ packets'[j] = packets[j]
      BY <1>2, <2>1
    <3>2. packets[i].key = packets[j].key <=> packets[i].message = packets[j].message
      BY <1>1, <2>1, <3>1 DEF SentInvariant, KeysApart
    <3> QED
      BY <3>1, <3>2
  <2>2. CASE i \in 1..n /\ j \in (n + 1)..(n + PacketsOf(m))
    <3>1. packets'[i].message < m /\ packets'[j].message = m /\ packets'[i].message \in Nat
      BY <1>2, <2>2
    <3>2. packets'[i].key < counter /\ packets'[j].key = counter /\ packets'[i].key \in Nat
      BY <1>6, <2>2
    <3> QED
      BY <1>1, <1>2, <3>1, <3>2
  <2>3. CASE j \in 1..n /\ i \in (n + 1)..(n + PacketsOf(m))
    <3>1. packets'[j].message < m /\ packets'[i].message = m /\ packets'[j].message \in Nat
      BY <1>2, <2>3
    <3>2. packets'[j].key < counter /\ packets'[i].key = counter /\ packets'[j].key \in Nat
      BY <1>6, <2>3
    <3> QED
      BY <1>1, <1>2, <3>1, <3>2
  <2>4. CASE i \in (n + 1)..(n + PacketsOf(m)) /\ j \in (n + 1)..(n + PacketsOf(m))
    BY <1>2, <2>4
  <2> QED
    BY <1>2, <2>1, <2>2, <2>3, <2>4
<1>9. PackedOnce'
  <2> SUFFICES ASSUME NEW i \in 1..Len(packets'), NEW j \in 1..Len(packets'),
                      packets'[i].message = packets'[j].message,
                      packets'[i].segment = packets'[j].segment
               PROVE  i = j
    BY DEF PackedOnce
  <2>1. CASE i \in 1..n /\ j \in 1..n
    <3>1. packets'[i] = packets[i] /\ packets'[j] = packets[j]
      BY <1>2, <2>1
    <3> QED
      BY <1>1, <2>1, <3>1 DEF SentInvariant, PackedOnce
  <2>2. CASE i \in 1..n /\ j \in (n + 1)..(n + PacketsOf(m))
    <3>1. packets'[i].message < m /\ packets'[j].message = m /\ packets'[i].message \in Nat
      BY <1>2, <2>2
    <3> QED
      BY <1>2, <3>1
  <2>3. CASE j \in 1..n /\ i \in (n + 1)..(n + PacketsOf(m))
    <3>1. packets'[j].message < m /\ packets'[i].message = m /\ packets'[j].message \in Nat
      BY <1>2, <2>3
    <3> QED
      BY <1>2, <3>1
  <2>4. CASE i \in (n + 1)..(n + PacketsOf(m)) /\ j \in (n + 1)..(n + PacketsOf(m))
    <3>1. packets'[i].segment = i - n - 1 /\ packets'[j].segment = j - n - 1
      BY <1>2, <2>4
    <3>2. i - n - 1 = j - n - 1
      BY <3>1
    <3>3. i \in Nat /\ j \in Nat
      BY <1>2, <2>4
    <3> QED
      BY ONLY <1>2, <3>2, <3>3
  <2> QED
    BY <1>2, <2>1, <2>2, <2>3, <2>4
<1>10. AllPacked'
  <2> SUFFICES ASSUME NEW k \in 1..count', NEW s \in 0..(PacketsOf(k) - 1)
               PROVE  \E i \in 1..Len(packets') :
                         packets'[i].message = k /\ packets'[i].segment = s
    BY DEF AllPacked
  <2>1. CASE k = m
    <3> DEFINE i == n + 1 + s
    <3>1. i \in (n + 1)..(n + PacketsOf(m)) /\ i - n - 1 = s /\ i \in 1..Len(packets')
      BY <1>2, <2>1
    <3> HIDE DEF i
    <3>2. packets'[i].message = m /\ packets'[i].segment = i - n - 1
      BY <1>2, <3>1
    <3> QED
      BY <2>1, <3>1, <3>2
  <2>2. CASE k # m
    <3>1. k \in 1..count
      BY <1>1, <2>2
    <3>2. PICK i \in 1..n : packets[i].message = k /\ packets[i].segment = s
      BY <1>1, <3>1 DEF SentInvariant, AllPacked
    <3>3. packets'[i] = packets[i] /\ i \in 1..Len(packets')
      BY <1>2
    <3> QED
      BY <3>2, <3>3
  <2> QED
    BY <2>1, <2>2
<1> QED
  BY <1>4, <1>5, <1>7, <1>8, <1>9, <1>10 DEF SentInvariant

LEMMA ArriveKeepsSent ==
  ASSUME SentInvariant, NEW i \in DOMAIN packets, Arrive(i)
  PROVE  /\ SentInvariant' /\ UNCHANGED <<count, counter, packets>> /\ i \in 1..Len(packets)
         /\ arrivals[i] \in Nat /\ arrivals'[i] = arrivals[i] + 1
         /\ \A j \in 1..Len(packets) : arrivals[j] \in Nat /\ (j # i => arrivals'[j] = arrivals[j])
<1>1. /\ UNCHANGED <<count, counter, packets>>
      /\ arrivals[i] < MaxArrivals /\ arrivals' = [arrivals EXCEPT ![i] = @ + 1]
  BY DEF Arrive
<1>2. /\ packets \in Seq(APacket) /\ arrivals \in Seq(0..MaxArrivals)
      /\ Len(arrivals) = Len(packets) /\ MaxArrivals \in Nat
  BY Sizes DEF SentInvariant, SentTyped
<1>3. i \in 1..Len(packets) /\ arrivals[i] \in 0..MaxArrivals
  BY <1>2
<1>4. arrivals' \in Seq(0..MaxArrivals) /\ Len(arrivals') = Len(packets')
  <2>1. arrivals[i] + 1 \in 0..MaxArrivals
    BY <1>1, <1>2, <1>3
  <2> QED
    BY <1>1, <1>2, <2>1
<1>5. /\ arrivals[i] \in Nat /\ arrivals'[i] = arrivals[i] + 1
      /\ \A j \in 1..Len(packets) : arrivals[j] \in Nat /\ (j # i => arrivals'[j] = arrivals[j])
  BY <1>1, <1>2, <1>3
<1>6. SentTyped'
  BY <1>1, <1>4 DEF SentInvariant, SentTyped
<1>7. \A j \in 1..Len(packets') : Written(j)'
  BY <1>1 DEF SentInvariant, Written
<1>8. KeysUsed' /\ KeysApart' /\ PackedOnce' /\ AllPacked'
  BY <1>1 DEF SentInvariant, KeysUsed, KeysApart, PackedOnce, AllPacked
<1> QED
  BY <1>1, <1>3, <1>5, <1>6, <1>7, <1>8 DEF SentInvariant

LEMMA InitSent == Init => SentInvariant
<1> SUFFICES ASSUME Init PROVE SentInvariant
  OBVIOUS
<1>1. /\ count = 0 /\ counter = 0 /\ packets = <<>> /\ arrivals = <<>>
      /\ WordCount \in Nat \ {0} /\ Len(Message) \in Nat
  BY Sizes, Words DEF Init
<1>2. SentTyped
  <2>1. packets \in Seq(APacket) /\ arrivals \in Seq(0..MaxArrivals)
        /\ Len(arrivals) = 0 /\ Len(packets) = 0
    BY <1>1
  <2> QED
    BY <1>1, <2>1 DEF SentTyped
<1>3. 1..Len(packets) = {} /\ 1..count = {}
  BY <1>1
<1> QED
  BY <1>2, <1>3 DEF SentInvariant, KeysUsed, KeysApart, PackedOnce, AllPacked

\* The number of packets never falls.
LEMMA PacketsGrow ==
  ASSUME count \in 0..Len(Message), Listed, [Next]_vars
  PROVE  (count \in 0..Len(Message))' /\ Listed' /\ (FewPackets' => FewPackets)
<1>1. PICK S : packets \in Seq(S)
  BY DEF Listed
<1>2. Len(packets) \in Nat /\ WordCount \in Nat
  BY <1>1, Words
<1>3. CASE Send
  <2>1. PICK m, key : SentAre(m, Len(packets), key)
    BY <1>2, <1>3, SendIs
  <2>2. /\ m \in 1..Len(Message) /\ count' = m
        /\ packets' = packets \o PacketsFor(m, Len(packets), key)
    BY <2>1 DEF SentAre
  <2>3. /\ Len(packets') = Len(packets) + PacketsOf(m)
        /\ Len(packets) \in Nat /\ PacketsOf(m) \in Nat /\ Listed'
    BY ONLY <1>1, <2>2, SendLengthens
  <2>4. FewPackets' => FewPackets
    BY <1>2, <2>3 DEF FewPackets
  <2>5. count' \in 0..Len(Message)
    BY <2>2, Sizes
  <2> QED
    BY <2>3, <2>4, <2>5
<1>4. ASSUME NEW i \in DOMAIN packets, Arrive(i)
      PROVE  (count \in 0..Len(Message))' /\ Listed' /\ (FewPackets' => FewPackets)
  <2>1. UNCHANGED <<count, packets>>
    BY <1>4 DEF Arrive
  <2> QED
    BY <2>1 DEF Listed, FewPackets
<1>5. CASE UNCHANGED vars
  BY <1>5 DEF vars, Listed, FewPackets
<1> QED
  BY <1>3, <1>4, <1>5 DEF Next

\* The invariant of what was sent, for as long as the packets are few.
SentSoFar ==
    /\ count \in 0..Len(Message) /\ Listed
    /\ FewPackets => SentInvariant

LEMMA SentInductive ==
  ASSUME SentSoFar, [Next]_vars
  PROVE  SentSoFar'
<1>1. (count \in 0..Len(Message))' /\ Listed' /\ (FewPackets' => FewPackets)
  BY PacketsGrow DEF SentSoFar
<1>2. ASSUME FewPackets' PROVE SentInvariant'
  <2>1. SentInvariant /\ FewPackets
    BY <1>1, <1>2 DEF SentSoFar
  <2>2. SentTyped /\ count \in 0..Len(Message) /\ Len(packets) \in Nat
    BY <2>1 DEF SentInvariant, SentTyped
  <2>3. CASE Send
    <3>1. PICK m, key : SentAre(m, Len(packets), key)
      BY <2>2, <2>3, SendIs
    <3>2. Grown(m, Len(packets), key)
      BY <1>2, <2>2, <3>1, SendGrows
    <3> QED
      BY <2>1, <3>2, SendKeepsSent
  <2>4. ASSUME NEW i \in DOMAIN packets, Arrive(i) PROVE SentInvariant'
    BY <2>1, <2>4, ArriveKeepsSent
  <2>5. CASE UNCHANGED vars
    BY <2>1, <2>5 DEF vars, SentInvariant, SentTyped, Written, KeysUsed, KeysApart,
       PackedOnce, AllPacked
  <2> QED
    BY <2>3, <2>4, <2>5 DEF Next
<1> QED
  BY <1>1, <1>2 DEF SentSoFar

LEMMA SentAlways == Spec => []SentSoFar
<1>1. Init => SentSoFar
  <2> SUFFICES ASSUME Init PROVE SentSoFar
    OBVIOUS
  <2>1. SentInvariant
    BY InitSent
  <2>2. Listed /\ count \in 0..Len(Message)
    BY <2>1 DEF SentInvariant, SentTyped, Listed
  <2> QED
    BY <2>1, <2>2 DEF SentSoFar
<1>2. SentSoFar /\ [Next]_vars => SentSoFar'
  BY SentInductive
<1> QED
  BY <1>1, <1>2, PTL DEF Spec

LEMMA AllReadBack ==
  ASSUME FewPackets, SentInvariant
  PROVE  MetadataReadBack
<1>1. /\ count \in 0..Len(Message) /\ Len(packets) \in Nat /\ DOMAIN packets = 1..Len(packets)
      /\ \A i \in 1..Len(packets) : Written(i)
  BY DEF SentInvariant, SentTyped
<1>2. \A i \in DOMAIN packets : ReadAs(i)
  BY <1>1, PacketReadBack
<1> QED
  BY <1>2 DEF MetadataReadBack, ReadAs

\* The metadata in front of a packet's content is read as it was written, for
\* every size of its numbers: the readers of proto/decode.rs and of
\* read_order_and_resend_key() find the content of the segment or message
\* exactly where send_packet() put it.
THEOREM PacketsReadAsWritten == Spec => [](FewPackets => MetadataReadBack)
<1>1. SentSoFar => (FewPackets => MetadataReadBack)
  BY AllReadBack DEF SentSoFar
<1> QED
  BY <1>1, SentAlways, PTL

-----------------------------------------------------------------------------
(* What the joiner holds *)

Missing(entry) == {k \in DOMAIN entry.segments : ~entry.segments[k].filled}

ASegment == [filled : BOOLEAN, bytes : Seq(Byte)]

\* The entry holds segments of message number m, and misses one.
Holds(entry, m) ==
    /\ entry \in [segments : [0..(Pieces(Message[m]) - 1) -> ASegment], non_filled : Nat]
    /\ \A k \in 0..(Pieces(Message[m]) - 1) :
          entry.segments[k].filled => entry.segments[k].bytes = Chunks(Message[m])[k + 1]
    /\ IsFiniteSet(Missing(entry)) /\ entry.non_filled = Cardinality(Missing(entry))
    /\ Missing(entry) # {}

LEMMA NewHolds ==
  ASSUME NEW m \in 1..Len(Message), Pieces(Message[m]) > 0
  PROVE  /\ Holds(NewEntry(Pieces(Message[m])), m)
         /\ \A k \in 0..(Pieces(Message[m]) - 1) :
               ~NewEntry(Pieces(Message[m])).segments[k].filled
<1> DEFINE n == Pieces(Message[m])
           entry == NewEntry(n)
<1>1. n \in Nat /\ n > 0
  BY LongHasPieces
<1> HIDE DEF n
<1>2. entry = [segments |-> [i \in 0..(n - 1) |-> NoSegment], non_filled |-> n]
  BY DEF NewEntry
<1> HIDE DEF entry
<1>3. NoSegment \in ASegment /\ ~NoSegment.filled
  BY DEF NoSegment, ASegment
<1>4. /\ entry \in [segments : [0..(n - 1) -> ASegment], non_filled : Nat]
      /\ DOMAIN entry.segments = 0..(n - 1)
      /\ entry.non_filled = n
  BY <1>1, <1>2, <1>3
<1>5. \A k \in 0..(n - 1) : ~entry.segments[k].filled
  BY <1>2, <1>3
<1>6. Missing(entry) = 0..(n - 1)
  BY <1>4, <1>5 DEF Missing
<1>7. IsFiniteSet(0..(n - 1)) /\ Cardinality(0..(n - 1)) = n /\ 0 \in 0..(n - 1)
  <2>1. 0 \in Int /\ n - 1 \in Int /\ ~(0 > n - 1) /\ (n - 1) - 0 + 1 = n
    BY <1>1
  <2>2. IsFiniteSet(0..(n - 1)) /\ Cardinality(0..(n - 1)) = (n - 1) - 0 + 1
    BY ONLY <2>1, FS_Interval
  <2> QED
    BY <1>1, <2>1, <2>2
<1>8. Holds(entry, m)
  BY <1>4, <1>5, <1>6, <1>7 DEF Holds, n
<1> QED
  BY <1>5, <1>8 DEF entry, n

\* What the entry is when segment k of message number m fills it further.
FilledIs(filled, entry, k, m) ==
    /\ DOMAIN filled.segments = 0..(Pieces(Message[m]) - 1)
    /\ \A i \in 0..(Pieces(Message[m]) - 1) :
          /\ filled.segments[i].filled <=> i = k \/ entry.segments[i].filled
          /\ filled.segments[i].filled =>
                filled.segments[i].bytes = Chunks(Message[m])[i + 1]
    /\ filled.non_filled > 0 => Holds(filled, m)
    /\ ~(filled.non_filled > 0) =>
          \A i \in 0..(Pieces(Message[m]) - 1) : i # k => entry.segments[i].filled

LEMMA FilledHolds ==
  ASSUME NEW m \in 1..Len(Message), NEW entry, Holds(entry, m),
         NEW k \in 0..(Pieces(Message[m]) - 1), ~entry.segments[k].filled,
         NEW bytes \in Seq(Byte), bytes = Chunks(Message[m])[k + 1]
  PROVE  FilledIs(Filled(entry, k, bytes), entry, k, m)
<1> DEFINE n == Pieces(Message[m])
           segments == [entry.segments EXCEPT ![k] = [filled |-> TRUE, bytes |-> bytes]]
           filled == Filled(entry, k, bytes)
<1>1. n \in Nat
  BY LongHasPieces
<1>2. /\ entry.segments \in [0..(n - 1) -> ASegment] /\ entry.non_filled \in Nat
      /\ \A i \in 0..(n - 1) :
            entry.segments[i].filled => entry.segments[i].bytes = Chunks(Message[m])[i + 1]
      /\ IsFiniteSet(Missing(entry)) /\ entry.non_filled = Cardinality(Missing(entry))
  BY DEF Holds
<1> HIDE DEF n
<1>3. k \in 0..(n - 1)
  BY DEF n
<1>4. /\ segments \in [0..(n - 1) -> ASegment]
      /\ segments[k] = [filled |-> TRUE, bytes |-> bytes]
      /\ \A i \in 0..(n - 1) : i # k => segments[i] = entry.segments[i]
  <2>1. [filled |-> TRUE, bytes |-> bytes] \in ASegment
    BY DEF ASegment
  <2> QED
    BY <1>2, <1>3, <2>1
<1>5. filled = [segments |-> segments, non_filled |-> entry.non_filled - 1]
  BY DEF Filled
<1> HIDE DEF segments, filled
<1>6. filled.segments = segments /\ filled.non_filled = entry.non_filled - 1
  BY <1>5
<1>7. \A i \in 0..(n - 1) :
         /\ segments[i].filled <=> i = k \/ entry.segments[i].filled
         /\ segments[i].filled => segments[i].bytes = Chunks(Message[m])[i + 1]
  <2> SUFFICES ASSUME NEW i \in 0..(n - 1)
               PROVE  /\ segments[i].filled <=> i = k \/ entry.segments[i].filled
                      /\ segments[i].filled => segments[i].bytes = Chunks(Message[m])[i + 1]
    OBVIOUS
  <2>1. CASE i = k
    BY <1>4, <2>1
  <2>2. CASE i # k
    BY <1>2, <1>4, <2>2
  <2> QED
    BY <2>1, <2>2
<1>8. Missing(filled) = Missing(entry) \ {k}
  <2>1. DOMAIN filled.segments = 0..(n - 1) /\ DOMAIN entry.segments = 0..(n - 1)
    BY <1>2, <1>4, <1>6
  <2>2. Missing(filled) = {i \in 0..(n - 1) : ~segments[i].filled}
    BY <1>6, <2>1 DEF Missing
  <2>3. Missing(entry) = {i \in 0..(n - 1) : ~entry.segments[i].filled}
    BY <2>1 DEF Missing
  <2> QED
    BY <1>7, <2>2, <2>3
<1>9. k \in Missing(entry)
  BY <1>2, <1>3 DEF Missing
<1>10. /\ IsFiniteSet(Missing(filled))
       /\ Cardinality(Missing(filled)) = Cardinality(Missing(entry)) - 1
  BY <1>2, <1>8, <1>9, FS_RemoveElement
<1>11. /\ Cardinality(Missing(filled)) \in Nat
       /\ Cardinality(Missing(filled)) = 0 <=> Missing(filled) = {}
  BY <1>10, FS_CardinalityType, FS_EmptySet
<1>12. filled.non_filled = Cardinality(Missing(filled))
  BY <1>2, <1>6, <1>10
<1>13. filled.non_filled > 0 => Holds(filled, m)
  <2>1. filled \in [segments : [0..(n - 1) -> ASegment], non_filled : Nat]
    <3>1. entry.non_filled - 1 \in Nat
      BY <1>6, <1>11, <1>12
    <3> QED
      BY <1>4, <1>5, <3>1
  <2>2. filled.non_filled > 0 => Missing(filled) # {}
    BY <1>11, <1>12
  <2> QED
    BY <1>6, <1>7, <1>10, <1>12, <2>1, <2>2 DEF Holds, n
<1>14. ~(filled.non_filled > 0) => \A i \in 0..(n - 1) : i # k => entry.segments[i].filled
  <2>1. ~(filled.non_filled > 0) => Missing(filled) = {}
    BY <1>11, <1>12
  <2>2. Missing(entry) = {i \in 0..(n - 1) : ~entry.segments[i].filled}
    BY <1>2 DEF Missing
  <2> QED
    BY <1>8, <2>1, <2>2
<1>15. DOMAIN filled.segments = 0..(n - 1)
  BY <1>4, <1>6
<1> QED
  BY <1>6, <1>7, <1>13, <1>14, <1>15 DEF n, filled, FilledIs

\* Every entry holds segments of the message whose packets have its key.
JoinerInvariant ==
    /\ joiner = [key \in DOMAIN joiner |-> joiner[key]]
    /\ \A key \in DOMAIN joiner : \E i \in 1..Len(packets) :
          /\ IsLong(Message[packets[i].message]) /\ packets[i].key = key
          /\ Holds(joiner[key], packets[i].message)

\* The map of the joiner with an entry for the key of packet number i.
Room(i, map) ==
    LET m   == packets[i].message
        key == packets[i].key
    IN /\ map = [k \in DOMAIN map |-> map[k]]
       /\ key \in DOMAIN map /\ Holds(map[key], m)
       /\ \A k \in DOMAIN map : k # key => k \in DOMAIN joiner /\ map[k] = joiner[k]
       /\ key \in DOMAIN joiner => map[key] = joiner[key]
       /\ key \notin DOMAIN joiner =>
             \A s \in 0..(Pieces(Message[m]) - 1) : ~map[key].segments[s].filled
       /\ JoinerCapacity = 0 => DOMAIN joiner \subseteq DOMAIN map

LEMMA EntryIs ==
  ASSUME SentInvariant, JoinerInvariant, NEW i \in 1..Len(packets),
         IsLong(Message[packets[i].message]),
         NEW map \in WithEntry(packets[i].key, Pieces(Message[packets[i].message]))
  PROVE  Room(i, map)
<1> DEFINE m   == packets[i].message
           key == packets[i].key
           n   == Pieces(Message[m])
<1>1. m \in 1..Len(Message) /\ n \in Nat /\ n > 0
  BY PacketIs, LongHasPieces DEF PacketsOf
<1>2. CASE key \in DOMAIN joiner
  <2>1. map = joiner
    BY <1>2 DEF WithEntry
  <2>2. PICK j \in 1..Len(packets) : /\ IsLong(Message[packets[j].message])
                                     /\ packets[j].key = key
                                     /\ Holds(joiner[key], packets[j].message)
    BY <1>2 DEF JoinerInvariant
  <2>3. packets[j].message = m
    BY <2>2 DEF SentInvariant, KeysApart
  <2>4. joiner = [k \in DOMAIN joiner |-> joiner[k]]
    BY DEF JoinerInvariant
  <2> QED
    BY <1>2, <2>1, <2>2, <2>3, <2>4 DEF Room
<1>3. CASE key \notin DOMAIN joiner
  <2> DEFINE Crowded == Cardinality(DOMAIN joiner) = JoinerCapacity /\ joiner # <<>>
             With(room) == [k \in DOMAIN room \cup {key} |-> IF k = key THEN NewEntry(n) ELSE room[k]]
  <2>1. \/ map = With(joiner)
        \/ Crowded /\ \E k \in DOMAIN joiner : map = With(Restrict(joiner, DOMAIN joiner \ {k}))
    <3> DEFINE rooms == IF Crowded THEN {Restrict(joiner, DOMAIN joiner \ {k}) : k \in DOMAIN joiner}
                        ELSE {joiner}
    <3>1. WithEntry(key, n) = IF key \in DOMAIN joiner THEN {joiner}
                              ELSE {With(room) : room \in rooms}
      BY Zenon DEF WithEntry
    <3>2. map \in WithEntry(key, n)
      OBVIOUS
    <3> HIDE DEF With, rooms, key, n
    <3>3. \E room \in rooms : map = With(room)
      BY <1>3, <3>1, <3>2
    <3>4. rooms = IF Crowded THEN {Restrict(joiner, DOMAIN joiner \ {k}) : k \in DOMAIN joiner}
                  ELSE {joiner}
      BY DEF rooms
    <3> HIDE DEF Crowded
    <3> QED
      BY <3>3, <3>4, Zenon
  <2>2. PICK room : /\ map = With(room)
                    /\ DOMAIN room \subseteq DOMAIN joiner
                    /\ \A k \in DOMAIN room : room[k] = joiner[k]
                    /\ JoinerCapacity = 0 => DOMAIN room = DOMAIN joiner
    <3>1. CASE map = With(joiner)
      BY <3>1
    <3>2. CASE Crowded /\ \E k \in DOMAIN joiner : map = With(Restrict(joiner, DOMAIN joiner \ {k}))
      <4> HIDE DEF With
      <4>1. PICK k \in DOMAIN joiner : map = With(Restrict(joiner, DOMAIN joiner \ {k}))
        BY <3>2
      <4>2. DOMAIN joiner \subseteq 0..(WordCount - 1)
        BY PacketIs DEF JoinerInvariant
      <4>3. IsFiniteSet(DOMAIN joiner)
        <5>1. 0 \in Int /\ WordCount - 1 \in Int
          BY Words
        <5>2. IsFiniteSet(0..(WordCount - 1))
          BY ONLY <5>1, FS_Interval
        <5> QED
          BY ONLY <4>2, <5>2, FS_Subset
      <4>4. JoinerCapacity # 0
        <5>1. Cardinality(DOMAIN joiner) # 0
          BY <4>3, FS_EmptySet
        <5> QED
          BY <3>2, <5>1
      <4> DEFINE room == Restrict(joiner, DOMAIN joiner \ {k})
      <4>5. DOMAIN room \subseteq DOMAIN joiner /\ \A l \in DOMAIN room : room[l] = joiner[l]
        BY DEF Restrict
      <4> HIDE DEF room
      <4> QED
        BY <4>1, <4>4, <4>5 DEF room
    <3> QED
      BY <2>1, <3>1, <3>2
  <2>3. /\ DOMAIN map = DOMAIN room \cup {key}
        /\ map = [k \in DOMAIN map |-> map[k]]
        /\ map[key] = NewEntry(n)
        /\ \A k \in DOMAIN map : k # key => k \in DOMAIN room /\ map[k] = room[k]
    <3> HIDE DEF key, n
    <3> QED
      BY <2>2
  <2>4. /\ Holds(NewEntry(n), m)
        /\ \A k \in 0..(n - 1) : ~NewEntry(n).segments[k].filled
    BY <1>1, NewHolds
  <2> HIDE DEF n, m, key
  <2>5. /\ map = [k \in DOMAIN map |-> map[k]]
        /\ key \in DOMAIN map /\ Holds(map[key], m)
        /\ \A k \in DOMAIN map : k # key => k \in DOMAIN joiner /\ map[k] = joiner[k]
        /\ \A s \in 0..(n - 1) : ~map[key].segments[s].filled
        /\ JoinerCapacity = 0 => DOMAIN joiner \subseteq DOMAIN map
    BY <2>2, <2>3, <2>4
  <2> QED
    BY <1>3, <2>5 DEF Room, n, m, key
<1> QED
  BY <1>2, <1>3

-----------------------------------------------------------------------------
(* What an arrival does *)

\* The metadata of a complete message is read a second time; there is none to
\* be lost if long messages have neither an order nor a key.
NothingReadTwice ==
    Reliable \/ Ordered => \A m \in 1..Len(Message) : ~IsLong(Message[m])

LEMMA JoinedIs ==
  ASSUME ~Reliable, ~Ordered, NEW m \in 1..Len(Message), Len(Message[m]) > 0,
         NEW segments, DOMAIN segments = 0..(Pieces(Message[m]) - 1),
         \A k \in 0..(Pieces(Message[m]) - 1) :
            segments[k].bytes = Chunks(Message[m])[k + 1]
  PROVE  Joined(segments) = [ok |-> TRUE, panics |-> FALSE, payload |-> Message[m]]
<1> DEFINE n == Pieces(Message[m])
           c == Chunks(Message[m])
           part(i) == ReadPrefix(segments[i - 1].bytes)
           parts == [i \in 1..n |-> part(i)]
<1>1. /\ Message[m] \in Seq(Byte) /\ n \in Nat /\ n > 0 /\ DOMAIN c = 1..n /\ Len(c) = n
      /\ c = [i \in 1..n |-> c[i]]
  <2>1. Message[m] \in Seq(Byte)
    BY Sizes
  <2>2. n \in Nat /\ n > 0 /\ DOMAIN c = 1..n /\ Len(c) = n
    BY <2>1, ChunksAre
  <2>3. c = [i \in DOMAIN c |-> c[i]]
    BY DEF Chunks
  <2> QED
    BY <2>1, <2>2, <2>3
<1>2. FlattenSeq(c) = Message[m]
  BY <1>1, ChunksJoin
<1> HIDE DEF n, c
<1>3. Cardinality(DOMAIN segments) = n
  <2>1. 0 \in Int /\ n - 1 \in Int /\ ~(0 > n - 1) /\ (n - 1) - 0 + 1 = n
    BY <1>1
  <2>2. Cardinality(0..(n - 1)) = (n - 1) - 0 + 1
    BY ONLY <2>1, FS_Interval
  <2>3. DOMAIN segments = 0..(n - 1)
    BY DEF n
  <2> QED
    BY <2>1, <2>2, <2>3
<1>4. ASSUME NEW bytes
      PROVE  /\ ReadPrefix(bytes).ok = TRUE /\ ReadPrefix(bytes).panics = FALSE
             /\ ReadPrefix(bytes).rest = bytes
  BY DEF ReadPrefix, NoNumber
<1>5. ASSUME NEW i \in 1..n
      PROVE  part(i).ok = TRUE /\ part(i).panics = FALSE /\ part(i).rest = c[i]
  <2>1. i - 1 \in 0..(n - 1) /\ (i - 1) + 1 = i
    BY <1>1
  <2>2. segments[i - 1].bytes = c[(i - 1) + 1]
    BY <2>1 DEF n, c
  <2>3. part(i).ok = TRUE /\ part(i).panics = FALSE /\ part(i).rest = segments[i - 1].bytes
    BY <1>4
  <2> HIDE DEF part
  <2> QED
    BY <2>1, <2>2, <2>3
<1> DEFINE panics == \/ parts[1].panics
                     \/ parts[1].ok /\ \E i \in DOMAIN parts : parts[i].panics
<1>6. Joined(segments) =
         [ok      |-> parts[1].ok /\ ~panics,
          panics  |-> panics,
          payload |-> FlattenSeq([i \in DOMAIN parts |-> parts[i].rest])]
  BY <1>3, Zenon DEF Joined
<1>7. [i \in DOMAIN parts |-> parts[i].rest] = c
  <2>1. DOMAIN parts = 1..n /\ \A i \in 1..n : parts[i] = part(i)
    OBVIOUS
  <2> HIDE DEF parts, part
  <2>2. \A i \in 1..n : parts[i].rest = c[i]
    BY <1>5, <2>1
  <2>3. [i \in 1..n |-> parts[i].rest] = [i \in 1..n |-> c[i]]
    BY <2>2
  <2> QED
    BY <1>1, <2>1, <2>3
<1>8. parts[1].ok = TRUE /\ panics = FALSE
  <2>1. 1 \in 1..n
    BY <1>1
  <2>2. DOMAIN parts = 1..n /\ \A i \in 1..n : parts[i] = part(i)
    OBVIOUS
  <2> HIDE DEF parts, part
  <2>3. \A i \in 1..n : parts[i].ok = TRUE /\ parts[i].panics = FALSE
    BY <1>5, <2>2
  <2> QED
    BY <2>1, <2>2, <2>3
<1> HIDE DEF parts, panics
<1>9. (parts[1].ok /\ ~panics) = TRUE
  BY <1>8
<1> QED
  BY <1>2, <1>6, <1>7, <1>8, <1>9

\* The ways in which PacketSegmentJoiner::add() ends, for packet number i.
Kept(i, map) ==
    /\ map[packets[i].key].segments[packets[i].segment].filled
    /\ joiner' = map /\ passed' = passed /\ alive' = alive

Added(i, map) ==
    LET m   == packets[i].message
        key == packets[i].key
    IN /\ ~map[key].segments[packets[i].segment].filled
       /\ \E entry :
             /\ joiner' = [map EXCEPT ![key] = entry] /\ Holds(entry, m)
             /\ \A k \in 0..(Pieces(Message[m]) - 1) :
                   entry.segments[k].filled <=>
                      k = packets[i].segment \/ map[key].segments[k].filled
       /\ passed' = passed /\ alive' = alive

Completed(i, map) ==
    LET m   == packets[i].message
        key == packets[i].key
    IN /\ ~map[key].segments[packets[i].segment].filled
       /\ \A k \in 0..(Pieces(Message[m]) - 1) :
             k # packets[i].segment => map[key].segments[k].filled
       /\ joiner' = Restrict(map, DOMAIN map \ {key}) /\ alive' \in BOOLEAN
       /\ NothingReadTwice => passed' = passed (+) SetToBag({Message[m]}) /\ alive' = TRUE

LEMMA JoinIs ==
  ASSUME SentInvariant, JoinerInvariant, NEW i \in 1..Len(packets),
         IsLong(Message[packets[i].message]),
         NEW meta, meta.key = packets[i].key, meta.segment = packets[i].segment,
         meta.count = Pieces(Message[packets[i].message]),
         NEW content, content = Chunks(Message[packets[i].message])[packets[i].segment + 1],
         Join(meta, content)
  PROVE  \E map : Room(i, map) /\ (Kept(i, map) \/ Added(i, map) \/ Completed(i, map))
<1> DEFINE m   == packets[i].message
           key == packets[i].key
           s   == packets[i].segment
           n   == Pieces(Message[m])
<1> DEFINE Ends(map, k, seg, num) ==
         LET entry   == map[k]
             refused == \/ num # Cardinality(DOMAIN entry.segments)
                        \/ entry.segments[seg].filled
             filled  == Filled(entry, seg, content)
         IN CASE refused -> joiner' = map /\ UNCHANGED <<passed, alive>>
              [] ~refused /\ filled.non_filled > 0 ->
                     /\ joiner' = [map EXCEPT ![k] = filled]
                     /\ UNCHANGED <<passed, alive>>
              [] OTHER ->
                     /\ joiner' = Restrict(map, DOMAIN map \ {k})
                     /\ passed' = PassedOn(Joined(filled.segments))
                     /\ alive'  = ~Joined(filled.segments).panics
<1>1. PICK map \in WithEntry(key, n) : Ends(map, key, s, n)
  <2>1. \E map \in WithEntry(meta.key, meta.count) :
           Ends(map, meta.key, meta.segment, meta.count)
    BY Zenon DEF Join
  <2> HIDE DEF Ends
  <2> QED
    BY <2>1
<1>2. Room(i, map)
  BY EntryIs
<1>3. /\ m \in 1..Len(Message) /\ n \in Nat /\ n > 0 /\ s \in 0..(n - 1)
      /\ Message[m] \in Seq(Byte) /\ Len(Message[m]) > 0 /\ IsLong(Message[m])
  BY PacketIs, LongHasPieces DEF PacketsOf
<1>4. content \in Seq(Byte) /\ content = Chunks(Message[m])[s + 1]
  <2>1. s + 1 \in 1..n
    BY <1>3
  <2> HIDE DEF s, m
  <2>2. Chunks(Message[m])[s + 1] \in Seq(Byte)
    BY <1>3, <2>1, ChunksAre
  <2> QED
    BY <2>2 DEF s, m
<1> DEFINE entry  == map[key]
           filled == Filled(entry, s, content)
<1>5. Holds(entry, m)
  BY <1>2 DEF Room
<1>6. /\ entry \in [segments : [0..(n - 1) -> ASegment], non_filled : Nat]
      /\ DOMAIN entry.segments = 0..(n - 1)
  BY <1>5 DEF Holds
<1>7. n = Cardinality(DOMAIN entry.segments)
  <2> HIDE DEF n, entry
  <2>1. 0 \in Int /\ n - 1 \in Int /\ ~(0 > n - 1) /\ (n - 1) - 0 + 1 = n
    BY <1>3
  <2>2. Cardinality(0..(n - 1)) = (n - 1) - 0 + 1
    BY ONLY <2>1, FS_Interval
  <2> QED
    BY <1>6, <2>1, <2>2
<1>9. \/ entry.segments[s].filled /\ joiner' = map /\ UNCHANGED <<passed, alive>>
      \/ /\ ~entry.segments[s].filled /\ filled.non_filled > 0
         /\ joiner' = [map EXCEPT ![key] = filled] /\ UNCHANGED <<passed, alive>>
      \/ /\ ~entry.segments[s].filled /\ ~(filled.non_filled > 0)
         /\ joiner' = Restrict(map, DOMAIN map \ {key})
         /\ passed' = PassedOn(Joined(filled.segments))
         /\ alive' = ~Joined(filled.segments).panics
  <2> HIDE DEF n, s, m, filled
  <2>1. LET refused == entry.segments[s].filled
        IN CASE refused -> joiner' = map /\ UNCHANGED <<passed, alive>>
             [] ~refused /\ filled.non_filled > 0 ->
                    joiner' = [map EXCEPT ![key] = filled] /\ UNCHANGED <<passed, alive>>
             [] OTHER ->
                    /\ joiner' = Restrict(map, DOMAIN map \ {key})
                    /\ passed' = PassedOn(Joined(filled.segments))
                    /\ alive' = ~Joined(filled.segments).panics
    BY <1>1, <1>7 DEF filled
  <2> HIDE DEF entry, key
  <2> QED
    BY <2>1
<1>10. ~entry.segments[s].filled =>
         /\ DOMAIN filled.segments = 0..(n - 1)
         /\ \A k \in 0..(n - 1) :
               /\ filled.segments[k].filled <=> k = s \/ entry.segments[k].filled
               /\ filled.segments[k].filled =>
                     filled.segments[k].bytes = Chunks(Message[m])[k + 1]
         /\ filled.non_filled > 0 => Holds(filled, m)
         /\ ~(filled.non_filled > 0) =>
               \A k \in 0..(n - 1) : k # s => entry.segments[k].filled
  <2> SUFFICES ASSUME ~entry.segments[s].filled
               PROVE  FilledIs(filled, entry, s, m)
    BY DEF FilledIs
  <2>1. ~entry.segments[s].filled /\ m \in 1..Len(Message) /\ s \in 0..(Pieces(Message[m]) - 1)
    BY <1>3
  <2> HIDE DEF entry, s, m
  <2> QED
    BY ONLY <1>4, <1>5, <2>1, FilledHolds DEF filled
<1> HIDE DEF filled
<1>11. CASE entry.segments[s].filled /\ joiner' = map /\ UNCHANGED <<passed, alive>>
  BY <1>2, <1>11 DEF Kept
<1>12. CASE /\ ~entry.segments[s].filled /\ filled.non_filled > 0
            /\ joiner' = [map EXCEPT ![key] = filled] /\ UNCHANGED <<passed, alive>>
  <2>1. Added(i, map)
    BY <1>10, <1>12 DEF Added
  <2> QED
    BY <1>2, <2>1
<1>13. CASE /\ ~entry.segments[s].filled /\ ~(filled.non_filled > 0)
            /\ joiner' = Restrict(map, DOMAIN map \ {key})
            /\ passed' = PassedOn(Joined(filled.segments))
            /\ alive' = ~Joined(filled.segments).panics
  <2>1. ASSUME NothingReadTwice
        PROVE  passed' = passed (+) SetToBag({Message[m]}) /\ alive' = TRUE
    <3>1. ~Reliable /\ ~Ordered
      BY <1>3, <2>1 DEF NothingReadTwice
    <3>2. DOMAIN filled.segments = 0..(n - 1)
          /\ \A k \in 0..(n - 1) : filled.segments[k].bytes = Chunks(Message[m])[k + 1]
      <4> HIDE DEF entry, n, s, m, key
      <4> QED
        BY ONLY <1>10, <1>13
    <3> DEFINE segments == filled.segments
    <3>3. Joined(segments) = [ok |-> TRUE, panics |-> FALSE, payload |-> Message[m]]
      <4>1. DOMAIN segments = 0..(n - 1)
          /\ \A k \in 0..(n - 1) : segments[k].bytes = Chunks(Message[m])[k + 1]
        BY <3>2
      <4> HIDE DEF segments, m
      <4> QED
        BY ONLY <1>3, <3>1, <4>1, JoinedIs
    <3> HIDE DEF segments
    <3>4. passed' = PassedOn(Joined(segments)) /\ alive' = ~Joined(segments).panics
      BY <1>13 DEF segments
    <3>5. passed' = passed (+) SetToBag({Message[m]})
      BY <3>3, <3>4 DEF PassedOn
    <3>6. Joined(segments).panics = FALSE
      BY <3>3
    <3>7. alive' = TRUE
      BY ONLY <3>4, <3>6, Zenon
    <3> QED
      BY <3>5, <3>7
  <2>2. Completed(i, map)
    <3>1. alive' \in BOOLEAN
      <4> DEFINE panics == Joined(filled.segments).panics
      <4>1. alive' = ~panics
        BY <1>13
      <4> HIDE DEF panics
      <4> QED
        BY ONLY <4>1, Zenon
    <3> QED
      BY <1>10, <1>13, <2>1, <3>1 DEF Completed
  <2> QED
    BY <1>2, <2>2
<1> QED
  BY <1>9, <1>11, <1>12, <1>13

\* Packet number i waits in the joiner.
InJoiner(i) ==
    /\ IsLong(Message[packets[i].message]) /\ packets[i].key \in DOMAIN joiner
    /\ joiner[packets[i].key].segments[packets[i].segment].filled

Key(i) == [index |-> i - 1, generation |-> 0]

\* The ways in which the arrival of packet number i ends: it was seen before,
\* it waits in the joiner, or its message goes on.
Idle(i) == Reliable /\ Key(i) \in seen /\ alive' = TRUE /\ UNCHANGED <<seen, joiner, passed>>

Stored(i) ==
    /\ passed' = passed /\ alive' = alive
    /\ InJoiner(i)'
    /\ \A j \in 1..Len(packets) : j # i /\ InJoiner(j)' => InJoiner(j)
    /\ JoinerCapacity = 0 => \A j \in 1..Len(packets) : InJoiner(j) => InJoiner(j)'

Done(i) ==
    /\ alive' \in BOOLEAN
    /\ NothingReadTwice =>
          passed' = passed (+) SetToBag({Message[packets[i].message]}) /\ alive' = TRUE
    /\ \A j \in 1..Len(packets) :
          /\ InJoiner(j)' => InJoiner(j)
          /\ packets[j].message = packets[i].message =>
                ~InJoiner(j)' /\ (j # i => InJoiner(j))
          /\ packets[j].message # packets[i].message /\ JoinerCapacity = 0 =>
                (InJoiner(j) => InJoiner(j)')

Effect(i) ==
    /\ JoinerInvariant'
    /\ \/ Idle(i)
       \/ seen' = (IF Reliable THEN seen \cup {Key(i)} ELSE seen) /\ (Stored(i) \/ Done(i))

\* Packets of one long message have one key, of two messages two.
LEMMA SameKey ==
  ASSUME SentInvariant, NEW i \in 1..Len(packets), NEW j \in 1..Len(packets),
         IsLong(Message[packets[i].message]), IsLong(Message[packets[j].message])
  PROVE  /\ packets[i].key = packets[j].key <=> packets[i].message = packets[j].message
         /\ packets[i].message = packets[j].message /\ j # i =>
               packets[j].segment # packets[i].segment
  BY DEF SentInvariant, KeysApart, PackedOnce

\* The segments of a message are those of its packets.
LEMMA SegmentIn ==
  ASSUME SentInvariant, NEW j \in 1..Len(packets), IsLong(Message[packets[j].message])
  PROVE  packets[j].segment \in 0..(Pieces(Message[packets[j].message]) - 1)
  BY PacketIs DEF PacketsOf

LEMMA JoinEffect ==
  ASSUME SentInvariant, JoinerInvariant, UNCHANGED packets, NEW i \in 1..Len(packets),
         IsLong(Message[packets[i].message]),
         NEW map, Room(i, map), Kept(i, map) \/ Added(i, map) \/ Completed(i, map)
  PROVE  JoinerInvariant' /\ (Stored(i) \/ Done(i))
<1> DEFINE m   == packets[i].message
           key == packets[i].key
           s   == packets[i].segment
           n   == Pieces(Message[m])
           In(f, j) == packets[j].key \in DOMAIN f /\ f[packets[j].key].segments[packets[j].segment].filled
<1>1. /\ map = [k \in DOMAIN map |-> map[k]]
      /\ key \in DOMAIN map /\ Holds(map[key], m)
      /\ \A k \in DOMAIN map : k # key => k \in DOMAIN joiner /\ map[k] = joiner[k]
      /\ key \in DOMAIN joiner => map[key] = joiner[key]
      /\ key \notin DOMAIN joiner => \A k \in 0..(n - 1) : ~map[key].segments[k].filled
      /\ JoinerCapacity = 0 => DOMAIN joiner \subseteq DOMAIN map
  BY DEF Room
<1>2. s \in 0..(n - 1)
  BY SegmentIn
<1>3. \A j \in 1..Len(packets) :
         /\ InJoiner(j) <=> IsLong(Message[packets[j].message]) /\ In(joiner, j)
         /\ InJoiner(j)' <=> IsLong(Message[packets[j].message]) /\ In(joiner', j)
  BY DEF InJoiner
<1>4. \A j \in 1..Len(packets) : IsLong(Message[packets[j].message]) =>
         /\ packets[j].key = key <=> packets[j].message = m
         /\ packets[j].message = m /\ j # i => packets[j].segment # s
         /\ packets[j].message = m => packets[j].segment \in 0..(n - 1)
  BY SameKey, SegmentIn
\* In the map as it was for those packets that have a place in it.
<1>5. ASSUME NEW j \in 1..Len(packets), IsLong(Message[packets[j].message])
      PROVE  /\ In(map, j) => In(joiner, j)
             /\ JoinerCapacity = 0 /\ In(joiner, j) => In(map, j)
  <2>1. CASE packets[j].key = key
    <3>1. packets[j].segment \in 0..(n - 1)
      BY <1>4, <1>5, <2>1
    <3> HIDE DEF key, n
    <3> QED
      BY <1>1, <2>1, <3>1
  <2>2. CASE packets[j].key # key
    <3> HIDE DEF key
    <3> QED
      BY <1>1, <2>2
  <2> QED
    BY <2>1, <2>2
<1>6. ASSUME joiner' = [k \in DOMAIN joiner' |-> joiner'[k]],
             \A k \in DOMAIN joiner' : \/ k # key /\ k \in DOMAIN map /\ joiner'[k] = map[k]
                                       \/ k = key /\ Holds(joiner'[k], m)
      PROVE  JoinerInvariant'
  <2> SUFFICES ASSUME NEW k \in DOMAIN joiner'
               PROVE  \E j \in 1..Len(packets') :
                         /\ IsLong(Message[packets'[j].message]) /\ packets'[j].key = k
                         /\ Holds(joiner'[k], packets'[j].message)
    BY <1>6 DEF JoinerInvariant, Holds
  <2>1. CASE k # key /\ k \in DOMAIN map /\ joiner'[k] = map[k]
    <3>1. k \in DOMAIN joiner /\ joiner'[k] = joiner[k]
      BY <1>1, <2>1
    <3> QED
      BY <3>1 DEF JoinerInvariant
  <2>2. CASE k = key /\ Holds(joiner'[k], m)
    BY <2>2
  <2> QED
    BY <1>6, <2>1, <2>2
<1>7. CASE Kept(i, map)
  <2>1. map[key].segments[s].filled /\ joiner' = map /\ passed' = passed /\ alive' = alive
    BY <1>7 DEF Kept
  <2>2. JoinerInvariant'
    <3>1. \A k \in DOMAIN joiner' : \/ k # key /\ k \in DOMAIN map /\ joiner'[k] = map[k]
                                    \/ k = key /\ Holds(joiner'[k], m)
      BY <1>1, <2>1
    <3> QED
      BY <1>1, <1>6, <2>1, <3>1
  <2>3. InJoiner(i)'
    BY <1>1, <1>3, <2>1
  <2>4. \A j \in 1..Len(packets) : InJoiner(j)' => InJoiner(j)
    <3> HIDE DEF In
    <3> QED
      BY <1>3, <1>5, <2>1
  <2>5. JoinerCapacity = 0 => \A j \in 1..Len(packets) : InJoiner(j) => InJoiner(j)'
    <3> HIDE DEF In
    <3> QED
      BY <1>3, <1>5, <2>1
  <2> QED
    BY <2>1, <2>2, <2>3, <2>4, <2>5 DEF Stored
<1>8. CASE Added(i, map)
  <2>1. PICK entry :
          /\ joiner' = [map EXCEPT ![key] = entry] /\ Holds(entry, m)
          /\ \A k \in 0..(n - 1) :
                entry.segments[k].filled <=> k = s \/ map[key].segments[k].filled
    BY <1>8 DEF Added
  <2>2. passed' = passed /\ alive' = alive
    BY <1>8 DEF Added
  <2>3. /\ DOMAIN joiner' = DOMAIN map /\ joiner'[key] = entry
        /\ joiner' = [k \in DOMAIN joiner' |-> joiner'[k]]
        /\ \A k \in DOMAIN joiner' : k # key => joiner'[k] = map[k]
    <3> HIDE DEF key
    <3> QED
      BY <1>1, <2>1
  <2>4. JoinerInvariant'
    <3>1. \A k \in DOMAIN joiner' : \/ k # key /\ k \in DOMAIN map /\ joiner'[k] = map[k]
                                    \/ k = key /\ Holds(joiner'[k], m)
      BY <2>1, <2>3
    <3> QED
      BY <1>6, <2>3, <3>1
  <2>5. ASSUME NEW j \in 1..Len(packets), IsLong(Message[packets[j].message])
        PROVE  In(joiner', j) <=> j = i \/ In(map, j)
    <3>1. CASE packets[j].key = key
      <4>1. packets[j].segment \in 0..(n - 1) /\ (j # i => packets[j].segment # s)
            /\ (j = i => packets[j].segment = s)
        BY <1>4, <2>5, <3>1
      <4> HIDE DEF key, s, n
      <4>2. entry.segments[packets[j].segment].filled <=>
               packets[j].segment = s \/ map[key].segments[packets[j].segment].filled
        BY <2>1, <4>1
      <4> QED
        BY <1>1, <2>3, <3>1, <4>1, <4>2
    <3>2. CASE packets[j].key # key
      <4>1. j # i
        BY <3>2
      <4> HIDE DEF key
      <4> QED
        BY <2>3, <3>2, <4>1
    <3> QED
      BY <3>1, <3>2
  <2>6. InJoiner(i)'
    <3> HIDE DEF In
    <3> QED
      BY <1>3, <2>5
  <2>7. \A j \in 1..Len(packets) : j # i /\ InJoiner(j)' => InJoiner(j)
    <3> HIDE DEF In
    <3> QED
      BY <1>3, <1>5, <2>5
  <2>8. JoinerCapacity = 0 => \A j \in 1..Len(packets) : InJoiner(j) => InJoiner(j)'
    <3> HIDE DEF In
    <3> QED
      BY <1>3, <1>5, <2>5
  <2> QED
    BY <2>2, <2>4, <2>6, <2>7, <2>8 DEF Stored
<1>9. CASE Completed(i, map)
  <2>1. /\ \A k \in 0..(n - 1) : k # s => map[key].segments[k].filled
        /\ joiner' = Restrict(map, DOMAIN map \ {key})
        /\ NothingReadTwice => passed' = passed (+) SetToBag({Message[m]}) /\ alive' = TRUE
        /\ alive' \in BOOLEAN
    BY <1>9 DEF Completed
  <2>2. /\ DOMAIN joiner' = DOMAIN map \ {key}
        /\ joiner' = [k \in DOMAIN joiner' |-> joiner'[k]]
        /\ \A k \in DOMAIN joiner' : joiner'[k] = map[k]
    <3> HIDE DEF key
    <3> QED
      BY <2>1 DEF Restrict
  <2>3. JoinerInvariant'
    <3>1. \A k \in DOMAIN joiner' : \/ k # key /\ k \in DOMAIN map /\ joiner'[k] = map[k]
                                    \/ k = key /\ Holds(joiner'[k], m)
      BY <2>2
    <3> QED
      BY <1>6, <2>2, <3>1
  <2>4. ASSUME NEW j \in 1..Len(packets), IsLong(Message[packets[j].message])
        PROVE  /\ In(joiner', j) <=> packets[j].message # m /\ In(map, j)
               /\ packets[j].message = m /\ j # i => In(map, j)
    <3>1. CASE packets[j].key = key
      <4>1. packets[j].message = m /\ packets[j].segment \in 0..(n - 1)
            /\ (j # i => packets[j].segment # s)
        BY <1>4, <2>4, <3>1
      <4> HIDE DEF key, s, n, m
      <4> QED
        BY <1>1, <2>1, <2>2, <3>1, <4>1
    <3>2. CASE packets[j].key # key
      <4>1. packets[j].message # m
        BY <1>4, <2>4, <3>2
      <4> HIDE DEF key, m
      <4> QED
        BY <2>2, <3>2, <4>1
    <3> QED
      BY <3>1, <3>2
  <2>5. ASSUME NEW j \in 1..Len(packets)
        PROVE  /\ InJoiner(j)' => InJoiner(j)
               /\ packets[j].message = m => ~InJoiner(j)' /\ (j # i => InJoiner(j))
               /\ packets[j].message # m /\ JoinerCapacity = 0 => (InJoiner(j) => InJoiner(j)')
    <3>1. packets[j].message = m => IsLong(Message[packets[j].message])
      OBVIOUS
    <3> HIDE DEF In, m
    <3> QED
      BY <1>3, <1>5, <2>4, <3>1
  <2> QED
    BY <2>1, <2>3, <2>5 DEF Done
<1> QED
  BY <1>7, <1>8, <1>9

\* A message of one packet: no other packet is of it, and none waits.
LEMMA DirectEffect ==
  ASSUME SentInvariant, JoinerInvariant, UNCHANGED <<packets, joiner>>, NEW i \in 1..Len(packets),
         ~IsLong(Message[packets[i].message]), alive' = TRUE,
         passed' = passed (+) SetToBag({Message[packets[i].message]})
  PROVE  JoinerInvariant' /\ Done(i)
<1>1. JoinerInvariant'
  BY DEF JoinerInvariant, Holds
<1>2. \A j \in 1..Len(packets) : InJoiner(j)' <=> InJoiner(j)
  BY DEF InJoiner
<1>3. ASSUME NEW j \in 1..Len(packets), packets[j].message = packets[i].message
      PROVE  ~InJoiner(j) /\ j = i
  <2>1. ~InJoiner(j)
    BY <1>3 DEF InJoiner
  <2>2. packets[j].segment \in 0..(PacketsOf(packets[j].message) - 1)
        /\ packets[i].segment \in 0..(PacketsOf(packets[i].message) - 1)
    BY PacketIs
  <2>3. PacketsOf(packets[i].message) = 1
    BY DEF PacketsOf
  <2>4. packets[j].segment = packets[i].segment
    BY <1>3, <2>2, <2>3
  <2> QED
    BY <1>3, <2>1, <2>4 DEF SentInvariant, PackedOnce
<1> QED
  BY <1>1, <1>2, <1>3 DEF Done

LEMMA ArriveIs ==
  ASSUME FewPackets, SentInvariant, JoinerInvariant, alive \in BOOLEAN,
         NEW i \in 1..Len(packets), Arrive(i)
  PROVE  Effect(i)
<1> DEFINE packet  == packets[i]
           payload == Message[packet.message]
           primary == ReadPrimary(packet.bytes)
           meta    == ReadSegmentMetadata(primary.rest)
           prefix  == ReadPrefix(IF primary.segment THEN meta.rest ELSE primary.rest)
           reads   == {primary, prefix} \cup (IF primary.segment THEN {meta} ELSE {})
<1>1. /\ primary.ok /\ ~primary.panics /\ primary.segment = IsLong(payload)
      /\ primary.segment => /\ meta.ok /\ ~meta.panics
                            /\ meta.key = packet.key /\ meta.segment = packet.segment
                            /\ meta.count = Len(Chunks(payload))
      /\ prefix.ok /\ ~prefix.panics
      /\ prefix.rest = IF primary.segment THEN Chunks(payload)[packet.segment + 1] ELSE payload
      /\ Reliable => prefix.key = Key(i)
  <2>1. /\ count \in 0..Len(Message) /\ Len(packets) \in Nat /\ Written(i)
    BY DEF SentInvariant, SentTyped
  <2>2. ReadAs(i)
    BY <2>1, PacketReadBack
  <2> QED
    BY <2>2 DEF ReadAs, Key
<1>2. /\ IF (\E read \in reads : ~read.ok) \/ ~Fresh(prefix)
         THEN /\ alive' = \A read \in reads : ~read.panics
              /\ UNCHANGED <<seen, joiner, passed>>
         ELSE /\ seen' = Recorded(prefix)
              /\ IF primary.segment THEN Join(meta, prefix.rest)
                 ELSE /\ passed' = passed (+) SetToBag({prefix.rest})
                      /\ UNCHANGED <<joiner, alive>>
      /\ UNCHANGED packets
  BY Zenon DEF Arrive
<1>7. alive = TRUE
  <2>1. alive
    BY Zenon DEF Arrive
  <2> QED
    BY <2>1
<1>3. packet.message \in 1..Len(Message)
  BY PacketIs
<1>4. IsLong(payload) \in BOOLEAN /\ Len(Chunks(payload)) = Pieces(payload)
  BY <1>3, LongHasPieces, ChunksAre
<1> HIDE DEF primary, meta, prefix
<1>8. \A read \in reads : read.ok /\ ~read.panics
  BY <1>1
<1> HIDE DEF reads
<1>5. CASE ~Fresh(prefix)
  <2>1. alive' = TRUE /\ UNCHANGED <<seen, joiner, passed>> /\ UNCHANGED packets
    BY <1>2, <1>5, <1>8
  <2>2. Reliable /\ Key(i) \in seen
    BY <1>1, <1>5, Words DEF Fresh
  <2>3. JoinerInvariant'
    BY <2>1 DEF JoinerInvariant, Holds
  <2> QED
    BY <2>1, <2>2, <2>3 DEF Effect, Idle
<1>6. CASE Fresh(prefix)
  <2>1. /\ seen' = Recorded(prefix)
        /\ IF IsLong(payload) THEN Join(meta, prefix.rest)
           ELSE passed' = passed (+) SetToBag({prefix.rest}) /\ UNCHANGED <<joiner, alive>>
        /\ UNCHANGED packets
    BY ONLY <1>1, <1>2, <1>6, <1>8
  <2>2. seen' = IF Reliable THEN seen \cup {Key(i)} ELSE seen
    BY <1>1, <2>1 DEF Recorded
  <2>3. CASE IsLong(payload)
    <3>1. Join(meta, prefix.rest)
      BY <2>1, <2>3
    <3>2. /\ meta.key = packets[i].key /\ meta.segment = packets[i].segment
          /\ meta.count = Pieces(payload)
          /\ prefix.rest = Chunks(payload)[packet.segment + 1]
      BY <1>1, <1>4, <2>3
    <3>3. PICK map : Room(i, map) /\ (Kept(i, map) \/ Added(i, map) \/ Completed(i, map))
      BY <2>3, <3>1, <3>2, JoinIs
    <3>4. JoinerInvariant' /\ (Stored(i) \/ Done(i))
      BY <2>1, <2>3, <3>3, JoinEffect
    <3> QED
      BY <2>2, <3>4 DEF Effect
  <2>4. CASE ~IsLong(payload)
    <3>1. /\ passed' = passed (+) SetToBag({payload}) /\ alive' = TRUE
          /\ UNCHANGED <<packets, joiner>>
      BY <1>1, <1>4, <1>7, <2>1, <2>4
    <3>2. JoinerInvariant' /\ Done(i)
      BY <2>4, <3>1, DirectEffect
    <3> QED
      BY <2>2, <3>2 DEF Effect
  <2> QED
    BY <1>4, <2>3, <2>4
<1> QED
  BY <1>5, <1>6

-----------------------------------------------------------------------------
(* What goes on *)

PassedSent ==
    /\ \A payload \in DOMAIN passed :
          passed[payload] \in Nat \ {0} /\ \E m \in 1..count : payload = Message[m]

\* How many copies of a packet's message went on.
CopiesOf(i) == Copies(Message[packets[i].message])

\* A packet has arrived for each copy of its message that went on, and once
\* more if it waits in the joiner.
ArrivedFor ==
    \A i \in 1..Len(packets) :
        /\ CopiesOf(i) <= arrivals[i]
        /\ InJoiner(i) => CopiesOf(i) < arrivals[i]

\* A packet that arrived waits in the joiner or its message went on.
NothingLost ==
    JoinerCapacity = 0 =>
        /\ seen \subseteq {Key(i) : i \in {j \in 1..Len(packets) : arrivals[j] > 0}}
        /\ \A i \in 1..Len(packets) : arrivals[i] > 0 =>
              Message[packets[i].message] \in DOMAIN passed \/ InJoiner(i)

ReceivedInvariant ==
    /\ JoinerInvariant /\ alive \in BOOLEAN
    /\ NothingReadTwice => alive /\ PassedSent /\ ArrivedFor /\ NothingLost

LEMMA Counted ==
  ASSUME PassedSent, NEW payload, passed' = passed (+) SetToBag({payload})
  PROVE  /\ DOMAIN passed' = DOMAIN passed \cup {payload}
         /\ \A p \in DOMAIN passed : passed'[p] \in Nat \ {0}
         /\ passed'[payload] \in Nat \ {0}
         /\ Copies(payload) \in Nat /\ Copies(payload)' = Copies(payload) + 1
         /\ \A p : p # payload => Copies(p)' = Copies(p)
<1> DEFINE one == SetToBag({payload})
<1>1. one = [p \in {payload} |-> 1]
  BY DEF SetToBag
<1> HIDE DEF one
<1>2. passed' = [p \in (DOMAIN passed) \cup (DOMAIN one) |->
                    (IF p \in DOMAIN passed THEN passed[p] ELSE 0)
                        + (IF p \in DOMAIN one THEN one[p] ELSE 0)]
  BY DEF (+), one
<1>3. DOMAIN one = {payload} /\ one[payload] = 1
  BY <1>1
<1>4. DOMAIN passed' = DOMAIN passed \cup {payload}
  BY <1>2, <1>3
<1>5. \A p \in DOMAIN passed : passed[p] \in Nat \ {0}
  BY DEF PassedSent
<1>6. ASSUME NEW p \in DOMAIN passed' PROVE
         passed'[p] = (IF p \in DOMAIN passed THEN passed[p] ELSE 0)
                         + (IF p = payload THEN 1 ELSE 0)
  <2>1. p \in DOMAIN one <=> p = payload
    BY <1>3
  <2> QED
    BY <1>2, <1>3, <1>4, <2>1
<1>7. passed'[payload] = (IF payload \in DOMAIN passed THEN passed[payload] ELSE 0) + 1
  BY <1>4, <1>6
<1>8. ASSUME NEW p \in DOMAIN passed, p # payload PROVE passed'[p] = passed[p]
  <2>1. passed'[p] = passed[p] + 0
    BY <1>4, <1>6, <1>8
  <2> QED
    BY <1>5, <2>1
<1>9. Copies(payload) \in Nat /\ Copies(payload)' = Copies(payload) + 1
      /\ passed'[payload] \in Nat \ {0}
  BY <1>4, <1>5, <1>7 DEF Copies
<1>10. ASSUME NEW p, p # payload PROVE Copies(p)' = Copies(p)
  BY <1>4, <1>8, <1>10 DEF Copies
<1>11. \A p \in DOMAIN passed : passed'[p] \in Nat \ {0}
  BY <1>5, <1>8, <1>9
<1> QED
  BY <1>4, <1>9, <1>10, <1>11

\* Two messages are never the same.
LEMMA MessagesDiffer ==
  \A a, b \in 1..Len(Message) : Message[a] = Message[b] => a = b
<1>1. DOMAIN Message = 1..Len(Message) /\ IsInjective(Message)
  BY Sizes
<1> QED
  BY <1>1 DEF IsInjective

LEMMA SendKeepsReceived ==
  ASSUME SentInvariant, ReceivedInvariant, NEW m, NEW n, NEW key, Grown(m, n, key)
  PROVE  ReceivedInvariant'
<1>1. /\ n = Len(packets) /\ m = count + 1 /\ count' = m /\ m \in 1..Len(Message)
      /\ UNCHANGED <<joiner, seen, alive, passed>>
      /\ \A i \in 1..n : arrivals'[i] = arrivals[i]
      /\ \A i \in (n + 1)..(n + PacketsOf(m)) : arrivals'[i] = 0
  BY DEF Grown
<1>2. /\ n \in Nat /\ m \in Nat /\ count \in Nat
      /\ \A i \in 1..n : packets'[i] = packets[i] /\ i \in 1..Len(packets')
      /\ \A i \in (n + 1)..(n + PacketsOf(m)) :
            packets'[i].message = m /\ packets'[i].key = key
      /\ \A i \in 1..Len(packets') : i \in 1..n \/ i \in (n + 1)..(n + PacketsOf(m))
  <2>1. count \in Nat
    BY DEF SentInvariant, SentTyped
  <2> QED
    BY <2>1, GrownPackets
<1>3. JoinerInvariant'
  <2>1. joiner' = [k \in DOMAIN joiner' |-> joiner'[k]]
    BY <1>1 DEF ReceivedInvariant, JoinerInvariant
  <2>2. ASSUME NEW k \in DOMAIN joiner'
        PROVE  \E i \in 1..Len(packets') :
                  /\ IsLong(Message[packets'[i].message]) /\ packets'[i].key = k
                  /\ Holds(joiner'[k], packets'[i].message)
    <3>1. k \in DOMAIN joiner /\ joiner'[k] = joiner[k]
      BY <1>1
    <3>2. PICK i \in 1..n : /\ IsLong(Message[packets[i].message]) /\ packets[i].key = k
                            /\ Holds(joiner[k], packets[i].message)
      BY <1>1, <3>1 DEF ReceivedInvariant, JoinerInvariant
    <3>3. packets'[i] = packets[i] /\ i \in 1..Len(packets')
      BY <1>2
    <3> QED
      BY <3>1, <3>2, <3>3
  <2> QED
    BY <2>1, <2>2 DEF JoinerInvariant, Holds
<1>4. ASSUME NEW i \in 1..n PROVE InJoiner(i)' <=> InJoiner(i)
  BY <1>1, <1>2 DEF InJoiner
<1>5. ASSUME NEW i \in (n + 1)..(n + PacketsOf(m)) PROVE ~InJoiner(i)'
  <2> SUFFICES ASSUME InJoiner(i)' PROVE FALSE
    OBVIOUS
  <2>1. IsLong(Message[m]) /\ key \in DOMAIN joiner
    BY <1>1, <1>2 DEF InJoiner
  <2>2. key = counter /\ counter \in Nat
    BY <2>1 DEF Grown, SentInvariant, SentTyped
  <2>3. PICK j \in 1..n : IsLong(Message[packets[j].message]) /\ packets[j].key = key
    BY <1>1, <2>1 DEF ReceivedInvariant, JoinerInvariant
  <2>4. packets[j].key < counter
    BY <1>1, <2>3 DEF SentInvariant, KeysUsed
  <2> QED
    BY <2>2, <2>3, <2>4
<1>6. ASSUME NothingReadTwice PROVE alive' /\ PassedSent' /\ ArrivedFor' /\ NothingLost'
  <2>1. alive /\ PassedSent /\ ArrivedFor /\ NothingLost
    BY <1>6 DEF ReceivedInvariant
  <2>7. alive'
    BY <1>1, <2>1
  <2>2. PassedSent'
    <3>1. 1..count \subseteq 1..count'
      BY <1>1, <1>2
    <3> QED
      BY <1>1, <2>1, <3>1 DEF PassedSent
  <2>3. \A p : Copies(p)' = Copies(p)
    BY <1>1 DEF Copies
  <2>4. Copies(Message[m]) = 0
    <3>1. ASSUME Message[m] \in DOMAIN passed PROVE FALSE
      <4>1. PICK k \in 1..count : Message[m] = Message[k]
        BY <2>1, <3>1 DEF PassedSent
      <4>2. k \in 1..Len(Message) /\ k # m
        BY <1>1, <1>2, Sizes
      <4> QED
        BY <1>1, <4>1, <4>2, MessagesDiffer
    <3> QED
      BY <3>1 DEF Copies
  <2>5. ArrivedFor'
    <3> SUFFICES ASSUME NEW i \in 1..Len(packets')
                 PROVE  /\ CopiesOf(i)' <= arrivals'[i]
                        /\ InJoiner(i)' => CopiesOf(i)' < arrivals'[i]
      BY DEF ArrivedFor
    <3>1. CASE i \in 1..n
      <4>1. /\ packets'[i] = packets[i] /\ arrivals'[i] = arrivals[i]
            /\ InJoiner(i)' <=> InJoiner(i)
        BY <1>1, <1>2, <1>4, <3>1
      <4>2. CopiesOf(i) <= arrivals[i] /\ (InJoiner(i) => CopiesOf(i) < arrivals[i])
        BY <1>1, <2>1, <3>1 DEF ArrivedFor
      <4>3. CopiesOf(i)' = CopiesOf(i)
        BY <1>1, <4>1 DEF CopiesOf, Copies
      <4> QED
        BY <4>1, <4>2, <4>3
    <3>2. CASE i \in (n + 1)..(n + PacketsOf(m))
      <4>1. packets'[i].message = m /\ arrivals'[i] = 0 /\ ~InJoiner(i)'
        BY <1>1, <1>2, <1>5, <3>2
      <4>2. CopiesOf(i)' = 0
        BY <1>1, <2>4, <4>1 DEF CopiesOf, Copies
      <4> QED
        BY <4>1, <4>2
    <3> QED
      BY <1>2, <3>1, <3>2
  <2>6. NothingLost'
    <3> SUFFICES ASSUME JoinerCapacity = 0
                 PROVE  /\ seen' \subseteq {Key(i) : i \in {j \in 1..Len(packets') : arrivals'[j] > 0}}
                        /\ \A i \in 1..Len(packets') : arrivals'[i] > 0 =>
                              Message[packets'[i].message] \in DOMAIN passed' \/ InJoiner(i)'
      BY DEF NothingLost, Key
    <3>1. /\ seen \subseteq {Key(i) : i \in {j \in 1..n : arrivals[j] > 0}}
          /\ \A i \in 1..n : arrivals[i] > 0 =>
                Message[packets[i].message] \in DOMAIN passed \/ InJoiner(i)
      BY <1>1, <2>1 DEF NothingLost
    <3>2. {j \in 1..n : arrivals[j] > 0} \subseteq {j \in 1..Len(packets') : arrivals'[j] > 0}
      BY <1>1, <1>2
    <3>3. seen' \subseteq {Key(i) : i \in {j \in 1..Len(packets') : arrivals'[j] > 0}}
      BY <1>1, <3>1, <3>2
    <3>4. ASSUME NEW i \in 1..Len(packets'), arrivals'[i] > 0
          PROVE  Message[packets'[i].message] \in DOMAIN passed' \/ InJoiner(i)'
      <4>1. i \in 1..n
        <5>1. i \in (n + 1)..(n + PacketsOf(m)) => arrivals'[i] = 0
          BY <1>1
        <5>2. ~(0 > 0)
          OBVIOUS
        <5> QED
          BY <1>2, <3>4, <5>1, <5>2
      <4>2. packets'[i] = packets[i] /\ arrivals'[i] = arrivals[i] /\ (InJoiner(i)' <=> InJoiner(i))
        BY <1>1, <1>2, <1>4, <4>1
      <4> QED
        BY <1>1, <3>1, <3>4, <4>1, <4>2
    <3> QED
      BY <3>3, <3>4
  <2> QED
    BY <2>2, <2>5, <2>6, <2>7
<1>7. alive' \in BOOLEAN
  BY <1>1 DEF ReceivedInvariant
<1> QED
  BY <1>3, <1>6, <1>7 DEF ReceivedInvariant

LEMMA ArriveKeepsReceived ==
  ASSUME FewPackets, SentInvariant, ReceivedInvariant, NEW i \in DOMAIN packets, Arrive(i)
  PROVE  ReceivedInvariant'
<1>1. /\ UNCHANGED <<count, packets>> /\ i \in 1..Len(packets)
      /\ arrivals[i] \in Nat /\ arrivals'[i] = arrivals[i] + 1
      /\ \A j \in 1..Len(packets) : arrivals[j] \in Nat /\ (j # i => arrivals'[j] = arrivals[j])
  BY ArriveKeepsSent
<1>2. Effect(i)
  BY <1>1, ArriveIs DEF ReceivedInvariant
<1>3. JoinerInvariant'
  BY <1>2 DEF Effect
<1>4. ASSUME NothingReadTwice PROVE alive' /\ PassedSent' /\ ArrivedFor' /\ NothingLost'
  <2>0. PICK m \in 1..Len(Message) : m = packets[i].message /\ m \in 1..count
    BY <1>1, PacketIs
  <2>1. alive /\ PassedSent /\ ArrivedFor /\ NothingLost
    BY <1>4 DEF ReceivedInvariant
  <2>2. \A p : Copies(p) \in Nat
    BY <2>1 DEF PassedSent, Copies
  <2>3. \A j \in 1..Len(packets) : CopiesOf(j) \in Nat
    BY <2>2 DEF CopiesOf
  <2>4. /\ \A j \in 1..Len(packets) :
              /\ CopiesOf(j) <= arrivals[j]
              /\ InJoiner(j) => CopiesOf(j) < arrivals[j]
        /\ JoinerCapacity = 0 =>
              /\ seen \subseteq {Key(j) : j \in {k \in 1..Len(packets) : arrivals[k] > 0}}
              /\ \A j \in 1..Len(packets) : arrivals[j] > 0 =>
                    Message[packets[j].message] \in DOMAIN passed \/ InJoiner(j)
    BY <2>1 DEF ArrivedFor, NothingLost
\* Whatever happens to what goes on, the packets counted are as many or more.
  <2>5. ASSUME \A j \in 1..Len(packets) :
                  /\ CopiesOf(j)' <= arrivals'[j]
                  /\ InJoiner(j)' => CopiesOf(j)' < arrivals'[j]
        PROVE  ArrivedFor'
    BY <1>1, <2>5 DEF ArrivedFor
  <2>6. ASSUME JoinerCapacity = 0 =>
                  /\ seen' \subseteq seen \cup {Key(i)}
                  /\ \A j \in 1..Len(packets) : arrivals'[j] > 0 =>
                        Message[packets[j].message] \in DOMAIN passed' \/ InJoiner(j)'
        PROVE  NothingLost'
    <3> SUFFICES ASSUME JoinerCapacity = 0
                 PROVE  seen' \subseteq {Key(j) : j \in {k \in 1..Len(packets) : arrivals'[k] > 0}}
      BY <1>1, <2>6 DEF NothingLost, Key
    <3>1. {k \in 1..Len(packets) : arrivals[k] > 0} \cup {i}
             \subseteq {k \in 1..Len(packets) : arrivals'[k] > 0}
      BY <1>1
    <3>2. seen \cup {Key(i)}
             \subseteq {Key(j) : j \in {k \in 1..Len(packets) : arrivals[k] > 0} \cup {i}}
      BY <2>4
    <3> QED
      BY <2>6, <3>1, <3>2
  <2>7. CASE Idle(i)
    <3>1. Reliable /\ Key(i) \in seen /\ alive' = TRUE /\ UNCHANGED <<seen, joiner, passed>>
      BY <2>7 DEF Idle
    <3>2. /\ \A j \in 1..Len(packets) : InJoiner(j)' <=> InJoiner(j)
          /\ \A j \in 1..Len(packets) : CopiesOf(j)' = CopiesOf(j)
      BY <1>1, <3>1 DEF InJoiner, Copies, CopiesOf
    <3>3. PassedSent'
      BY <1>1, <2>1, <3>1 DEF PassedSent
    <3>4. ArrivedFor'
      <4>1. ASSUME NEW j \in 1..Len(packets)
            PROVE  /\ CopiesOf(j)' <= arrivals'[j]
                   /\ InJoiner(j)' => CopiesOf(j)' < arrivals'[j]
        <5> DEFINE c == CopiesOf(j)
        <5>1. c' = c /\ c \in Nat /\ c <= arrivals[j] /\ (InJoiner(j)' => c < arrivals[j])
              /\ arrivals[j] \in Nat /\ (arrivals'[j] = arrivals[j] \/ arrivals'[j] = arrivals[j] + 1)
          BY <1>1, <2>3, <2>4, <3>2
        <5> HIDE DEF c
        <5>2. c' <= arrivals'[j] /\ (InJoiner(j)' => c' < arrivals'[j])
          BY <5>1
        <5> QED
          BY <5>2 DEF c
      <4> QED
        BY <2>5, <4>1
    <3>5. NothingLost'
      <4>1. JoinerCapacity = 0 =>
               /\ seen' \subseteq seen \cup {Key(i)}
               /\ \A j \in 1..Len(packets) : arrivals'[j] > 0 =>
                     Message[packets[j].message] \in DOMAIN passed' \/ InJoiner(j)'
        <5> SUFFICES ASSUME JoinerCapacity = 0, NEW j \in 1..Len(packets), arrivals'[j] > 0
                     PROVE  Message[packets[j].message] \in DOMAIN passed' \/ InJoiner(j)'
          BY <3>1
        <5>1. arrivals[i] > 0
          <6>1. PICK k \in 1..Len(packets) : arrivals[k] > 0 /\ Key(i) = Key(k)
            BY <2>4, <3>1
          <6>2. i - 1 = k - 1
            BY <6>1 DEF Key
          <6>3. i \in Nat /\ k \in Nat
            BY <1>1
          <6>4. i = k
            BY ONLY <6>2, <6>3
          <6> QED
            BY <6>1, <6>4
        <5>2. arrivals[j] > 0
          BY <1>1, <5>1
        <5> QED
          BY <2>4, <3>1, <3>2, <5>2
      <4> QED
        BY <2>6, <4>1
    <3> QED
      BY <3>1, <3>3, <3>4, <3>5
  <2>8. CASE seen' = (IF Reliable THEN seen \cup {Key(i)} ELSE seen) /\ Stored(i)
    <3>1. /\ passed' = passed /\ alive' = alive /\ InJoiner(i)'
          /\ \A j \in 1..Len(packets) : j # i /\ InJoiner(j)' => InJoiner(j)
          /\ JoinerCapacity = 0 => \A j \in 1..Len(packets) : InJoiner(j) => InJoiner(j)'
          /\ seen' \subseteq seen \cup {Key(i)}
      BY <2>8 DEF Stored
    <3>2. \A j \in 1..Len(packets) : CopiesOf(j)' = CopiesOf(j)
      BY <1>1, <3>1 DEF Copies, CopiesOf
    <3>3. PassedSent'
      BY <1>1, <2>1, <3>1 DEF PassedSent
    <3>4. ArrivedFor'
      <4>1. ASSUME NEW j \in 1..Len(packets)
            PROVE  /\ CopiesOf(j)' <= arrivals'[j]
                   /\ InJoiner(j)' => CopiesOf(j)' < arrivals'[j]
        <5> DEFINE c == CopiesOf(j)
        <5>1. /\ c' = c /\ c \in Nat /\ c <= arrivals[j]
              /\ j # i => (InJoiner(j)' => c < arrivals[j]) /\ arrivals'[j] = arrivals[j]
              /\ j = i => arrivals'[j] = arrivals[j] + 1
              /\ arrivals[j] \in Nat
          BY <1>1, <2>3, <2>4, <3>1, <3>2
        <5> HIDE DEF c
        <5>2. c' <= arrivals'[j] /\ (InJoiner(j)' => c' < arrivals'[j])
          BY <5>1
        <5> QED
          BY <5>2 DEF c
      <4> QED
        BY <2>5, <4>1
    <3>5. NothingLost'
      <4>1. ASSUME JoinerCapacity = 0, NEW j \in 1..Len(packets), arrivals'[j] > 0
            PROVE  Message[packets[j].message] \in DOMAIN passed' \/ InJoiner(j)'
        <5>1. CASE j = i
          BY <3>1, <5>1
        <5>2. CASE j # i
          <6>1. arrivals[j] > 0
            BY <1>1, <4>1, <5>2
          <6> QED
            BY <2>4, <3>1, <4>1, <6>1
        <5> QED
          BY <5>1, <5>2
      <4> QED
        BY <2>6, <3>1, <4>1
    <3> QED
      BY <2>1, <3>1, <3>3, <3>4, <3>5
  <2>9. CASE seen' = (IF Reliable THEN seen \cup {Key(i)} ELSE seen) /\ Done(i)
    <3>1. /\ passed' = passed (+) SetToBag({Message[m]}) /\ alive' = TRUE
          /\ \A j \in 1..Len(packets) :
                /\ InJoiner(j)' => InJoiner(j)
                /\ packets[j].message = m => ~InJoiner(j)' /\ (j # i => InJoiner(j))
                /\ packets[j].message # m /\ JoinerCapacity = 0 => (InJoiner(j) => InJoiner(j)')
          /\ seen' \subseteq seen \cup {Key(i)}
      BY <1>4, <2>0, <2>9 DEF Done
    <3>2. /\ DOMAIN passed' = DOMAIN passed \cup {Message[m]}
          /\ \A p \in DOMAIN passed : passed'[p] \in Nat \ {0}
          /\ passed'[Message[m]] \in Nat \ {0}
          /\ Copies(Message[m]) \in Nat /\ Copies(Message[m])' = Copies(Message[m]) + 1
          /\ \A p : p # Message[m] => Copies(p)' = Copies(p)
      BY <2>1, <3>1, Counted
    <3>3. PassedSent'
      <4> SUFFICES ASSUME NEW p \in DOMAIN passed'
                   PROVE  passed'[p] \in Nat \ {0} /\ \E k \in 1..count' : p = Message[k]
        BY DEF PassedSent
      <4> QED
        BY <1>1, <2>0, <2>1, <3>2 DEF PassedSent
    <3>4. ArrivedFor'
      <4>1. ASSUME NEW j \in 1..Len(packets)
            PROVE  /\ CopiesOf(j)' <= arrivals'[j]
                   /\ InJoiner(j)' => CopiesOf(j)' < arrivals'[j]
        <5> DEFINE c == CopiesOf(j)
                   d == CopiesOf(j)'
        <5>0. PICK k \in 1..Len(Message) : k = packets[j].message
          BY <1>1, PacketIs
        <5>4. c = Copies(Message[k]) /\ d = Copies(Message[k])'
          BY <1>1, <5>0 DEF CopiesOf, Copies
        <5>1. /\ c \in Nat /\ c <= arrivals[j] /\ (InJoiner(j) => c < arrivals[j])
              /\ arrivals[j] \in Nat
              /\ j # i => arrivals'[j] = arrivals[j]
              /\ j = i => arrivals'[j] = arrivals[j] + 1
          BY <1>1, <2>3, <2>4
        <5>2. CASE packets[j].message = m
          <6>1. d = c + 1 /\ ~InJoiner(j)' /\ (j # i => InJoiner(j))
            BY <3>1, <3>2, <5>0, <5>2, <5>4
          <6> HIDE DEF c, d
          <6>2. d <= arrivals'[j] /\ ~InJoiner(j)'
            BY <5>1, <6>1
          <6> QED
            BY <6>2 DEF d
        <5>3. CASE packets[j].message # m
          <6>1. Message[packets[j].message] # Message[m]
            BY <2>0, <5>0, <5>3, MessagesDiffer
          <6>2. d = c /\ j # i /\ (InJoiner(j)' => InJoiner(j))
            BY <2>0, <3>1, <3>2, <5>0, <5>3, <5>4, <6>1
          <6> HIDE DEF c, d
          <6>3. d <= arrivals'[j] /\ (InJoiner(j)' => d < arrivals'[j])
            BY <5>1, <6>2
          <6> QED
            BY <6>3 DEF d
        <5> QED
          BY <5>2, <5>3
      <4> QED
        BY <2>5, <4>1
    <3>5. NothingLost'
      <4>1. ASSUME JoinerCapacity = 0, NEW j \in 1..Len(packets), arrivals'[j] > 0
            PROVE  Message[packets[j].message] \in DOMAIN passed' \/ InJoiner(j)'
        <5>1. CASE packets[j].message = m
          BY <1>1, <3>2, <5>1
        <5>2. CASE packets[j].message # m
          <6>1. j # i
            BY <2>0, <5>2
          <6>2. arrivals[j] > 0
            BY <1>1, <4>1, <6>1
          <6> QED
            BY <2>4, <3>1, <3>2, <4>1, <5>2, <6>2
        <5> QED
          BY <5>1, <5>2
      <4> QED
        BY <2>6, <3>1, <4>1
    <3> QED
      BY <3>1, <3>3, <3>4, <3>5
  <2> QED
    BY <1>2, <2>7, <2>8, <2>9 DEF Effect
<1>5. alive' \in BOOLEAN
  BY <1>2 DEF Effect, Idle, Stored, Done, ReceivedInvariant
<1> QED
  BY <1>3, <1>4, <1>5 DEF ReceivedInvariant

-----------------------------------------------------------------------------
(* What follows *)

\* The invariant of the whole, for as long as the packets are few.
SegmentsInvariant == SentSoFar /\ (FewPackets => ReceivedInvariant)

LEMMA InitReceived == Init => ReceivedInvariant
<1> SUFFICES ASSUME Init PROVE ReceivedInvariant
  OBVIOUS
<1>1. count = 0 /\ packets = <<>> /\ joiner = <<>> /\ seen = {} /\ passed = EmptyBag
      /\ alive = TRUE
  BY DEF Init
<1>2. 1..Len(packets) = {}
  BY <1>1
<1>3. DOMAIN joiner = {} /\ joiner = [k \in DOMAIN joiner |-> joiner[k]]
  BY <1>1
<1>4. DOMAIN passed = {}
  BY <1>1 DEF EmptyBag, SetToBag
<1> QED
  BY <1>1, <1>2, <1>3, <1>4 DEF ReceivedInvariant, JoinerInvariant, PassedSent, ArrivedFor,
     NothingLost

LEMMA SegmentsInductive ==
  ASSUME SegmentsInvariant, [Next]_vars
  PROVE  SegmentsInvariant'
<1>1. SentSoFar'
  BY SentInductive DEF SegmentsInvariant
<1>2. ASSUME FewPackets' PROVE ReceivedInvariant'
  <2>1. FewPackets
    BY <1>2, PacketsGrow DEF SegmentsInvariant, SentSoFar
  <2>2. SentInvariant /\ ReceivedInvariant
    BY <2>1 DEF SegmentsInvariant, SentSoFar
  <2>3. SentTyped /\ count \in 0..Len(Message) /\ Len(packets) \in Nat
    BY <2>2 DEF SentInvariant, SentTyped
  <2>4. CASE Send
    <3>1. PICK m, key : SentAre(m, Len(packets), key)
      BY <2>3, <2>4, SendIs
    <3>2. Grown(m, Len(packets), key)
      BY <1>2, <2>3, <3>1, SendGrows
    <3> QED
      BY <2>2, <3>2, SendKeepsReceived
  <2>5. ASSUME NEW i \in DOMAIN packets, Arrive(i) PROVE ReceivedInvariant'
    BY <2>1, <2>2, <2>5, ArriveKeepsReceived
  <2>6. CASE UNCHANGED vars
    BY <2>2, <2>6 DEF vars, ReceivedInvariant, JoinerInvariant, Holds, PassedSent, ArrivedFor,
       NothingLost, InJoiner, CopiesOf, Copies, Key
  <2> QED
    BY <2>4, <2>5, <2>6 DEF Next
<1> QED
  BY <1>1, <1>2 DEF SegmentsInvariant

LEMMA SegmentsAlways == Spec => []SegmentsInvariant
<1>1. Init => SegmentsInvariant
  <2> SUFFICES ASSUME Init PROVE SegmentsInvariant
    OBVIOUS
  <2>1. SentInvariant /\ ReceivedInvariant
    BY InitSent, InitReceived
  <2>2. Listed /\ count \in 0..Len(Message)
    BY <2>1 DEF SentInvariant, SentTyped, Listed
  <2> QED
    BY <2>1, <2>2 DEF SegmentsInvariant, SentSoFar
<1>2. SegmentsInvariant /\ [Next]_vars => SegmentsInvariant'
  BY SegmentsInductive
<1> QED
  BY <1>1, <1>2, PTL DEF Spec

\* An entry of the joiner counts the segments it misses, and misses one, however
\* often its segments come and whichever entries are given up for others:
\* PacketSegmentJoiner::add() never takes 1 from a count of 0, nor leaves a
\* complete message behind.
THEOREM EntriesCount == Spec => [](FewPackets => TypeOK)
<1>1. SegmentsInvariant => (FewPackets => TypeOK)
  <2> SUFFICES ASSUME SegmentsInvariant, FewPackets PROVE TypeOK
    OBVIOUS
  <2>1. SentInvariant /\ JoinerInvariant
    BY DEF SegmentsInvariant, SentSoFar, ReceivedInvariant
  <2>2. count \in 0..Len(Message) /\ counter \in 0..(WordCount - 1) /\ alive \in BOOLEAN
    BY <2>1 DEF SentInvariant, SentTyped, SegmentsInvariant, ReceivedInvariant
  <2>3. arrivals \in [DOMAIN packets -> 0..MaxArrivals]
    <3>1. /\ packets \in Seq(APacket) /\ arrivals \in Seq(0..MaxArrivals)
          /\ Len(arrivals) = Len(packets)
      BY <2>1 DEF SentInvariant, SentTyped
    <3>2. DOMAIN packets = 1..Len(packets)
      BY <3>1
    <3>3. DOMAIN arrivals = 1..Len(arrivals) /\ arrivals = [i \in DOMAIN arrivals |-> arrivals[i]]
      BY <3>1
    <3>4. ASSUME NEW i \in 1..Len(arrivals) PROVE arrivals[i] \in 0..MaxArrivals
      <4>1. MaxArrivals \in Nat
        BY Sizes
      <4> QED
        BY <3>1, <4>1
    <3> QED
      BY <3>1, <3>2, <3>3, <3>4
  <2>4. ASSUME NEW key \in DOMAIN joiner
        PROVE  joiner[key].non_filled = Cardinality(Missing(joiner[key]))
               /\ Missing(joiner[key]) # {}
    BY <2>1 DEF JoinerInvariant, Holds
  <2> QED
    BY <2>2, <2>3, <2>4 DEF TypeOK, Missing
<1> QED
  BY <1>1, SegmentsAlways, PTL

\* No packet makes the receiver panic: a number is read only where one was
\* written, for a type with a place for each of its digits, so that the shift of
\* VarInt::decode() stays below the width, if no content is read as metadata.
THEOREM ReaderNeverPanics ==
  ASSUME NothingReadTwice
  PROVE  Spec => [](FewPackets => ReceiverSurvives)
<1>1. SegmentsInvariant => (FewPackets => ReceiverSurvives)
  BY DEF SegmentsInvariant, ReceivedInvariant, ReceiverSurvives
<1> QED
  BY <1>1, SegmentsAlways, PTL

\* What handle_message() passes on is a message that was sent, whole and with
\* nothing of another, if long messages have no metadata that is read twice.
THEOREM MessagesStayWhole ==
  ASSUME NothingReadTwice
  PROVE  Spec => [](FewPackets => WholeMessages)
<1>1. SegmentsInvariant => (FewPackets => WholeMessages)
  <2> SUFFICES ASSUME SegmentsInvariant, FewPackets PROVE WholeMessages
    OBVIOUS
  <2>1. SentInvariant /\ PassedSent
    BY DEF SegmentsInvariant, SentSoFar, ReceivedInvariant
  <2>2. count \in 0..Len(Message) /\ Len(Message) \in Nat /\ Message \in Seq(Seq(Byte))
    BY <2>1, Sizes DEF SentInvariant, SentTyped
  <2>3. ASSUME NEW k \in 1..count
        PROVE  Message[k] \in Range(SubSeq(Message, 1, count))
    <3> DEFINE sent == SubSeq(Message, 1, count)
    <3>1. k \in DOMAIN sent /\ sent[k] = Message[k]
      BY <2>2
    <3> HIDE DEF sent
    <3>2. Message[k] \in Range(sent)
      BY <3>1 DEF Range
    <3> QED
      BY <3>2 DEF sent
  <2> QED
    BY <2>1, <2>3 DEF PassedSent, WholeMessages
<1> QED
  BY <1>1, SegmentsAlways, PTL

\* Each copy of a message that goes on has taken a copy of each of its packets:
\* a joiner that has passed a message on starts from nothing.
THEOREM CopiesArePaidFor ==
  ASSUME NothingReadTwice
  PROVE  Spec => [](FewPackets => CopiesPaidFor)
<1>1. SegmentsInvariant => (FewPackets => CopiesPaidFor)
  <2> SUFFICES ASSUME SegmentsInvariant, FewPackets PROVE CopiesPaidFor
    OBVIOUS
  <2>1. SentInvariant /\ ArrivedFor /\ DOMAIN packets = 1..Len(packets)
    BY DEF SegmentsInvariant, SentSoFar, ReceivedInvariant, SentInvariant, SentTyped
  <2>2. \A i \in 1..Len(packets) : Copies(Message[packets[i].message]) <= arrivals[i]
    BY <2>1 DEF ArrivedFor, CopiesOf
  <2> QED
    BY <2>1, <2>2 DEF CopiesPaidFor, ArrivalsOf
<1> QED
  BY <1>1, SegmentsAlways, PTL

\* A message goes on when each of its packets has arrived, whatever else has
\* and in whichever order, if the joiner gives up no entry: PacketSegmentJoiner
\* is made with capacity 0, which the number of its entries never is when one
\* of them could be given up.
THEOREM SegmentsSuffice ==
  ASSUME NothingReadTwice, JoinerCapacity = 0
  PROVE  Spec => [](FewPackets => AllSegmentsSuffice)
<1>1. SegmentsInvariant => (FewPackets => AllSegmentsSuffice)
  <2> SUFFICES ASSUME SegmentsInvariant, FewPackets,
                      NEW m \in 1..count, 0 \notin ArrivalsOf(m), Message[m] \notin DOMAIN passed
               PROVE  FALSE
    BY DEF AllSegmentsSuffice
  <2>1. SentInvariant /\ JoinerInvariant /\ NothingLost
    BY DEF SegmentsInvariant, SentSoFar, ReceivedInvariant
  <2>2. /\ DOMAIN packets = 1..Len(packets) /\ arrivals \in Seq(0..MaxArrivals)
        /\ Len(arrivals) = Len(packets) /\ m \in 1..Len(Message)
    BY <2>1, Sizes DEF SentInvariant, SentTyped
  <2>3. ASSUME NEW i \in 1..Len(packets), packets[i].message = m
        PROVE  InJoiner(i)
    <3>1. arrivals[i] \in Nat
      <4>1. i \in 1..Len(arrivals) /\ MaxArrivals \in Nat
        BY <2>2, Sizes
      <4>2. arrivals[i] \in 0..MaxArrivals
        BY <2>2, <4>1
      <4> QED
        BY <4>2
    <3>2. arrivals[i] # 0
      BY <2>2, <2>3 DEF ArrivalsOf
    <3>3. arrivals[i] > 0
      BY <3>1, <3>2
    <3> QED
      BY <2>1, <2>3, <3>3 DEF NothingLost
  <2>4. ASSUME NEW k \in 0..(PacketsOf(m) - 1)
        PROVE  \E i \in 1..Len(packets) :
                  packets[i].message = m /\ packets[i].segment = k /\ InJoiner(i)
    BY <2>1, <2>3 DEF SentInvariant, AllPacked
  <2>5. 0 \in 0..(PacketsOf(m) - 1)
    BY <2>2, LongHasPieces
  <2>6. PICK i \in 1..Len(packets) : packets[i].message = m /\ InJoiner(i)
    BY <2>4, <2>5
  <2> DEFINE key == packets[i].key
  <2>7. IsLong(Message[m]) /\ key \in DOMAIN joiner
    BY <2>6 DEF InJoiner
  <2>8. Holds(joiner[key], m)
    <3>1. PICK j \in 1..Len(packets) : /\ IsLong(Message[packets[j].message])
                                       /\ packets[j].key = key
                                       /\ Holds(joiner[key], packets[j].message)
      BY <2>1, <2>7 DEF JoinerInvariant
    <3>2. packets[j].message = m
      BY <2>1, <2>6, <2>7, <3>1, SameKey
    <3> QED
      BY <3>1, <3>2
  <2>9. PICK k \in 0..(PacketsOf(m) - 1) : ~joiner[key].segments[k].filled
    <3>1. PICK k \in Missing(joiner[key]) : TRUE
      BY <2>8 DEF Holds
    <3>2. DOMAIN joiner[key].segments = 0..(PacketsOf(m) - 1)
      BY <2>7, <2>8 DEF Holds, PacketsOf
    <3> QED
      BY <3>1, <3>2 DEF Missing
  <2>10. PICK j \in 1..Len(packets) :
            packets[j].message = m /\ packets[j].segment = k /\ InJoiner(j)
    BY <2>4
  <2>11. packets[j].key = key
    BY <2>1, <2>6, <2>7, <2>10, SameKey
  <2> QED
    BY <2>9, <2>10, <2>11 DEF InJoiner
<1> QED
  BY <1>1, SegmentsAlways, PTL
=============================================================================
