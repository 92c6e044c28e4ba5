--------------------------- MODULE SlotMapProofs ----------------------------
(***************************************************************************)
(* SlotMap's invariant and its refinement of KeyStore, for every number of *)
(* slots and generations and every set of values.                          *)
(***************************************************************************)
EXTENDS SlotMap, SequenceTheorems, FiniteSetTheorems, TLAPS

\* The members of an ascending enumeration are those of the set, once each.
LEMMA AscendingProperties ==
  ASSUME NEW S \in SUBSET (1..MaxSlots), NEW s \in Ascending(S)
  PROVE  /\ s \in Seq(S)
         /\ \A m, n \in 1..Len(s) : s[m] = s[n] => m = n
         /\ \A i \in S : \E n \in 1..Len(s) : s[n] = i
<1>1. IsFiniteSet(1..MaxSlots)
  BY FS_Interval, SlotMapAssumption
<1>2. Cardinality(S) \in Nat
  BY <1>1, FS_Subset, FS_CardinalityType
<1>3. s \in [1..Cardinality(S) -> S]
  BY DEF Ascending
<1>4. s \in Seq(S) /\ Len(s) = Cardinality(S)
  BY <1>2, <1>3
<1>5. ASSUME NEW m \in 1..Len(s), NEW n \in 1..Len(s), s[m] = s[n]
      PROVE  m = n
  <2>1. s[m] \in S /\ s[n] \in S
    BY <1>3, <1>4
  <2>2. S \subseteq 1..MaxSlots
    OBVIOUS
  <2>3. s[m] \in Nat /\ s[n] \in Nat
    <3>1. s[m] \in 1..MaxSlots /\ s[n] \in 1..MaxSlots
      BY <2>1, <2>2
    <3>2. QED
      BY <3>1
  <2>4. /\ m < n => s[m] < s[n]
        /\ n < m => s[n] < s[m]
    BY <1>4 DEF Ascending
  <2>5. QED
    BY <2>3, <2>4, <1>2, <1>4, <1>5
<1>6. QED
  BY <1>4, <1>5 DEF Ascending

-----------------------------------------------------------------------------
\* The invariant holds initially.
LEMMA InitInv == Init => Inv
  BY SlotMapAssumption
     DEF Init, Inv, TypeOK, FreeSlotsExact, IssuedExact, Key, Slots, Occupied

\* add() on a free slot preserves the invariant.
LEMMA AddToFreeSlotInv ==
  ASSUME Inv, NEW v \in Value, AddToFreeSlot(v)
  PROVE  Inv'
<1> USE SlotMapAssumption DEF Inv
<1> DEFINE top  == Len(free_slots)
           slot == free_slots[top]
<1>1. /\ top \in Nat \ {0}
      /\ slot \in Slots /\ values[slot] = None
      /\ slot \in 1..MaxSlots
  <2>1. /\ free_slots \in Seq(1..MaxSlots)
        /\ free_slots # <<>>
    BY DEF AddToFreeSlot, TypeOK
  <2>2. top \in 1..Len(free_slots)
    BY <2>1
  <2>3. slot \in 1..MaxSlots
    BY <2>1, <2>2
  <2>4. slot \in Slots \ Occupied
    BY <2>2, <2>3 DEF FreeSlotsExact
  <2>5. QED
    BY <2>2, <2>3, <2>4 DEF Slots, Occupied
<1>2. /\ free_slots' = SubSeq(free_slots, 1, top - 1)
      /\ values' = [values EXCEPT ![slot] = v]
      /\ generations' = [generations EXCEPT ![slot] = @ + 1]
      /\ generations[slot] < MaxGeneration
      /\ issued' = issued \cup
           {[index |-> slot, generation |-> generations[slot] + 1]}
  BY DEF AddToFreeSlot
<1>3. slot \in 1..Len(generations) /\ generations[slot] \in Nat
  BY <1>1, SMTT(30) DEF TypeOK, Slots
<1>4. /\ Len(free_slots') = top - 1
      /\ \A n \in 1..(top - 1) : free_slots'[n] = free_slots[n]
      /\ free_slots' \in Seq(1..MaxSlots)
  <2>1. free_slots \in Seq(1..MaxSlots)
    BY DEF TypeOK
  <2>2. top - 1 \in 0..Len(free_slots)
    BY <1>1
  <2>3. \A n \in 1..(top - 1) : free_slots[n] \in 1..MaxSlots
    BY <2>1, <2>2
  <2>4. /\ free_slots' \in Seq(1..MaxSlots)
        /\ Len(free_slots') = IF 1 <= top - 1 THEN (top - 1) - 1 + 1 ELSE 0
        /\ \A n \in 1..((top - 1) - 1 + 1) : free_slots'[n] = free_slots[1 + n - 1]
    BY <1>1, <1>2, <2>3, SubSeqProperties
  <2>5. \A t \in Nat \ {0} :
          /\ (IF 1 <= t - 1 THEN (t - 1) - 1 + 1 ELSE 0) = t - 1
          /\ \A n \in 1..(t - 1) : n \in 1..((t - 1) - 1 + 1) /\ 1 + n - 1 = n
    OBVIOUS
  <2>6. Len(free_slots') = top - 1
    BY <1>1, <2>4, <2>5
  <2>7. \A n \in 1..(top - 1) : free_slots'[n] = free_slots[n]
    BY <1>1, <2>4, <2>5
  <2>8. QED
    BY <2>4, <2>6, <2>7
<1>5. /\ values' \in Seq(Value \cup {None})
      /\ Len(values') = Len(values)
      /\ \A i \in 1..Len(values) : values'[i] = IF i = slot THEN v ELSE values[i]
  BY <1>1, <1>2 DEF TypeOK, Slots
<1>6. /\ generations' \in Seq(0..MaxGeneration)
      /\ Len(generations') = Len(generations)
      /\ \A i \in 1..Len(generations) :
            generations'[i] = IF i = slot THEN generations[i] + 1 ELSE generations[i]
  <2>1. generations \in Seq(0..MaxGeneration)
    BY DEF TypeOK
  <2>2. generations[slot] + 1 \in 0..MaxGeneration
    BY <1>2, <1>3
  <2>3. QED
    BY <1>2, <1>3, <2>1, <2>2
<1>7. TypeOK'
  <2>1. [index |-> slot, generation |-> generations[slot] + 1] \in Key
    BY <1>1, <1>2, <1>3 DEF Key
  <2>2. issued' \in SUBSET Key
    BY <1>2, <2>1 DEF TypeOK
  <2>3. Len(values') <= Len(generations') /\ Len(generations') <= MaxSlots
    BY <1>5, <1>6 DEF TypeOK
  <2>4. QED
    BY <1>4, <1>5, <1>6, <2>2, <2>3 DEF TypeOK
<1>8. FreeSlotsExact'
  <2>1. \A m, n \in 1..(top - 1) : free_slots'[m] = free_slots'[n] => m = n
    BY <1>1, <1>4, SMTT(30) DEF FreeSlotsExact
  <2>2. ASSUME NEW i \in 1..MaxSlots
        PROVE  (i \in (Slots \ Occupied)')
                  <=> (\E n \in 1..(top - 1) : free_slots'[n] = i)
    <3>1. CASE i = slot
      <4>1. i \notin (Slots \ Occupied)'
        BY <3>1, <1>1, <1>5 DEF Slots, Occupied
      <4>2. \A n \in 1..(top - 1) : free_slots'[n] # i
        BY <3>1, <1>1, <1>4 DEF FreeSlotsExact
      <4>3. QED
        BY <4>1, <4>2
    <3>2. CASE i # slot
      <4>1. (i \in (Slots \ Occupied)') <=> (i \in Slots \ Occupied)
        BY <3>2, <1>5 DEF Slots, Occupied
      <4>2. (\E n \in 1..top : free_slots[n] = i)
               <=> (\E n \in 1..(top - 1) : free_slots'[n] = i)
        <5>1. \A n \in 1..top : n = top \/ n \in 1..(top - 1)
          BY <1>1
        <5>2. \A n \in 1..(top - 1) : n \in 1..top
          BY <1>1
        <5>3. QED
          BY <3>2, <1>4, <5>1, <5>2
      <4>3. QED
        BY <4>1, <4>2 DEF FreeSlotsExact
    <3>3. QED
      BY <3>1, <3>2
  <2>3. QED
    BY <2>1, <2>2, <1>4 DEF FreeSlotsExact
<1>9. IssuedExact'
  BY <1>1, <1>2, <1>3, <1>6, SMTT(30) DEF IssuedExact, Key, TypeOK
<1>10. QED
  BY <1>7, <1>8, <1>9

\* add() at the end preserves the invariant.
LEMMA AddAtEndInv ==
  ASSUME Inv, NEW v \in Value, AddAtEnd(v)
  PROVE  Inv'
<1> USE SlotMapAssumption DEF Inv
<1> DEFINE slot == Len(values) + 1
<1>1. /\ free_slots = <<>> /\ free_slots' = free_slots
      /\ slot \in 1..MaxSlots
      /\ values' = Append(values, v)
      /\ issued' = issued \cup
           {[index |-> slot, generation |-> generations'[slot]]}
  BY DEF AddAtEnd, TypeOK
<1>2. /\ values' \in Seq(Value \cup {None})
      /\ Len(values') = slot
      /\ values'[slot] = v
      /\ \A i \in 1..Len(values) : values'[i] = values[i]
  BY <1>1 DEF TypeOK
<1>3. /\ generations' \in Seq(0..MaxGeneration)
      /\ slot <= Len(generations') /\ Len(generations') <= MaxSlots
      /\ Len(generations) <= Len(generations')
      /\ Len(generations') \in {Len(generations), slot}
      /\ \A i \in 1..Len(generations') :
            i # slot => generations'[i] = generations[i]
      /\ IF slot <= Len(generations)
         THEN generations'[slot] = generations[slot] + 1
         ELSE generations'[slot] = 0
  <2>1. generations \in Seq(0..MaxGeneration) /\ Len(values) \in Nat
    BY DEF TypeOK
  <2>2. CASE Len(generations) <= Len(values)
    <3>1. Len(generations) = Len(values)
      BY <2>1, <2>2 DEF TypeOK
    <3>2. generations' = Append(generations, 0)
      BY <2>1, <2>2 DEF AddAtEnd
    <3>3. QED
      BY <3>1, <3>2, <2>1, <1>1
  <2>3. CASE Len(generations) > Len(values)
    <3>1. /\ generations' = [generations EXCEPT ![slot] = @ + 1]
          /\ generations[slot] < MaxGeneration
      BY <2>1, <2>3 DEF AddAtEnd
    <3>2. slot \in 1..Len(generations) /\ generations[slot] \in 0..MaxGeneration
      BY <2>1, <2>3
    <3>3. generations[slot] + 1 \in 0..MaxGeneration
      BY <3>1, <3>2
    <3>4. QED
      BY <3>1, <3>2, <3>3, <2>1 DEF TypeOK
  <2>4. QED
    BY <2>1, <2>2, <2>3
<1>4. generations'[slot] \in 0..MaxGeneration
  BY <1>1, <1>3
<1>5. TypeOK'
  <2>1. [index |-> slot, generation |-> generations'[slot]] \in Key
    BY <1>1, <1>4 DEF Key
  <2>2. issued' \in SUBSET Key
    BY <1>1, <2>1 DEF TypeOK
  <2>3. QED
    BY <1>1, <1>2, <1>3, <2>2 DEF TypeOK
<1>6. FreeSlotsExact'
  <2>1. Len(free_slots) = 0
    BY <1>1
  <2>2. Occupied = Slots
    BY <2>1 DEF FreeSlotsExact, Slots, Occupied, TypeOK
  <2>3. \A i \in 1..slot : values'[i] # None
    <3>1. \A i \in 1..Len(values) : values'[i] # None
      BY <2>2, <1>2 DEF Slots, Occupied
    <3>2. \A i \in 1..slot : i = slot \/ i \in 1..Len(values)
      BY DEF TypeOK
    <3>3. QED
      BY <3>1, <3>2, <1>2
  <2>4. QED
    BY <1>1, <1>2, <2>1, <2>3 DEF FreeSlotsExact, Slots, Occupied
<1>7. IssuedExact'
  <2>1. ASSUME NEW k \in Key
        PROVE  k \in issued' <=> /\ k.index <= Len(generations')
                                 /\ k.generation <= generations'[k.index]
    <3>1. k.index \in 1..MaxSlots /\ k.generation \in 0..MaxGeneration
      BY DEF Key
    <3>2. k \in issued' <=> \/ k \in issued
                            \/ k.index = slot /\ k.generation = generations'[slot]
      BY <1>1, <1>4 DEF Key
    <3>3. k \in issued <=> /\ k.index <= Len(generations)
                           /\ k.generation <= generations[k.index]
      BY DEF IssuedExact
    <3>4. CASE k.index # slot
      <4>1. /\ Len(generations) \in Nat /\ Len(generations') \in Nat
            /\ Len(values) \in Nat /\ Len(values) <= Len(generations)
        BY <1>3, SMTT(30) DEF TypeOK
      <4>2. k.index <= Len(generations') <=> k.index <= Len(generations)
        BY <4>1, <3>1, <3>4, <1>3
      <4>3. k.index <= Len(generations) => generations'[k.index] = generations[k.index]
        BY <4>1, <3>1, <3>4, <1>3, SMTT(30)
      <4>4. k \in issued' <=> k \in issued
        BY <3>2, <3>4
      <4>5. QED
        BY <4>2, <4>3, <4>4, <3>3
    <3>5. CASE k.index = slot
      BY <3>1, <3>2, <3>3, <3>5, <1>1, <1>3, <1>4, SMTT(30) DEF TypeOK
    <3>6. QED
      BY <3>4, <3>5
  <2>2. issued' \in SUBSET Key
    BY <1>5 DEF TypeOK
  <2>3. QED
    BY <2>1, <2>2 DEF IssuedExact
<1>8. QED
  BY <1>5, <1>6, <1>7

\* Emptying slots and pushing exactly those slots, each once, preserves the
\* invariant: the argument behind remove() and retain_if().
LEMMA VacateInv ==
  ASSUME Inv, UNCHANGED <<generations, issued>>,
         NEW S \in SUBSET Occupied, NEW freed \in Seq(S),
         \A m, n \in 1..Len(freed) : freed[m] = freed[n] => m = n,
         \A i \in S : \E n \in 1..Len(freed) : freed[n] = i,
         free_slots' = free_slots \o freed,
         values' \in Seq(Value \cup {None}),
         Len(values') = Len(values),
         \A i \in Slots : values'[i] = IF i \in S THEN None ELSE values[i]
  PROVE  Inv'
<1> USE SlotMapAssumption DEF Inv
<1> DEFINE a == Len(free_slots)
           b == Len(freed)
<1>0. /\ freed \in Seq(S)
      /\ \A m, n \in 1..b : freed[m] = freed[n] => m = n
      /\ \A i \in S : \E n \in 1..b : freed[n] = i
  OBVIOUS
<1>1. a \in Nat /\ b \in Nat /\ free_slots \in Seq(1..MaxSlots)
  BY DEF TypeOK
<1>2. S \subseteq Slots /\ S \subseteq 1..MaxSlots /\ S \subseteq Occupied
  BY DEF TypeOK, Slots, Occupied
<1>3. freed \in Seq(1..MaxSlots)
  <2>1. \A n \in 1..b : freed[n] \in S
    BY <1>0
  <2>2. \A n \in 1..b : freed[n] \in 1..MaxSlots
    BY <1>2, <2>1
  <2>3. freed = [n \in 1..b |-> freed[n]]
    BY <1>0
  <2> HIDE DEF b
  <2>4. [n \in 1..b |-> freed[n]] \in Seq(1..MaxSlots)
    BY <1>1, <2>2
  <2>5. QED
    BY <2>3, <2>4
<1>4. /\ free_slots' \in Seq(1..MaxSlots)
      /\ Len(free_slots') = a + b
      /\ \A n \in 1..a : free_slots'[n] = free_slots[n]
      /\ \A n \in (a + 1)..(a + b) : free_slots'[n] = freed[n - a]
  BY <1>1, <1>3
<1>5. TypeOK'
  BY <1>4 DEF TypeOK, Key
<1>6. (Slots \ Occupied)' = (Slots \ Occupied) \cup S
  BY <1>2 DEF Slots, Occupied
<1>7. \A n \in 1..a : free_slots[n] \in Slots \ Occupied
  BY <1>1 DEF FreeSlotsExact
<1>8. \A n \in 1..b : freed[n] \in S
  OBVIOUS
<1>9. \A n \in 1..(a + b) : \/ n \in 1..a
                            \/ n \in (a + 1)..(a + b) /\ n - a \in 1..b
  BY <1>1
<1>10. \A n \in 1..b : /\ a + n \in (a + 1)..(a + b)
                       /\ a + n \in 1..(a + b) /\ (a + n) - a = n
  BY <1>1
<1>11. \A m, n \in 1..(a + b) : free_slots'[m] = free_slots'[n] => m = n
  <2>1. TAKE m, n \in 1..(a + b)
  <2>2. HAVE free_slots'[m] = free_slots'[n]
  <2>3. CASE m \in 1..a /\ n \in 1..a
    <3>1. \A x, y \in 1..a : free_slots[x] = free_slots[y] => x = y
      BY DEF FreeSlotsExact
    <3>2. free_slots[m] = free_slots[n]
      BY <2>2, <2>3, <1>4
    <3> HIDE DEF a
    <3>3. QED
      BY <2>3, <3>1, <3>2
  <2>4. CASE m \in 1..a /\ n \notin 1..a
    <3>1. free_slots'[m] \notin Occupied
      BY <2>4, <1>4, <1>7
    <3>2. free_slots'[n] \in Occupied
      BY <2>4, <1>2, <1>4, <1>8, <1>9
    <3>3. QED
      BY <2>2, <3>1, <3>2
  <2>5. CASE m \notin 1..a /\ n \in 1..a
    <3>1. free_slots'[n] \notin Occupied
      BY <2>5, <1>4, <1>7
    <3>2. free_slots'[m] \in Occupied
      BY <2>5, <1>2, <1>4, <1>8, <1>9, SMTT(30)
    <3>3. QED
      BY <2>2, <3>1, <3>2
  <2>6. CASE m \notin 1..a /\ n \notin 1..a
    <3>1. /\ m - a \in 1..b /\ n - a \in 1..b
          /\ freed[m - a] = freed[n - a]
      BY <2>2, <2>6, <1>4, <1>9
    <3>2. m - a = n - a
      <4> HIDE DEF b
      <4>1. QED
        BY <3>1, <1>0
    <3>3. m \in Nat /\ n \in Nat
      BY <1>1
    <3>4. \A x, y, z \in Nat : x - z = y - z => x = y
      OBVIOUS
    <3>5. QED
      BY <3>2, <3>3, <3>4, <1>1
  <2>7. QED
    BY <2>3, <2>4, <2>5, <2>6
<1>12. \A i \in 1..MaxSlots :
          (i \in (Slots \ Occupied)')
             <=> (\E n \in 1..(a + b) : free_slots'[n] = i)
  <2>1. TAKE i \in 1..MaxSlots
  <2>2. (i \in Slots \ Occupied) <=> (\E n \in 1..a : free_slots[n] = i)
    BY DEF FreeSlotsExact
  <2>3. (i \in S) <=> (\E n \in 1..b : freed[n] = i)
    <3> HIDE DEF b
    <3>1. QED
      BY <1>0, <1>8
  <2>4. (\E n \in 1..(a + b) : free_slots'[n] = i)
           <=> \/ \E n \in 1..a : free_slots[n] = i
               \/ \E n \in 1..b : freed[n] = i
    <3>1. ASSUME NEW n \in 1..(a + b), free_slots'[n] = i
          PROVE  \/ \E k \in 1..a : free_slots[k] = i
                 \/ \E k \in 1..b : freed[k] = i
      BY <3>1, <1>4, <1>9
    <3>2. ASSUME NEW n \in 1..a, free_slots[n] = i
          PROVE  \E k \in 1..(a + b) : free_slots'[k] = i
      <4>1. n \in 1..(a + b) /\ free_slots'[n] = i
        BY <3>2, <1>1, <1>4
      <4>2. QED
        BY <4>1
    <3>3. ASSUME NEW n \in 1..b, freed[n] = i
          PROVE  \E k \in 1..(a + b) : free_slots'[k] = i
      <4>1. a + n \in 1..(a + b) /\ free_slots'[a + n] = i
        BY <3>3, <1>4, <1>10
      <4>2. QED
        BY <4>1
    <3>4. QED
      BY <3>1, <3>2, <3>3
  <2>5. QED
    BY <2>2, <2>3, <2>4, <1>6
<1>13. FreeSlotsExact'
  BY <1>4, <1>11, <1>12 DEF FreeSlotsExact
<1>14. IssuedExact'
  BY DEF IssuedExact
<1>15. QED
  BY <1>5, <1>13, <1>14

\* remove() preserves the invariant.
LEMMA RemoveInv ==
  ASSUME Inv, NEW key \in issued, Remove(key)
  PROVE  Inv'
<1> USE SlotMapAssumption DEF Inv
<1> DEFINE freed == <<key.index>>
<1>1. /\ key.index \in Occupied /\ key.index \in Slots
      /\ values' = [values EXCEPT ![key.index] = None]
      /\ free_slots' = Append(free_slots, key.index)
      /\ UNCHANGED <<generations, issued>>
  BY DEF Remove, Occupied
<1>2. /\ values' \in Seq(Value \cup {None})
      /\ Len(values') = Len(values)
      /\ \A i \in Slots : values'[i] = IF i \in {key.index} THEN None ELSE values[i]
  BY <1>1 DEF TypeOK, Slots
<1>3. /\ freed \in Seq({key.index}) /\ Len(freed) = 1
      /\ freed[1] = key.index
  OBVIOUS
<1>4. free_slots' = free_slots \o freed
  BY <1>1 DEF TypeOK
<1>5. {key.index} \in SUBSET Occupied
  BY <1>1
<1>6. /\ \A m, n \in 1..Len(freed) : freed[m] = freed[n] => m = n
      /\ \A i \in {key.index} : \E n \in 1..Len(freed) : freed[n] = i
  BY <1>3
<1> HIDE DEF freed
<1>7. QED
  BY <1>1, <1>2, <1>3, <1>4, <1>5, <1>6, VacateInv

\* retain_if() preserves the invariant.
LEMMA RetainIfInv ==
  ASSUME Inv, NEW dropped \in SUBSET Occupied, RetainIf(dropped)
  PROVE  Inv'
<1> USE SlotMapAssumption DEF Inv
<1>1. PICK freed \in Ascending(dropped) : free_slots' = free_slots \o freed
  BY DEF RetainIf
<1>2. dropped \subseteq 1..MaxSlots
  BY DEF Occupied, Slots, TypeOK
<1>3. /\ freed \in Seq(dropped)
      /\ \A m, n \in 1..Len(freed) : freed[m] = freed[n] => m = n
      /\ \A i \in dropped : \E n \in 1..Len(freed) : freed[n] = i
  BY <1>2, AscendingProperties
<1>4. /\ values' = [i \in 1..Len(values) |-> IF i \in dropped THEN None ELSE values[i]]
      /\ UNCHANGED <<generations, issued>>
  BY DEF RetainIf, Slots
<1>5. /\ values' \in Seq(Value \cup {None})
      /\ Len(values') = Len(values)
      /\ \A i \in Slots : values'[i] = IF i \in dropped THEN None ELSE values[i]
  BY <1>4 DEF TypeOK, Slots
<1>6. QED
  BY <1>1, <1>3, <1>4, <1>5, VacateInv

\* clear() preserves the invariant.
LEMMA ClearInv ==
  ASSUME Inv, Clear
  PROVE  Inv'
  BY SlotMapAssumption
     DEF Inv, Clear, TypeOK, FreeSlotsExact, IssuedExact, Key, Slots, Occupied

\* Every step of the slot map preserves the invariant.
LEMMA NextInv == Inv /\ [Next]_vars => Inv'
<1> SUFFICES ASSUME Inv, [Next]_vars
             PROVE  Inv'
  OBVIOUS
<1>1. ASSUME NEW v \in Value, AddToFreeSlot(v) PROVE Inv'
  BY <1>1, AddToFreeSlotInv
<1>2. ASSUME NEW v \in Value, AddAtEnd(v) PROVE Inv'
  BY <1>2, AddAtEndInv
<1>3. ASSUME NEW key \in issued, Remove(key) PROVE Inv'
  BY <1>3, RemoveInv
<1>4. ASSUME NEW dropped \in SUBSET Occupied, RetainIf(dropped) PROVE Inv'
  BY <1>4, RetainIfInv
<1>5. CASE Clear
  BY <1>5, ClearInv
<1>6. CASE UNCHANGED vars
  BY <1>6 DEF vars, Inv, TypeOK, FreeSlotsExact, IssuedExact, Slots, Occupied
<1>7. QED
  BY <1>1, <1>2, <1>3, <1>4, <1>5, <1>6 DEF Next

-----------------------------------------------------------------------------
\* The invariant holds throughout: the types, the exactness of the stack of
\* free slots (no slot is lost or handed out twice, however late and however
\* often remove() is called with old keys), and that the keys made so far
\* are those up to each slot's current generation.
THEOREM SlotMapInvariant == Spec => []Inv
<1>1. Init => Inv
  BY InitInv
<1>2. Inv /\ [Next]_vars => Inv'
  BY NextInv
<1>3. QED
  BY <1>1, <1>2, PTL DEF Spec

\* The vectors of a slot map keep their types and bounds.
THEOREM TypeCorrect == Spec => []TypeOK
<1>1. Inv => TypeOK
  BY DEF Inv
<1>2. QED
  BY <1>1, SlotMapInvariant, PTL

\* The stack of free slots holds the vacant slots, each once.
THEOREM FreeSlotsAreExact == Spec => []FreeSlotsExact
<1>1. Inv => FreeSlotsExact
  BY DEF Inv
<1>2. QED
  BY <1>1, SlotMapInvariant, PTL

\* The keys made so far are those up to each slot's current generation.
THEOREM IssuedIsExact == Spec => []IssuedExact
<1>1. Inv => IssuedExact
  BY DEF Inv
<1>2. QED
  BY <1>1, SlotMapInvariant, PTL

\* The stack enumerates the vacant slots, so it is as long as they are many,
\* and the difference of the lengths is the number of values.
LEMMA LengthFromFreeSlots == Inv => LengthCountsValues
<1> SUFFICES ASSUME Inv
             PROVE  LengthCountsValues
  OBVIOUS
<1> DEFINE Vacant == Slots \ Occupied
<1>1. /\ values \in Seq(Value \cup {None})
      /\ free_slots \in Seq(1..MaxSlots)
      /\ Len(values) \in Nat /\ Len(free_slots) \in Nat
      /\ Slots \subseteq 1..MaxSlots
  BY SlotMapAssumption DEF Inv, TypeOK, Slots
<1> HIDE DEF Vacant
<1>0. ASSUME NEW n \in Nat
      PROVE  IsFiniteSet(1..n) /\ Cardinality(1..n) = n
  <2>1. /\ IsFiniteSet(1..n)
        /\ Cardinality(1..n) = IF 1 > n THEN 0 ELSE n - 1 + 1
    BY FS_Interval
  <2>2. (IF 1 > n THEN 0 ELSE n - 1 + 1) = n
    OBVIOUS
  <2>3. QED
    BY <2>1, <2>2
<1>2. IsFiniteSet(Slots) /\ Cardinality(Slots) = Len(values)
  BY <1>0, <1>1 DEF Slots
<1>3. /\ IsFiniteSet(1..Len(free_slots))
      /\ Cardinality(1..Len(free_slots)) = Len(free_slots)
  BY <1>0, <1>1
<1>4. free_slots \in Bijection(1..Len(free_slots), Vacant)
  <2>1. ASSUME NEW n \in 1..Len(free_slots)
        PROVE  free_slots[n] \in Vacant
    <3>1. free_slots[n] \in 1..MaxSlots
      BY <1>1, ElementOfSeq
    <3>2. QED
      BY <3>1 DEF Inv, FreeSlotsExact, Vacant
  <2>2. free_slots \in [1..Len(free_slots) -> Vacant]
    BY <1>1, <2>1
  <2>3. \A i \in Vacant : \E n \in 1..Len(free_slots) : free_slots[n] = i
    <3>1. Vacant \subseteq 1..MaxSlots
      BY <1>1 DEF Vacant
    <3>2. QED
      BY <3>1 DEF Inv, FreeSlotsExact, Vacant
  <2>4. IsInjective(free_slots)
    BY <2>2 DEF Inv, FreeSlotsExact, IsInjective
  <2>5. QED
    BY <2>2, <2>3, <2>4 DEF Bijection, Injection, Surjection
<1>5. Cardinality(Vacant) = Len(free_slots)
  <2>1. ExistsBijection(1..Len(free_slots), Vacant)
    BY <1>4 DEF ExistsBijection
  <2>2. QED
    BY <1>3, <2>1, FS_Bijection
<1>6. Cardinality(Vacant) = Cardinality(Slots) - Cardinality(Occupied)
  <2>1. Slots \cap Occupied = Occupied
    BY DEF Occupied
  <2>2. Cardinality(Slots \ Occupied) = Cardinality(Slots) - Cardinality(Slots \cap Occupied)
    BY <1>2, FS_Difference
  <2>3. QED
    BY <2>1, <2>2 DEF Vacant
<1>7. Cardinality(Occupied) \in Nat
  <2>1. Occupied \in SUBSET Slots
    BY DEF Occupied
  <2>2. IsFiniteSet(Occupied)
    BY <1>2, <2>1, FS_Subset
  <2>3. QED
    BY <2>2, FS_CardinalityType
<1>8. QED
  BY <1>1, <1>2, <1>5, <1>6, <1>7 DEF LengthCountsValues, Length

\* len() counts the values held, so the resender's test of its capacity is a
\* test of how many packets it holds.
THEOREM LengthIsExact == Spec => []LengthCountsValues
  BY LengthFromFreeSlots, SlotMapInvariant, PTL

-----------------------------------------------------------------------------
\* What get() returns for a key in range.
LEMMA GetValue ==
  ASSUME Inv, NEW key \in issued
  PROVE  /\ key \in Key
         /\ key.index \in 1..Len(generations)
         /\ Get(key) = IF /\ key.index \in Slots
                         /\ generations[key.index] = key.generation
                      THEN values[key.index] ELSE None
  BY SlotMapAssumption DEF Inv, IssuedExact, Key, Get, TypeOK

\* add() in general: a fresh key finds the value it was made with, and every
\* older key finds what it found before.
LEMMA AddIsInsert ==
  ASSUME Inv, NEW v \in Value, NEW k \in Key, k \notin issued,
         issued' = issued \cup {k}, Get(k)' = v,
         \A key \in issued : Get(key)' = Get(key)
  PROVE  Abs!Insert(k, v)
<1>1. v # None
  BY SlotMapAssumption
<1>2. Live' = Live \cup {k}
  BY <1>1 DEF Live
<1>3. [key \in Live' |-> Get(key)'] =
         [x \in Live \cup {k} |->
            IF x = k THEN v ELSE [key \in Live |-> Get(key)][x]]
  BY <1>2 DEF Live
<1>4. QED
  BY <1>3 DEF Abs!Insert

\* remove(), retain_if() and clear() in general: keys die, none changes.
LEMMA RemovalIsForget ==
  ASSUME issued' = issued,
         \A key \in issued : Get(key)' \in {Get(key), None}
  PROVE  \E K \in SUBSET Live : Abs!Forget(K)
<1> DEFINE K == Live \ Live'
<1>1. Live' = Live \ K
  BY DEF Live
<1>2. [key \in Live' |-> Get(key)'] =
         [x \in Live \ K |-> [key \in Live |-> Get(key)][x]]
  BY <1>1 DEF Live
<1>3. QED
  BY <1>1, <1>2 DEF Abs!Forget

\* A step of the slot map that adds a value at slot with generation g.
LEMMA AddInserts ==
  ASSUME Inv, NEW v \in Value, NEW slot \in 1..MaxSlots, NEW g \in 0..MaxGeneration,
         slot \notin Occupied,
         slot \in 1..Len(values'), values'[slot] = v, generations'[slot] = g,
         slot <= Len(generations) => generations[slot] < g,
         issued' = issued \cup {[index |-> slot, generation |-> g]},
         Len(values) <= Len(values'),
         \A i \in 1..Len(values') : i # slot => i \in Slots,
         \A i \in Slots : i # slot => /\ values'[i] = values[i]
                                      /\ generations'[i] = generations[i]
  PROVE  \E k \in Key : Abs!Insert(k, v)
<1> DEFINE k == [index |-> slot, generation |-> g]
<1>1. k \in Key /\ k \notin issued
  <2>1. k \in Key
    BY DEF Key
  <2>2. ASSUME k \in issued
        PROVE  FALSE
    <3>1. slot \in 1..Len(generations) /\ g <= generations[slot]
      BY <2>2, GetValue DEF Inv, IssuedExact
    <3>2. generations[slot] \in Nat
      BY <3>1, SlotMapAssumption DEF Inv, TypeOK
    <3>3. g \in Nat /\ generations[slot] < g
      BY <3>1, SlotMapAssumption
    <3>4. QED
      BY <3>1, <3>2, <3>3
  <2>3. QED
    BY <2>1, <2>2
<1>2. Get(k)' = v
  BY DEF Get, Slots
<1>3. ASSUME NEW key \in issued
      PROVE  Get(key)' = Get(key)
  <2>1. /\ key.index \in 1..Len(generations)
        /\ Get(key) = IF /\ key.index \in Slots
                         /\ generations[key.index] = key.generation
                      THEN values[key.index] ELSE None
    BY GetValue
  <2>2. Get(key)' = IF /\ key.index \in 1..Len(values')
                       /\ generations'[key.index] = key.generation
                    THEN values'[key.index] ELSE None
    BY DEF Get, Slots
  <2>3. CASE key.index # slot
    <3>1. key.index \in 1..Len(values') <=> key.index \in Slots
      BY <2>3, SlotMapAssumption DEF Slots, Inv, TypeOK
    <3>2. QED
      BY <2>1, <2>2, <2>3, <3>1
  <2>4. CASE key.index = slot
    <3>1. Get(key) = None
      BY <2>1, <2>4 DEF Occupied
    <3>2. key.generation <= generations[slot] /\ generations[slot] < g
      BY <2>1, <2>4 DEF Inv, IssuedExact
    <3>3. key.generation # g
      <4>1. generations[slot] \in Nat
        BY <2>1, <2>4, SlotMapAssumption DEF Inv, TypeOK
      <4>2. key.generation \in Nat /\ g \in Nat
        BY GetValue, SlotMapAssumption DEF Key
      <4>3. QED
        BY <3>2, <4>1, <4>2
    <3>4. QED
      BY <2>2, <2>4, <3>1, <3>3
  <2>5. QED
    BY <2>3, <2>4
<1>4. Abs!Insert(k, v)
  BY <1>1, <1>2, <1>3, AddIsInsert
<1>5. QED
  BY <1>1, <1>4

\* add() on a free slot is an insertion.
LEMMA AddToFreeSlotInserts ==
  ASSUME Inv, NEW v \in Value, AddToFreeSlot(v)
  PROVE  \E k \in Key : Abs!Insert(k, v)
<1> USE SlotMapAssumption
<1> DEFINE slot == free_slots[Len(free_slots)]
           g    == generations[slot] + 1
<1>1. Len(free_slots) \in 1..Len(free_slots)
  BY DEF Inv, TypeOK, AddToFreeSlot
<1>2. slot \in 1..MaxSlots
  BY <1>1 DEF Inv, TypeOK
<1>3. slot \in Slots \ Occupied
  BY <1>1, <1>2 DEF Inv, FreeSlotsExact
<1>4. slot \in 1..Len(values) /\ slot \in 1..Len(generations)
  BY <1>3 DEF Slots, Inv, TypeOK
<1>5. /\ generations[slot] < MaxGeneration
      /\ generations' = [generations EXCEPT ![slot] = g]
      /\ values' = [values EXCEPT ![slot] = v]
      /\ issued' = issued \cup {[index |-> slot, generation |-> g]}
  BY DEF AddToFreeSlot
<1>6. generations[slot] \in Nat
  BY <1>4, SMTT(30) DEF Inv, TypeOK
<1>7. g \in 0..MaxGeneration /\ generations[slot] < g
  BY <1>5, <1>6
<1>8. /\ Len(values') = Len(values)
      /\ values'[slot] = v
      /\ \A i \in Slots : i # slot => values'[i] = values[i]
  <2> HIDE DEF slot
  <2>1. values \in Seq(Value \cup {None})
    BY DEF Inv, TypeOK
  <2>2. QED
    BY <1>4, <1>5, <2>1 DEF Slots
<1>9. /\ generations'[slot] = g
      /\ \A i \in Slots : i # slot => generations'[i] = generations[i]
  <2>1. Slots \subseteq 1..Len(generations)
    BY DEF Inv, TypeOK, Slots
  <2>2. generations \in Seq(0..MaxGeneration)
    BY DEF Inv, TypeOK
  <2>3. QED
    BY <1>4, <1>5, <2>1, <2>2
<1> HIDE DEF slot, g
<1>10. /\ Len(values) <= Len(values')
       /\ \A i \in 1..Len(values') : i # slot => i \in Slots
       /\ slot \in 1..Len(values')
       /\ slot \notin Occupied
  BY <1>3, <1>4, <1>8 DEF Slots, Inv, TypeOK
<1>11. QED
  BY <1>2, <1>5, <1>7, <1>8, <1>9, <1>10, AddInserts

\* add() at the end is an insertion.
LEMMA AddAtEndInserts ==
  ASSUME Inv, NEW v \in Value, AddAtEnd(v)
  PROVE  \E k \in Key : Abs!Insert(k, v)
<1> USE SlotMapAssumption
<1> DEFINE slot == Len(values) + 1
           g    == generations'[slot]
<1>1. /\ slot \in 1..MaxSlots
      /\ values' = Append(values, v)
      /\ issued' = issued \cup {[index |-> slot, generation |-> g]}
  BY DEF AddAtEnd, Inv, TypeOK
<1>2. Inv'
  BY AddAtEndInv
<1>3. /\ Len(values') = slot
      /\ values'[slot] = v
      /\ \A i \in Slots : values'[i] = values[i]
      /\ slot \notin Slots
  BY <1>1 DEF Inv, TypeOK, Slots
<1>4. slot \in 1..Len(generations')
  BY <1>1, <1>2, <1>3 DEF Inv, TypeOK
<1>5. g \in 0..MaxGeneration
  BY <1>2, <1>4 DEF Inv, TypeOK
<1>6. /\ slot <= Len(generations) => generations[slot] < g
      /\ \A i \in Slots : i # slot => generations'[i] = generations[i]
  <2>1. generations \in Seq(0..MaxGeneration) /\ Len(values) \in Nat
        /\ Slots \subseteq 1..Len(generations)
    BY DEF Inv, TypeOK, Slots
  <2>2. CASE Len(generations) <= Len(values)
    <3>1. generations' = Append(generations, 0)
      BY <2>1, <2>2 DEF AddAtEnd
    <3>2. QED
      BY <3>1, <2>1, <2>2
  <2>3. CASE Len(generations) > Len(values)
    <3>1. generations' = [generations EXCEPT ![slot] = @ + 1]
      BY <2>1, <2>3 DEF AddAtEnd
    <3>2. slot \in 1..Len(generations)
      BY <2>1, <2>3
    <3>3. generations[slot] \in Nat
      BY <2>1, <3>2
    <3>4. QED
      BY <3>1, <3>2, <3>3, <2>1
  <2>4. QED
    BY <2>1, <2>2, <2>3
<1>7. /\ Len(values) <= Len(values')
      /\ slot \in 1..Len(values')
      /\ slot \notin Occupied
      /\ \A i \in 1..Len(values') : i # slot => i \in Slots
  BY <1>3 DEF Slots, Occupied, Inv, TypeOK
<1> HIDE DEF slot, g
<1>8. generations'[slot] = g
  BY DEF g
<1>9. QED
  BY <1>1, <1>3, <1>5, <1>6, <1>7, <1>8, AddInserts

\* remove() only makes keys die.
LEMMA RemoveForgets ==
  ASSUME Inv, NEW key \in issued, Remove(key)
  PROVE  \E K \in SUBSET Live : Abs!Forget(K)
<1>1. /\ key.index \in 1..Len(values)
      /\ values' = [values EXCEPT ![key.index] = None]
      /\ UNCHANGED <<generations, issued>>
  BY DEF Remove, Occupied, Slots
<1>2. /\ Len(values') = Len(values)
      /\ \A i \in 1..Len(values) : values'[i] \in {values[i], None}
  BY <1>1 DEF Inv, TypeOK
<1>3. \A k \in issued : Get(k)' \in {Get(k), None}
  BY <1>1, <1>2 DEF Get, Slots
<1>4. QED
  BY <1>1, <1>3, RemovalIsForget

\* retain_if() only makes keys die.
LEMMA RetainIfForgets ==
  ASSUME Inv, NEW dropped \in SUBSET Occupied, RetainIf(dropped)
  PROVE  \E K \in SUBSET Live : Abs!Forget(K)
<1>1. /\ values' = [i \in 1..Len(values) |-> IF i \in dropped THEN None ELSE values[i]]
      /\ UNCHANGED <<generations, issued>>
  BY DEF RetainIf, Slots
<1>2. /\ Len(values') = Len(values)
      /\ \A i \in 1..Len(values) : values'[i] \in {values[i], None}
  BY <1>1 DEF Inv, TypeOK
<1>3. \A k \in issued : Get(k)' \in {Get(k), None}
  BY <1>1, <1>2 DEF Get, Slots
<1>4. QED
  BY <1>1, <1>3, RemovalIsForget

\* clear() makes every key die.
LEMMA ClearForgets ==
  ASSUME Clear
  PROVE  \E K \in SUBSET Live : Abs!Forget(K)
<1>1. \A k \in issued : Get(k)' \in {Get(k), None}
  BY DEF Clear, Get, Slots
<1>2. QED
  BY <1>1, RemovalIsForget DEF Clear

\* The slot map implements the key store: a key that was handed out finds
\* the value it was made for or nothing, and no key is handed out twice,
\* through removal, reuse of slots, retain_if() and clear().
THEOREM SlotMapImplementsKeyStore == Spec => ImplementsKeyStore
<1>1. Init => Abs!Init
  BY DEF Init, Abs!Init, Live
<1>2. Inv /\ [Next]_vars => [Abs!Next]_(Abs!vars)
  <2> SUFFICES ASSUME Inv, [Next]_vars
               PROVE  [Abs!Next]_(Abs!vars)
    OBVIOUS
  <2>1. ASSUME NEW v \in Value, AddToFreeSlot(v) \/ AddAtEnd(v)
        PROVE  Abs!Next
    BY <2>1, AddToFreeSlotInserts, AddAtEndInserts DEF Abs!Next
  <2>2. DOMAIN [key \in Live |-> Get(key)] = Live
    OBVIOUS
  <2>3. ASSUME NEW key \in issued, Remove(key)
        PROVE  Abs!Next
    BY <2>2, <2>3, RemoveForgets DEF Abs!Next
  <2>4. ASSUME NEW dropped \in SUBSET Occupied, RetainIf(dropped)
        PROVE  Abs!Next
    BY <2>2, <2>4, RetainIfForgets DEF Abs!Next
  <2>5. CASE Clear
    BY <2>2, <2>5, ClearForgets DEF Abs!Next
  <2>6. CASE UNCHANGED vars
    BY <2>6 DEF vars, Abs!vars, Live, Get, Slots
  <2>7. QED
    BY <2>1, <2>3, <2>4, <2>5, <2>6 DEF Next
<1>3. QED
  BY <1>1, <1>2, SlotMapInvariant, PTL DEF Spec, Abs!Spec, ImplementsKeyStore
=============================================================================
