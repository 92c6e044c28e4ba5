------------------------ MODULE PacketResenderProofs ------------------------
(***************************************************************************)
(* Proofs about PacketResender, for any capacity, intervals, attempts and  *)
(* times between updates: it uses the slot map as the slot map's           *)
(* specification allows, keeps to its capacity, and gives a packet up only *)
(* after its channel's attempts.                                           *)
(***************************************************************************)
EXTENDS PacketResender, SlotMapProofs

\* Each of the resender's steps is one of the slot map's.
LEMMA StepIsSlotMapStep ==
  ASSUME Inv, [ResenderNext]_resenderVars
  PROVE  [Next]_vars
<1>1. ASSUME NEW v \in Value, Add(v) PROVE Next
  BY <1>1 DEF Add, Next
<1>2. ASSUME NEW key \in issued, Acknowledge(key) PROVE Next
  BY <1>2 DEF Acknowledge, Next
<1>3. ASSUME NEW delta \in Delta, Update(delta) PROVE Next
  <2>1. Dropped(delta) \in SUBSET Occupied
    BY DEF Dropped
  <2> QED
    BY <1>3, <2>1 DEF Update, Next
<1>4. CASE ClearAll
  BY <1>4 DEF ClearAll, Next
<1>5. CASE UNCHANGED resenderVars
  BY <1>5 DEF resenderVars, vars
<1> QED
  BY <1>1, <1>2, <1>3, <1>4, <1>5 DEF ResenderNext

\* What is proved of a slot map holds of the one in a resender: the resender
\* touches it only through its operations.
THEOREM ResenderUsesSlotMap == ResenderSpec => Spec
<1>1. ResenderInit => Init
  BY DEF ResenderInit
<1>2. ResenderInit => Inv
  BY <1>1, InitInv
<1>3. Inv /\ [ResenderNext]_resenderVars => [Next]_vars
  BY StepIsSlotMapStep
<1>4. Inv /\ [ResenderNext]_resenderVars => Inv'
  BY <1>3, NextInv
<1> QED
  BY <1>1, <1>2, <1>3, <1>4, PTL DEF ResenderSpec, Spec

\* The resender hands out every key once, and a key finds its own packet or
\* none.
THEOREM ResenderImplementsKeyStore == ResenderSpec => ImplementsKeyStore
  BY ResenderUsesSlotMap, SlotMapImplementsKeyStore, PTL

-----------------------------------------------------------------------------
\* What add() does to the slots: one that was vacant, or is new, holds v.
LEMMA AddFillsOne ==
  ASSUME Inv, NEW v \in Value, AddToFreeSlot(v) \/ AddAtEnd(v)
  PROVE  \E slot \in 1..MaxSlots :
            /\ slot \notin Occupied
            /\ slot \in 1..Len(values') /\ values'[slot] = v
            /\ \A i \in 1..Len(values') : i # slot => i \in Slots /\ values'[i] = values[i]
            /\ \A i \in Occupied : i \in 1..Len(values')
<1> USE SlotMapAssumption
<1>0. values \in Seq(Value \cup {None}) /\ free_slots \in Seq(1..MaxSlots)
  BY DEF Inv, TypeOK
<1>1. CASE AddToFreeSlot(v)
  <2> DEFINE top == Len(free_slots)
             slot == free_slots[top]
  <2>1. top \in 1..Len(free_slots)
    BY <1>0, <1>1 DEF AddToFreeSlot
  <2>2. slot \in 1..MaxSlots
    BY <1>0, <2>1
  <2>3. slot \in Slots \ Occupied
    BY <2>1, <2>2 DEF Inv, FreeSlotsExact
  <2>4. values' = [values EXCEPT ![slot] = v]
    BY <1>1 DEF AddToFreeSlot
  <2>5. Len(values') = Len(values) /\ values'[slot] = v
        /\ \A i \in Slots : i # slot => values'[i] = values[i]
    BY <1>0, <2>3, <2>4 DEF Slots
  <2> HIDE DEF slot
  <2> QED
    BY <2>2, <2>3, <2>5 DEF Slots, Occupied
<1>2. CASE AddAtEnd(v)
  <2> DEFINE slot == Len(values) + 1
  <2>1. slot \in 1..MaxSlots /\ values' = Append(values, v)
    BY <1>0, <1>2 DEF AddAtEnd
  <2>2. /\ Len(values') = slot /\ values'[slot] = v
        /\ \A i \in Slots : values'[i] = values[i]
    BY <1>0, <2>1 DEF Slots
  <2>3. slot \notin Slots /\ \A i \in 1..slot : i # slot => i \in Slots
    BY <1>0 DEF Slots
  <2>4. \A i \in Slots : i \in 1..slot
    BY <1>0 DEF Slots
  <2> HIDE DEF slot
  <2> QED
    BY <2>1, <2>2, <2>3, <2>4, <1>0 DEF Occupied
<1> QED
  BY <1>1, <1>2

\* remove(), retain_if() and clear() leave what they do not vacate.
LEMMA RemovalKeepsOthers ==
  ASSUME Inv,
         \/ \E key \in issued : Remove(key)
         \/ \E dropped \in SUBSET Occupied : RetainIf(dropped)
         \/ Clear
  PROVE  /\ Occupied' \subseteq Occupied
         /\ \A i \in Occupied' : values'[i] = values[i]
<1>0. values \in Seq(Value \cup {None})
  BY DEF Inv, TypeOK
<1>1. ASSUME NEW key \in issued, Remove(key)
      PROVE  /\ Occupied' \subseteq Occupied
             /\ \A i \in Occupied' : values'[i] = values[i]
  BY <1>0, <1>1 DEF Remove, Occupied, Slots
<1>2. ASSUME NEW dropped \in SUBSET Occupied, RetainIf(dropped)
      PROVE  /\ Occupied' \subseteq Occupied
             /\ \A i \in Occupied' : values'[i] = values[i]
  <2>1. values' = [i \in 1..Len(values) |-> IF i \in dropped THEN None ELSE values[i]]
    BY <1>2 DEF RetainIf, Slots
  <2>2. Len(values') = Len(values)
    BY <1>0, <2>1
  <2> QED
    BY <1>0, <2>1, <2>2 DEF Occupied, Slots
<1>3. CASE Clear
  BY <1>3 DEF Clear, Occupied, Slots
<1> QED
  BY <1>1, <1>2, <1>3

-----------------------------------------------------------------------------
LEMMA OccupiedFinite ==
  ASSUME Inv
  PROVE  IsFiniteSet(Occupied) /\ Cardinality(Occupied) \in Nat
<1>1. Occupied \subseteq 1..MaxSlots
  BY SlotMapAssumption DEF Inv, TypeOK, Occupied, Slots
<1>2. IsFiniteSet(1..MaxSlots)
  BY SlotMapAssumption, FS_Interval
<1> QED
  BY <1>1, <1>2, FS_Subset, FS_CardinalityType

\* add() tests for the exact capacity, which is enough because len() counts
\* and no step adds more than one packet.
LEMMA CapacityStep ==
  ASSUME Inv, CapacityKept, [ResenderNext]_resenderVars
  PROVE  CapacityKept'
<1>1. Cardinality(Occupied) \in Nat /\ IsFiniteSet(Occupied)
  BY OccupiedFinite
<1>2. ASSUME NEW v \in Value, Add(v) PROVE CapacityKept'
  <2>1. Length = Cardinality(Occupied)
    BY LengthFromFreeSlots DEF LengthCountsValues
  <2>2. Cardinality(Occupied) + 1 <= ResendCapacity
    BY <1>1, <1>2, <2>1, ResenderAssumption DEF Add, CapacityKept
  <2>3. PICK slot \in 1..MaxSlots :
            /\ slot \notin Occupied
            /\ slot \in 1..Len(values') /\ values'[slot] = v
            /\ \A i \in 1..Len(values') : i # slot => i \in Slots /\ values'[i] = values[i]
            /\ \A i \in Occupied : i \in 1..Len(values')
    BY <1>2, AddFillsOne DEF Add
  <2>4. Occupied' \subseteq Occupied \cup {slot}
    BY <2>3 DEF Occupied, Slots
  <2>5. /\ IsFiniteSet(Occupied \cup {slot})
        /\ Cardinality(Occupied \cup {slot}) = Cardinality(Occupied) + 1
    BY <1>1, <2>3, FS_AddElement
  <2>6. Cardinality(Occupied') <= Cardinality(Occupied) + 1 /\ Cardinality(Occupied') \in Nat
    BY <2>4, <2>5, FS_Subset, FS_CardinalityType
  <2> QED
    BY <1>1, <2>2, <2>6, ResenderAssumption DEF CapacityKept
<1>3. ASSUME Occupied' \subseteq Occupied PROVE CapacityKept'
  <2>1. Cardinality(Occupied') <= Cardinality(Occupied) /\ Cardinality(Occupied') \in Nat
    BY <1>1, <1>3, FS_Subset, FS_CardinalityType
  <2> QED
    BY <1>1, <2>1, ResenderAssumption DEF CapacityKept
<1>4. CASE \E key \in issued : Acknowledge(key)
  BY <1>3, <1>4, RemovalKeepsOthers DEF Acknowledge
<1>5. ASSUME NEW delta \in Delta, Update(delta) PROVE CapacityKept'
  <2>1. Dropped(delta) \in SUBSET Occupied
    BY DEF Dropped
  <2> QED
    BY <1>3, <1>5, <2>1, RemovalKeepsOthers DEF Update
<1>6. CASE ClearAll
  BY <1>3, <1>6, RemovalKeepsOthers DEF ClearAll
<1>7. CASE UNCHANGED resenderVars
  BY <1>7 DEF resenderVars, CapacityKept, Occupied, Slots
<1> QED
  BY <1>2, <1>4, <1>5, <1>6, <1>7 DEF ResenderNext

LEMMA ResenderKeepsInv == ResenderSpec => []Inv
  BY ResenderUsesSlotMap, SlotMapInvariant, PTL

\* The resender never holds more packets than the capacities of its channels
\* allow together, although add() only tests for that very number.
THEOREM CapacityIsKept == ResenderSpec => []CapacityKept
<1>1. ResenderInit => CapacityKept
  <2>1. ASSUME Init PROVE Occupied = {}
    BY <2>1 DEF Init, Occupied, Slots
  <2> QED
    BY <2>1, FS_EmptySet, ResenderAssumption DEF ResenderInit, CapacityKept
<1>2. Inv /\ CapacityKept /\ [ResenderNext]_resenderVars => CapacityKept'
  BY CapacityStep
<1> QED
  BY <1>1, <1>2, ResenderKeepsInv, PTL DEF ResenderSpec

-----------------------------------------------------------------------------
\* The copies sent and those left of a packet that is held are together what
\* its channel asks for.
AttemptsBalance ==
    \A i \in Occupied :
        /\ timers[i] \in [time : Nat, attempts : Nat] /\ sends[i] \in Nat
        /\ sends[i] + timers[i].attempts = 1 + ResendAttempts[values[i]]

\* The invariant behind GivenUpAfterAttempts.
AttemptsInv == AttemptsBalance /\ GivenUpAfterAttempts

LEMMA OccupiedHoldsValue ==
  ASSUME Inv, NEW i \in Occupied
  PROVE  values[i] \in Value /\ i \in Slots
  BY DEF Inv, TypeOK, Occupied, Slots

\* A new packet starts with one copy sent and all attempts left.
LEMMA AddAttempts ==
  ASSUME Inv, AttemptsInv, NEW v \in Value, Add(v)
  PROVE  AttemptsInv'
<1>1. PICK slot \in 1..MaxSlots :
          /\ slot \notin Occupied
          /\ slot \in 1..Len(values') /\ values'[slot] = v
          /\ \A i \in 1..Len(values') : i # slot => i \in Slots /\ values'[i] = values[i]
          /\ \A i \in Occupied : i \in 1..Len(values')
  BY AddFillsOne DEF Add
<1>2. v # None /\ ResendAttempts[v] \in Nat
  BY SlotMapAssumption, ResenderAssumption
<1>3. Inv'
  BY AddToFreeSlotInv, AddAtEndInv DEF Add
<1>4. DOMAIN values' = 1..Len(values')
  BY <1>3 DEF Inv, TypeOK
<1>5. ASSUME NEW i \in Occupied'
      PROVE  /\ timers'[i] \in [time : Nat, attempts : Nat] /\ sends'[i] \in Nat
             /\ sends'[i] + timers'[i].attempts = 1 + ResendAttempts[values'[i]]
  <2>1. i \in 1..Len(values') /\ values'[i] # None
    BY DEF Occupied, Slots
  <2>2. /\ timers'[i] = IF i \in Occupied THEN timers[i] ELSE NewTimer(v)
        /\ sends'[i] = IF i \in Occupied THEN sends[i] ELSE 1
    BY <1>4, <2>1 DEF Add
  <2>3. CASE i = slot
    BY <1>1, <1>2, <2>2, <2>3 DEF NewTimer
  <2>4. CASE i # slot
    <3>1. i \in Occupied /\ values'[i] = values[i]
      BY <1>1, <2>1, <2>4 DEF Occupied
    <3> QED
      BY <2>2, <3>1 DEF AttemptsInv, AttemptsBalance
  <2> QED
    BY <2>3, <2>4
<1>6. GivenUpAfterAttempts'
  BY DEF Add, AttemptsInv, GivenUpAfterAttempts
<1> QED
  BY <1>5, <1>6 DEF AttemptsInv, AttemptsBalance

\* An acknowledgement takes one packet away and leaves the others' timers.
LEMMA AcknowledgeAttempts ==
  ASSUME Inv, AttemptsInv, NEW key \in issued, Acknowledge(key)
  PROVE  AttemptsInv'
<1>1. /\ Occupied' \subseteq Occupied
      /\ \A i \in Occupied' : values'[i] = values[i]
  BY RemovalKeepsOthers DEF Acknowledge
<1>2. key.index \notin Occupied'
  BY DEF Acknowledge, Remove, Occupied, Slots, Inv, TypeOK
<1>3. \A i \in Occupied' : timers'[i] = timers[i] /\ sends'[i] = sends[i]
  BY <1>2 DEF Acknowledge
<1> QED
  BY <1>1, <1>3 DEF AttemptsInv, AttemptsBalance, GivenUpAfterAttempts, Acknowledge

\* An update turns an attempt into a copy sent, and gives up a packet with
\* none left after that.
LEMMA UpdateAttempts ==
  ASSUME Inv, AttemptsInv, NEW delta \in Delta, Update(delta)
  PROVE  AttemptsInv'
<1>1. Dropped(delta) \in SUBSET Occupied
  BY DEF Dropped
<1>2. /\ Occupied' \subseteq Occupied
      /\ \A i \in Occupied' : values'[i] = values[i]
  BY <1>1, RemovalKeepsOthers DEF Update
<1>3. values' = [i \in 1..Len(values) |-> IF i \in Dropped(delta) THEN None ELSE values[i]]
  BY DEF Update, RetainIf, Slots
<1>4. ASSUME NEW i \in Occupied'
      PROVE  i \in Occupied /\ i \in Slots /\ i \notin Dropped(delta)
  BY <1>2, <1>3 DEF Occupied, Slots
<1>5. ASSUME NEW i \in Occupied'
      PROVE  /\ timers'[i] \in [time : Nat, attempts : Nat] /\ sends'[i] \in Nat
             /\ sends'[i] + timers'[i].attempts = 1 + ResendAttempts[values'[i]]
  <2>1. /\ i \in Occupied /\ i \in Slots /\ i \notin Dropped(delta)
        /\ values'[i] = values[i]
    BY <1>2, <1>4
  <2>2. /\ timers[i] \in [time : Nat, attempts : Nat] /\ sends[i] \in Nat
        /\ sends[i] + timers[i].attempts = 1 + ResendAttempts[values[i]]
    BY <2>1 DEF AttemptsInv, AttemptsBalance
  <2>3. CASE i \in Resent(delta)
    <3>1. /\ timers'[i] = [time |-> 0, attempts |-> timers[i].attempts - 1]
          /\ sends'[i] = sends[i] + 1
      BY <2>1, <2>3 DEF Update
    <3>2. timers[i].attempts # 0
      BY <2>3 DEF Resent
    <3> QED
      BY <2>1, <2>2, <3>1, <3>2
  <2>4. CASE i \notin Resent(delta)
    <3>1. /\ timers'[i] = [timers[i] EXCEPT !.time = @ + delta]
          /\ sends'[i] = sends[i]
      BY <2>1, <2>4 DEF Update
    <3>2. delta \in Nat
      BY ResenderAssumption
    <3>3. /\ timers'[i] \in [time : Nat, attempts : Nat]
          /\ timers'[i].attempts = timers[i].attempts
      BY <2>2, <3>1, <3>2
    <3> QED
      BY <2>1, <2>2, <3>1, <3>3
  <2> QED
    BY <2>3, <2>4
<1>6. ASSUME NEW i \in Dropped(delta)
      PROVE  (IF i \in Resent(delta) THEN sends[i] + 1 ELSE sends[i])
                 = 1 + ResendAttempts[values[i]]
  <2>1. /\ i \in Occupied /\ timers[i].attempts <= 1
        /\ i \in Resent(delta) <=> timers[i].attempts # 0
    BY DEF Dropped, Resent
  <2>2. /\ timers[i] \in [time : Nat, attempts : Nat] /\ sends[i] \in Nat
        /\ sends[i] + timers[i].attempts = 1 + ResendAttempts[values[i]]
    BY <2>1 DEF AttemptsInv, AttemptsBalance
  <2> QED
    BY <2>1, <2>2
<1>7. GivenUpAfterAttempts'
  BY <1>6 DEF Update, AttemptsInv, GivenUpAfterAttempts
<1> QED
  BY <1>5, <1>7 DEF AttemptsInv, AttemptsBalance

\* Nobody acknowledged a packet that was given up, and it was sent once and as
\* often again as its channel says: for any intervals, attempts and times
\* between updates, and whoever had the slot before.
THEOREM GivenUpIsAfterAttempts == ResenderSpec => []GivenUpAfterAttempts
<1>1. ResenderInit => AttemptsInv
  BY DEF ResenderInit, Init, AttemptsInv, AttemptsBalance, GivenUpAfterAttempts,
         Occupied, Slots
<1>2. ASSUME Inv, AttemptsInv, [ResenderNext]_resenderVars
      PROVE  AttemptsInv'
  <2>1. CASE \E v \in Value : Add(v)
    BY <1>2, <2>1, AddAttempts
  <2>2. CASE \E key \in issued : Acknowledge(key)
    BY <1>2, <2>2, AcknowledgeAttempts
  <2>3. CASE \E delta \in Delta : Update(delta)
    BY <1>2, <2>3, UpdateAttempts
  <2>4. CASE ClearAll
    BY <1>2, <2>4 DEF ClearAll, Clear, AttemptsInv, AttemptsBalance,
                      GivenUpAfterAttempts, Occupied, Slots
  <2>5. CASE UNCHANGED resenderVars
    BY <1>2, <2>5 DEF resenderVars, AttemptsInv, AttemptsBalance,
                      GivenUpAfterAttempts, Occupied, Slots
  <2> QED
    BY <1>2, <2>1, <2>2, <2>3, <2>4, <2>5 DEF ResenderNext
<1>3. AttemptsInv => GivenUpAfterAttempts
  BY DEF AttemptsInv
<1> QED
  BY <1>1, <1>2, <1>3, ResenderKeepsInv, PTL DEF ResenderSpec
=============================================================================
