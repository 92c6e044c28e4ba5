------------------------------ MODULE SlotMap -------------------------------
(***************************************************************************)
(* SlotMap<T> of src/util/slot_map.rs: a vector of slots, a vector of      *)
(* generations and a stack of free slots.  A key is a slot and the         *)
(* generation the slot had when the key was made.  PacketResender keeps    *)
(* its buffered packets here and the keys travel over the network, where   *)
(* they come back late, twice, or after clear(): the point of the module   *)
(* is that no key is ever made twice.                                      *)
(*                                                                         *)
(* Slots are numbered from 1 (the code counts from 0).  A generation that  *)
(* has reached MaxGeneration is not incremented: `+= 1` on u32::MAX panics *)
(* in the dev profile, so no step follows it.                              *)
(***************************************************************************)
EXTENDS Naturals, Sequences, FiniteSets

CONSTANTS Value,          \* what a slot may hold
          None,           \* Option::None
          MaxSlots,       \* bound on the number of slots
          MaxGeneration   \* bound on generations, u32::MAX in the code

ASSUME SlotMapAssumption ==
    /\ None \notin Value
    /\ MaxSlots \in Nat
    /\ MaxGeneration \in Nat

VARIABLES values,        \* Vec<Option<T>>
          generations,   \* Vec<u32>, survives clear()
          free_slots,    \* Vec<u32>, used as a stack
          issued         \* history: every key add() has returned

vars == <<values, generations, free_slots, issued>>

Key == [index : 1..MaxSlots, generation : 0..MaxGeneration]

Slots    == 1..Len(values)
Occupied == {i \in Slots : values[i] # None}

\* get / get_mut: the value, unless the slot moved on to another generation.
Get(key) ==
    IF /\ key.index \in Slots
       /\ generations[key.index] = key.generation
    THEN values[key.index]
    ELSE None

\* len(): the resender compares it with its capacity.
Length == Len(values) - Len(free_slots)

Ascending(S) ==
    {s \in [1..Cardinality(S) -> S] :
        /\ \A m, n \in 1..Cardinality(S) : m < n => s[m] < s[n]
        /\ \A i \in S : \E n \in 1..Cardinality(S) : s[n] = i}
-----------------------------------------------------------------------------
Init == /\ values = <<>>
        /\ generations = <<>>
        /\ free_slots = <<>>
        /\ issued = {}

\* add() when a slot is free: the top of the stack, one generation later.
AddToFreeSlot(v) ==
    /\ free_slots # <<>>
    /\ LET slot == free_slots[Len(free_slots)] IN
       /\ generations[slot] < MaxGeneration
       /\ free_slots' = SubSeq(free_slots, 1, Len(free_slots) - 1)
       /\ generations' = [generations EXCEPT ![slot] = @ + 1]
       /\ values' = [values EXCEPT ![slot] = v]
       /\ issued' = issued \cup
            {[index |-> slot, generation |-> generations[slot] + 1]}

\* Bug: a slot at the end is taken for a new one although clear() kept the
\* generations of the slots it dropped.
AddAtEndAlwaysPushing(v) ==
    /\ free_slots = <<>>
    /\ Len(values) < MaxSlots
    /\ LET slot == Len(values) + 1 IN
       /\ generations' = Append(generations, 0)
       /\ values' = Append(values, v)
       /\ issued' = issued \cup {[index |-> slot, generation |-> 0]}
    /\ UNCHANGED free_slots

\* add() when none is free: a slot at the end, which is new unless clear()
\* dropped it earlier.
AddAtEnd(v) ==
    /\ free_slots = <<>>
    /\ Len(values) < MaxSlots
    /\ LET slot == Len(values) + 1 IN
       /\ \/ /\ Len(generations) <= Len(values)
             /\ generations' = Append(generations, 0)
          \/ /\ Len(generations) > Len(values)
             /\ generations[slot] < MaxGeneration
             /\ generations' = [generations EXCEPT ![slot] = @ + 1]
       /\ values' = Append(values, v)
       /\ issued' = issued \cup
            {[index |-> slot, generation |-> generations'[slot]]}
    /\ UNCHANGED free_slots

\* Bug: remove() pushes the slot whether or not it still held a value.
RemoveTwice(key) ==
    /\ generations[key.index] = key.generation
    /\ key.index \in Slots
    /\ values' = [values EXCEPT ![key.index] = None]
    /\ free_slots' = Append(free_slots, key.index)
    /\ UNCHANGED <<generations, issued>>

\* remove(): with any key that was ever returned, however old.
Remove(key) ==
    /\ generations[key.index] = key.generation
    /\ key.index \in Occupied
    /\ values' = [values EXCEPT ![key.index] = None]
    /\ free_slots' = Append(free_slots, key.index)
    /\ UNCHANGED <<generations, issued>>

\* retain_if(): the slots for which the callback is true are vacated and
\* pushed in the order of the vector.
RetainIf(dropped) ==
    /\ values' = [i \in Slots |-> IF i \in dropped THEN None ELSE values[i]]
    /\ \E freed \in Ascending(dropped) : free_slots' = free_slots \o freed
    /\ UNCHANGED <<generations, issued>>

\* Bug: clear() leaves the stack of free slots alone.
ClearValuesOnly ==
    /\ values' = <<>>
    /\ UNCHANGED <<free_slots, generations, issued>>

\* clear(): the generations stay.
Clear ==
    /\ values' = <<>>
    /\ free_slots' = <<>>
    /\ UNCHANGED <<generations, issued>>

Next == \/ \E v \in Value : AddToFreeSlot(v) \/ AddAtEnd(v)
        \/ \E key \in issued : Remove(key)
        \/ \E dropped \in SUBSET Occupied : RetainIf(dropped)
        \/ Clear

Spec == Init /\ [][Next]_vars
-----------------------------------------------------------------------------
\* Types and bounds of the three vectors.
TypeOK ==
    /\ values \in Seq(Value \cup {None})
    /\ generations \in Seq(0..MaxGeneration)
    /\ free_slots \in Seq(1..MaxSlots)
    /\ issued \in SUBSET Key
    /\ Len(values) <= Len(generations)
    /\ Len(generations) <= MaxSlots

\* The free stack holds every vacant slot exactly once: a slot missing from
\* it is capacity lost for good, one that is on it twice is given to two
\* packets.  Acknowledgements arrive late and repeatedly, so remove() meets
\* vacant slots, cleared slots and slots of another generation.
FreeSlotsExact ==
    /\ \A m, n \in 1..Len(free_slots) : free_slots[m] = free_slots[n] => m = n
    /\ \A i \in 1..MaxSlots :
          (i \in Slots \ Occupied)
             <=> (\E n \in 1..Len(free_slots) : free_slots[n] = i)

\* len(), which is computed from two vectors, counts the values held; the
\* resender's capacity test stands or falls with it.
LengthCountsValues == Length = Cardinality(Occupied)

\* A slot's generations have all been issued, up to its current one.
IssuedExact ==
    issued = {k \in Key : /\ k.index <= Len(generations)
                          /\ k.generation <= generations[k.index]}

\* The inductive invariant behind the refinement.
Inv == TypeOK /\ FreeSlotsExact /\ IssuedExact
-----------------------------------------------------------------------------
\* Refinement: what get() returns for the issued keys is a KeyStore, so a
\* key finds the value it was issued for or nothing, across removals, reuse
\* of slots and clear().
Live == {key \in issued : Get(key) # None}

Abs == INSTANCE KeyStore WITH
           store <- [key \in Live |-> Get(key)],
           used  <- issued

ImplementsKeyStore == Abs!Spec
=============================================================================
