-------------------------------- MODULE Codec --------------------------------
(***************************************************************************)
(* The numbers of a packet's metadata as bytes: VarInt of src/proto and    *)
(* what src/net and src/util write with it.  A byte carries a digit in     *)
(* base Base, the least significant first, and a mark, worth Base itself,  *)
(* when more digits follow.                                                *)
(*                                                                         *)
(* A read yields what was read and the bytes after it.  One that fails has *)
(* used up the bytes.  One that meets more digits than its number has      *)
(* places for shifts by more than the width of the number, which panics in *)
(* the dev profile.                                                        *)
(***************************************************************************)
EXTENDS Naturals, FiniteSets, FiniteSetsExt, Sequences

CONSTANTS Base,         \* 2^7
          WordCount,    \* 2^32
          ShortCount    \* 2^16

ASSUME CodecAssumption ==
    /\ Base \in Nat /\ Base > 1
    /\ {WordCount, ShortCount} \subseteq Nat \ {0}

Byte == 0..(2 * Base - 1)

\* Bug: the mark goes by the digit itself, not by those that follow.
DigitsMarkedBySelf[n \in Nat] ==
    IF n < Base THEN <<n>>
    ELSE <<(n % Base) + (IF n % Base = 0 THEN 0 ELSE Base)>> \o DigitsMarkedBySelf[n \div Base]

VarIntMarkedByDigit(n) == DigitsMarkedBySelf[n]

\* The loop of VarInt::encode: a digit at a time, with a mark if more is left.
Digits[n \in Nat] ==
    IF n < Base THEN <<n>> ELSE <<(n % Base) + Base>> \o Digits[n \div Base]

VarInt(n) == Digits[n]

Failed   == [ok |-> FALSE, panics |-> FALSE, value |-> 0, rest |-> <<>>]
Panicked == [ok |-> FALSE, panics |-> TRUE, value |-> 0, rest |-> <<>>]

\* How many digits begin within the width of a type of that many numbers.
Places(numbers) == Len(Digits[numbers - 1])

\* The digits up to the first without a mark, read into a type of that many
\* numbers: what the last one has too much is lost.
ReadVarInt(bytes, numbers) ==
    LET ends == {i \in DOMAIN bytes : i <= Places(numbers) /\ bytes[i] < Base}
        size == Min(ends)
        from[i \in 1..size] ==
            (bytes[i] % Base) + (IF i = size THEN 0 ELSE Base * from[i + 1])
    IN IF ends = {} THEN IF Len(bytes) > Places(numbers) THEN Panicked ELSE Failed
       ELSE [ok     |-> TRUE,
             panics |-> FALSE,
             value  |-> from[1] % numbers,
             rest   |-> SubSeq(bytes, size + 1, Len(bytes))]

\* PrimaryPacketMetadata: the channel id and whether this is a segment.
PrimaryMetadata(id, segment) == VarInt(2 * id + (IF segment THEN 1 ELSE 0))

ReadPrimary(bytes) ==
    LET number == ReadVarInt(bytes, WordCount)
    IN [ok |-> number.ok, panics |-> number.panics, rest |-> number.rest,
        id |-> number.value \div 2, segment |-> number.value % 2 = 1]

\* PacketSegmentMetadata; the two numbers of segments are u16.
SegmentMetadata(key, segment, count) ==
    VarInt(key) \o VarInt(segment) \o VarInt(count - 1)

ReadSegmentMetadata(bytes) ==
    LET key     == ReadVarInt(bytes, WordCount)
        segment == ReadVarInt(key.rest, ShortCount)
        count   == ReadVarInt(segment.rest, ShortCount)
    IN [ok |-> count.ok, rest |-> count.rest,
        panics |-> key.panics \/ segment.panics \/ count.panics,
        key |-> key.value, segment |-> segment.value, count |-> count.value + 1]

\* SlotMapKey
KeyBytes(key) == VarInt(key.index) \o VarInt(key.generation)

ReadKey(bytes) ==
    LET index      == ReadVarInt(bytes, WordCount)
        generation == ReadVarInt(index.rest, WordCount)
    IN [ok |-> generation.ok, rest |-> generation.rest,
        panics |-> index.panics \/ generation.panics,
        value |-> [index |-> index.value, generation |-> generation.value]]
=============================================================================
