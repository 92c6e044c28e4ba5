------------------------------ MODULE Segments -------------------------------
(***************************************************************************)
(* Messages too long for one packet: how send_packet() of                  *)
(* src/net/connection.rs cuts them up, what the network makes of the       *)
(* segments, and how handle_message() puts them together again with the    *)
(* PacketSegmentJoiner of src/net/segment.rs.                              *)
(*                                                                         *)
(* One channel in one direction.  Packets are the bytes they are on the    *)
(* wire.  The network loses them, brings them late, more than once and in  *)
(* any order.  The state of the connection, its acknowledgements and the   *)
(* orderer a message goes to next are those of Connection; the keys of the *)
(* resender are taken as fresh ones (PacketResender has it in detail).     *)
(***************************************************************************)
EXTENDS Codec, SequencesExt, Functions, Bags

CONSTANTS Message,        \* the messages to send, as bytes, in their order
          Reliable,       \* whether the channel has a ReliableChannel
          Ordered,        \* whether it has an OrderedChannel
          ChannelId,      \* its id at the sender
          MaxPlainLen,    \* MAX_NON_SEGMENTED_PAYLOAD_LEN
          ChunkLen,       \* MAX_PACKET_LEN - MAX_PACKET_METADATA_LEN
          JoinerCapacity, \* PacketSegmentJoiner.capacity, 0 by default
          MaxArrivals     \* a bound on the arrivals of a packet

ASSUME SegmentsAssumption ==
    /\ Message \in Seq(Seq(Byte)) /\ IsInjective(Message)
    /\ {Reliable, Ordered} \subseteq BOOLEAN
    /\ ChunkLen \in 1..MaxPlainLen /\ MaxPlainLen \in Nat
    /\ ChannelId \in Nat /\ 2 * ChannelId + 1 < WordCount
    /\ {JoinerCapacity, MaxArrivals} \subseteq Nat

VARIABLES count,     \* how many messages were sent
          counter,   \* segment_keys_counter
          packets,   \* what was sent, in its order
          joiner,    \* the map of the joiner
          seen,      \* resend_key_duplicate_checker
          alive,     \* whether the receiver's event loop has not panicked
          passed,    \* what went on to the orderer or the channel
          arrivals   \* history: how often each packet arrived

vars == <<count, counter, packets, joiner, seen, alive, passed, arrivals>>
-----------------------------------------------------------------------------
(* Sending *)

Chunks(payload) ==
    [i \in 1..((Len(payload) + ChunkLen - 1) \div ChunkLen) |->
        SubSeq(payload, (i - 1) * ChunkLen + 1,
               IF i * ChunkLen < Len(payload) THEN i * ChunkLen ELSE Len(payload))]

\* The order and the resend key of packet number n.
Prefix(order, n) ==
    (IF Ordered THEN VarInt(order) ELSE <<>>)
        \o (IF Reliable THEN KeyBytes([index |-> n, generation |-> 0]) ELSE <<>>)

\* Which segment of which message, under which key, and the bytes.
Packet(message, key, segment, bytes) ==
    [message |-> message, key |-> key, segment |-> segment, bytes |-> bytes]

IsLong(payload) == Len(payload) > MaxPlainLen

\* A message of more segments than a u16 counts makes the sender panic.
Countable(payload) == IsLong(payload) => Len(Chunks(payload)) <= ShortCount

\* The packets of message number m when n packets went before.
Plain(m, n) ==
    <<Packet(m, 0, 0, PrimaryMetadata(ChannelId, FALSE) \o Prefix(m - 1, n) \o Message[m])>>

Segmented(m, n, key) ==
    LET chunks == Chunks(Message[m]) IN
    [i \in DOMAIN chunks |->
        Packet(m, key, i - 1,
               PrimaryMetadata(ChannelId, TRUE)
                   \o SegmentMetadata(key, i - 1, Len(chunks))
                   \o Prefix(m - 1, n + i - 1)
                   \o chunks[i])]

\* Bug: the counter of the keys stands still.
SendSameKey ==
    /\ count < Len(Message) /\ Countable(Message[count + 1])
    /\ LET m   == count + 1
           new == IF IsLong(Message[m]) THEN Segmented(m, Len(packets), counter)
                  ELSE Plain(m, Len(packets))
       IN /\ packets'  = packets \o new
          /\ arrivals' = arrivals \o [i \in DOMAIN new |-> 0]
          /\ count'    = m
    /\ UNCHANGED <<counter, joiner, seen, alive, passed>>

\* send_packet(); after a panic nothing more is sent.
Send ==
    /\ count < Len(Message) /\ Countable(Message[count + 1])
    /\ LET m    == count + 1
           long == IsLong(Message[m])
           new  == IF long THEN Segmented(m, Len(packets), counter) ELSE Plain(m, Len(packets))
       IN /\ packets'  = packets \o new
          /\ arrivals' = arrivals \o [i \in DOMAIN new |-> 0]
          /\ counter'  = IF long THEN (counter + 1) % WordCount ELSE counter
          /\ count'    = m
    /\ UNCHANGED <<joiner, seen, alive, passed>>
-----------------------------------------------------------------------------
(* Receiving *)

\* What is not there is not read.
NoNumber(bytes) == [ok |-> TRUE, panics |-> FALSE, value |-> 0, rest |-> bytes]

\* Bug: an order is read from every packet.
ReadPrefixAlwaysOrdered(bytes) ==
    LET order == ReadVarInt(bytes, WordCount)
        key   == IF Reliable THEN ReadKey(order.rest) ELSE NoNumber(order.rest)
    IN [ok |-> order.ok /\ key.ok, panics |-> order.panics \/ key.panics,
        rest |-> key.rest, key |-> key.value]

\* read_order_and_resend_key(): what fails to be read is used up.
ReadPrefix(bytes) ==
    LET order == IF Ordered THEN ReadVarInt(bytes, WordCount) ELSE NoNumber(bytes)
        key   == IF Reliable THEN ReadKey(order.rest) ELSE NoNumber(order.rest)
    IN [ok |-> order.ok /\ key.ok, panics |-> order.panics \/ key.panics,
        rest |-> key.rest, key |-> key.value]

\* acknowledge_if_needed(): a key that was seen is refused.
Fresh(prefix) == Reliable => prefix.key \notin seen
Recorded(prefix) == IF Reliable THEN seen \cup {prefix.key} ELSE seen

NoSegment == [filled |-> FALSE, bytes |-> <<>>]

NewEntry(n) == [segments |-> [i \in 0..(n - 1) |-> NoSegment], non_filled |-> n]

\* The map with a place for the key.  A joiner at its capacity loses the first
\* entry of its hash map, whichever that is, if there is one.
WithEntry(key, n) ==
    IF key \in DOMAIN joiner THEN {joiner}
    ELSE LET rooms == IF Cardinality(DOMAIN joiner) = JoinerCapacity /\ joiner # <<>>
                      THEN {Restrict(joiner, DOMAIN joiner \ {k}) : k \in DOMAIN joiner}
                      ELSE {joiner}
         IN {[k \in DOMAIN room \cup {key} |-> IF k = key THEN NewEntry(n) ELSE room[k]] :
                room \in rooms}

\* The payload of a complete message: the order and the key, which are no
\* longer there, are read from every segment again.  It is given up if they
\* cannot be read from the first.
Joined(segments) ==
    LET parts  == [i \in 1..Cardinality(DOMAIN segments) |-> ReadPrefix(segments[i - 1].bytes)]
        panics == \/ parts[1].panics
                  \/ parts[1].ok /\ \E i \in DOMAIN parts : parts[i].panics
    IN [ok      |-> parts[1].ok /\ ~panics,
        panics  |-> panics,
        payload |-> FlattenSeq([i \in DOMAIN parts |-> parts[i].rest])]

PassedOn(message) ==
    IF message.ok THEN passed (+) SetToBag({message.payload}) ELSE passed

\* An entry with one segment more.
Filled(entry, segment, content) ==
    [segments   |-> [entry.segments EXCEPT ![segment] = [filled |-> TRUE, bytes |-> content]],
     non_filled |-> entry.non_filled - 1]

\* Bug: a repeated segment counts as one that was missing.
JoinCountingRepeated(meta, content) ==
    \E map \in WithEntry(meta.key, meta.count) :
        LET filled == Filled(map[meta.key], meta.segment, content)
        IN IF filled.non_filled > 0
           THEN /\ joiner' = [map EXCEPT ![meta.key] = filled]
                /\ UNCHANGED <<passed, alive>>
           ELSE /\ joiner' = Restrict(map, DOMAIN map \ {meta.key})
                /\ passed' = PassedOn(Joined(filled.segments))
                /\ alive'  = ~Joined(filled.segments).panics

\* Bug: a complete message stays in the map, and every segment of it that
\* comes again passes it on again.
JoinKeeping(meta, content) ==
    \E map \in WithEntry(meta.key, meta.count) :
        LET entry  == map[meta.key]
            filled == IF entry.segments[meta.segment].filled THEN entry
                      ELSE Filled(entry, meta.segment, content)
        IN /\ joiner' = [map EXCEPT ![meta.key] = filled]
           /\ passed' = IF filled.non_filled > 0 THEN passed
                        ELSE PassedOn(Joined(filled.segments))
           /\ alive' = alive

\* PacketSegmentJoiner::add(), and what is done with a complete message.
Join(meta, content) ==
    \E map \in WithEntry(meta.key, meta.count) :
        LET entry   == map[meta.key]
            refused == \/ meta.count # Cardinality(DOMAIN entry.segments)
                       \/ entry.segments[meta.segment].filled
            filled  == Filled(entry, meta.segment, content)
        IN CASE refused -> joiner' = map /\ UNCHANGED <<passed, alive>>
             [] ~refused /\ filled.non_filled > 0 ->
                    /\ joiner' = [map EXCEPT ![meta.key] = filled]
                    /\ UNCHANGED <<passed, alive>>
             [] OTHER ->
                    /\ joiner' = Restrict(map, DOMAIN map \ {meta.key})
                    /\ passed' = PassedOn(Joined(filled.segments))
                    /\ alive'  = ~Joined(filled.segments).panics

\* A packet arrives: handle_message() down to the message it makes complete.
Arrive(i) ==
    /\ alive /\ arrivals[i] < MaxArrivals
    /\ arrivals' = [arrivals EXCEPT ![i] = @ + 1]
    /\ LET primary == ReadPrimary(packets[i].bytes)
           meta    == ReadSegmentMetadata(primary.rest)
           prefix  == ReadPrefix(IF primary.segment THEN meta.rest ELSE primary.rest)
           reads   == {primary, prefix} \cup (IF primary.segment THEN {meta} ELSE {})
       IN IF (\E read \in reads : ~read.ok) \/ ~Fresh(prefix)
          THEN /\ alive' = \A read \in reads : ~read.panics
               /\ UNCHANGED <<seen, joiner, passed>>
          ELSE /\ seen' = Recorded(prefix)
               /\ IF primary.segment THEN Join(meta, prefix.rest)
                  ELSE /\ passed' = passed (+) SetToBag({prefix.rest})
                       /\ UNCHANGED <<joiner, alive>>
    /\ UNCHANGED <<count, counter, packets>>

Init ==
    /\ count = 0 /\ counter = 0
    /\ packets = <<>> /\ arrivals = <<>>
    /\ joiner = <<>> /\ seen = {} /\ passed = EmptyBag /\ alive = TRUE

Next == Send \/ \E i \in DOMAIN packets : Arrive(i)

Spec == Init /\ [][Next]_vars
-----------------------------------------------------------------------------
\* Types; an entry of the joiner counts the segments it misses, and misses one.
TypeOK ==
    /\ count \in 0..Len(Message) /\ counter \in 0..(WordCount - 1) /\ alive \in BOOLEAN
    /\ arrivals \in [DOMAIN packets -> 0..MaxArrivals]
    /\ \A key \in DOMAIN joiner :
          LET entry   == joiner[key]
              missing == {i \in DOMAIN entry.segments : ~entry.segments[i].filled}
          IN entry.non_filled = Cardinality(missing) /\ missing # {}

\* The receiver reads from a packet what the sender wrote, whatever sizes the
\* numbers have and however the metadata is followed by the content.
MetadataReadBack ==
    \A i \in DOMAIN packets :
        LET packet  == packets[i]
            payload == Message[packet.message]
            primary == ReadPrimary(packet.bytes)
            meta    == ReadSegmentMetadata(primary.rest)
            prefix  == ReadPrefix(IF primary.segment THEN meta.rest ELSE primary.rest)
        IN /\ primary.id = ChannelId
           /\ primary.segment = IsLong(payload)
           /\ primary.segment =>
                  /\ meta.key = packet.key /\ meta.segment = packet.segment
                  /\ meta.count = Len(Chunks(payload))
           /\ prefix.ok
           /\ prefix.rest = IF primary.segment THEN Chunks(payload)[packet.segment + 1]
                            ELSE payload
           /\ Reliable => prefix.key = [index |-> i - 1, generation |-> 0]

\* No packet makes the receiver panic: where a number is read one was written,
\* and never content, whose bytes may have more marks than a number has digits.
ReceiverSurvives == alive

\* What goes on is a message that was sent, whole and with nothing of another,
\* however the segments of several messages mix on their way.
WholeMessages == \A payload \in DOMAIN passed : payload \in Range(SubSeq(Message, 1, count))

\* How often each packet of message m arrived.
ArrivalsOf(m) == {arrivals[i] : i \in {j \in DOMAIN packets : packets[j].message = m}}

\* A message is complete when each of its segments has arrived: repeated
\* segments and those of other messages do not stand in its way.
AllSegmentsSuffice ==
    \A m \in 1..count : 0 \notin ArrivalsOf(m) => Message[m] \in DOMAIN passed

\* How many copies of a message went on.
Copies(payload) == IF payload \in DOMAIN passed THEN passed[payload] ELSE 0

\* Each copy of a message has taken a copy of each of its segments.
CopiesPaidFor ==
    \A m \in 1..count : \A n \in ArrivalsOf(m) : Copies(Message[m]) <= n
=============================================================================
