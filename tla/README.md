# A verification of theta

`theta` is a message library on top of UDP: two endpoints register their
channels with each other (the *registration* phase) and then exchange messages
on them (the *transfer* phase). A channel may be reliable (packets are resent
until acknowledged, and handled once) and ordered (packets are handed over in
the order sent). This directory holds TLA+ models of the code, TLC instances
of them, and proofs checked by TLAPS. Paths below are relative to `src/`.

## Inventory

| Part | State | Operations | Talks to |
|---|---|---|---|
| `SlotMap` (`src/util/slot_map.rs`) | values, generations, free slots | add, get, remove, retain_if, clear | the resender keeps its packets in one; keys travel in packets |
| `SlotSet` (same file) | a set of keys | insert, clear | the duplicate check of a connection |
| `HashSlotMap` (same file) | | | unused |
| `PacketOrderer` (`src/net/ordering.rs`) | a ring of packets, its first order and slot | push, retain | one per ordered channel of the peer |
| `PacketResender` (`src/net/resend.rs`) | a slot map with timers, a capacity | add, update, remove, clear | one per connection |
| `PacketSegmentJoiner` (`src/net/segment.rs`) | partial messages by segment key | add, pop_first | one per connection |
| `Connection` (`src/net/connection.rs`) | phase, id mapper, acknowledgement buffer, keys seen, resender, orders, orderers, joiner, message buffers | initialize_connection, handle_message, send_packet, update_connection | its peer, through packets |
| `ConnectionIdMapper`, `ChannelData`, `GlobalChannelData` (same file) | ids to channels and back, data per channel | insert, lookups | the connection |
| `ChannelProvider` (same file), `Channel` (`src/net/channel.rs`) | the channels of a program | by_id, by_name, all | fixed once the server runs |
| `udp_event_loop` (`src/net/udp.rs`) | the connections by address | Read, Connect, Send, CloseConnection, CloseServer, the update pass with the timeout | two queues in, two out |
| read and write threads (same file) | | | the socket and the queues |
| `ManyToSingleChannel` (`src/util/channel.rs`) | a queue, a condition variable | push, push_many, wait_and_take_bunch | four threads |
| `proto` (`src/proto`) | none | encode, decode | every packet |
| chat example, Bevy shell | | | a client of the library; module lists |

A connection is only ever touched by the event loop's thread. What is
concurrent is, first, the two endpoints and the network between them: packets
are lost (UDP, and `UdpFakeLag` on purpose), repeated (by resending) and
overtaken. Second, within a program, the event loop, the read thread, the write
thread and the application, joined by queues and one flag. The program writes
nothing to disk; what comes close to a crash and restart is that a connection is
closed, without a word to the peer, and made again by the next packet.

What is hard, and what makes each part correct:

* **Slot map.** Keys come back from the network late and repeatedly, across
  reuse of slots and `clear()`. No key may be made twice, the free stack must
  be exact, and `len()`, which is a difference of two lengths, must count.
* **Orderer.** Ring arithmetic with growth, rotation and wrap-around, and a
  callback that may fail half-way. Packets go out in order, without a gap, once.
* **Handshake.** Both sides must read each other's channel ids alike although
  registrations are reordered, and both must leave the phase although the last
  acknowledgement is thrown away by the change of phase itself.
* **Transfer.** A reliable message is handled once and in the end; an ordered
  channel never skips one; nothing the peer sends makes the event loop panic.
* **Resender.** A packet is sent as often as its channel says, whoever had its
  slot before, and gives its place back, acknowledged or not.
* **Segments.** What goes on is a whole message, however the segments of several
  mix; and the receiver reads the metadata as the sender wrote it.
* **Queues.** No wakeup is lost between a push that notifies after it has let go
  of the mutex and a consumer that takes only part of what there is.
* **Server.** The application ends up with the connection that the server has,
  and all threads stop when they are asked to.
* **Limits.** The resender and the acknowledgement buffer fill up; errors
  leave behind what was changed before them.

`PROJECT.json` lists the hazards line by line, with the properties that cover them.

## Modules

| Module | Models |
|---|---|
| `KeyStore` | abstract: a partial function in which every insertion gets a new key |
| `SlotMap` | `SlotMap<T>`; implements `KeyStore` |
| `SlotMapProofs` | the proofs about `SlotMap` |
| `PacketResender` | `PacketResender`, on top of `SlotMap` |
| `PacketResenderProofs` | the proofs about it |
| `Window` | operators on a reorder window (a start, and packets by their distance from it) |
| `ReorderWindow` | abstract: what an orderer promises |
| `PacketOrderer` | `PacketOrderer`; implements `ReorderWindow` |
| `Numbers` | lemmas on remainders, least and greatest members and finite intervals, which the proofs share |
| `PacketOrdererProofs` | the proofs about `PacketOrderer` |
| `Connection` | two endpoints with their connections, and the network |
| `ConnectionProofs` | the proofs about `Connection` |
| `Reconnect` | closing a connection and opening it again, with the keys of both in the network |
| `Codec` | `VarInt` and the metadata of a packet, as bytes |
| `Segments` | sending messages in segments and joining them, on the bytes of the packets |
| `SegmentsProofs` | the proofs about `Codec` and `Segments` |
| `Fifo` | abstract: a first-in first-out queue |
| `ManyToSingleChannel` | the queue between threads; implements `Fifo` |
| `ChannelProofs` | the proofs about it |
| `UdpServer` | the event loop, the read and the write thread, and an application |
| `UdpServerProofs` | the proofs about it |
| `MCPacketResender`, `MCPacketOrderer`, `MCConnection`, `MCSegments`, `MCChannel`, `MCUdpServer` | instances for TLC (`Reconnect` is small enough to be its own) |

How they fit together: a module takes over what another shows, in its abstract
form. `Connection` uses the operators of `Window` for its orderers, which the
refinement that `MCPacketOrderer` checks justifies, and sets of keys for its
resender and its duplicate checker, which the refinement of `KeyStore`
justifies (a key is made once, so a set of keys and a counter represent the
slot map). `PacketResender` and `Reconnect`, in contrast, are about the slot
map's arrays and extend `SlotMap` itself. `UdpServer` has sequences for its
queues, which the refinement of `Fifo` justifies, and reduces each connection to
what decides its state, of which `Connection` has the detail. `Segments` goes
below the records that are `Connection`'s packets, to their bytes.

`Bug:` operators are mutations of the definition below them, used only to
confirm that the properties depend on the code being as it is.

### SlotMap

`values`, `generations` and `free_slots` are the three vectors, with slots
counted from 1. `add()` is two actions, on a free slot and at the end;
`remove()` is tried with every key ever issued. The guard
`generations[slot] < MaxGeneration` stands for the overflow of a `u32`, which
panics in the dev profile. `SlotMap` has a specification of its own, about which
the proofs are; TLC checks its properties where the program uses it, in
`PacketResender`.

### PacketResender

Each slot has a timer beside its packet (`time`, `attempts`). `Add` is `add()`
with the first sending, which `send_packet` does itself; `Acknowledge` is
`remove()` with any key ever made; `Update(delta)` is one `update()` with the
time that has passed: a packet that is due is sent while it has attempts left,
and dropped in the same update as its last copy. `ClearAll` is the change of
phase. `sends` and `given_up` are histories.

### PacketOrderer

`vec`, `order_start` and `deque_start` are the fields; `out` records what the
last `retain()` handed over. `retain()` is two actions, because its callback may
succeed throughout or fail on a packet, which has then been taken out.
`push()` refused changes nothing and is no action.

### Connection

One variable, `conn`, a record for each side. Each handler is an operator from
the record before it to the record after it, so that an early return by `?`
keeps what was assigned before it, as in the code:

| Code | Model |
|---|---|
| `state` and its two fields | `phase`, `received_last`, `last_key` |
| `resender`, `resend_key_duplicate_checker`, `acknowledge_buffer` | `resender` and `next_key`, `seen`, `acks` |
| `orders`, `orderers` (`None` while taken out) | `orders`, `orderers[id].present` and `.window` |
| `id_mapper.local_inner`, `.not_local_inner` | `Registry[e]`, `remote` |
| `buffers` | `inbox`, which is never emptied |
| a panic of the event loop | `alive = FALSE`, after which the side stops |
| `UdpEvent::Connect`, `Read`, `Send`, the update pass | `Connect`, `Receive`, `Send`, `Update` |

The network is the set `sent` of each side: a packet in it may arrive at any
time, any number of times, or never, so loss, delay, repetition and reordering
need no actions of their own, and resending a packet changes nothing. That is
faithful for channels that are resent without limit; the built-in channels and
the chat example set `resend_attempts: u32::MAX`.

Two phases, two specifications. `Spec` starts without connections.
`SettledSpec` starts from `Settled`, a state that `Spec` reaches (each side
registered everything, sent one acknowledgement for all of it and received the
other's); it lets TLC spend its states on messages instead of the handshake.
Packets of the registration phase are still in the network there and may arrive.

### Reconnect

One side with the slot map of its resender, and the keys that are in the
network, in the peer's duplicate checker and in the peer's acknowledgements.
Both stay in the registration phase, in which the ids agree without a table.
`Close` drops the slot map, `Connect` makes a new one, and an acknowledgement
may be of a key of either. The slot map's `remove()` indexes before it looks:
`panicked` says that the index did not exist.

### Codec and Segments

`VarInt` and its reader are operators over bytes, a byte being a number
below `2 * Base` whose mark says that a digit follows; `PrimaryMetadata`,
`SegmentMetadata` and `KeyBytes` follow `write_*` and `read_*` of a connection.
In the code `Base` is 128. Here it is 4, so that numbers of one, two and three
digits, with zero digits in the middle, occur in a packet of a few bytes. A
number is read for a type: a `u32` (`WordCount` numbers), or a `u16`
(`ShortCount`) for the two numbers of a segment. The type has a place for each
digit that begins within its width (`Places`). What the last digit has too much
is lost; a mark on it makes the reader shift by more than the width, which
panics in the dev profile (`panics`).

`Segments` has one channel in one direction. `Send` cuts a message up as
`send_packet` does, and `Arrive` is `handle_message` for a packet that the
network brings, any packet again or never: the metadata is read, the key
checked against the duplicate checker, a segment given to the joiner
(`PacketSegmentJoiner::add`), and the order and key read once more from the
segments of a complete message, as the code does. After a panic in any of these
reads `alive` is false and nothing arrives any more. A message of more segments
than a `u16` counts makes its sender panic, and is not sent (`Countable`).

### ManyToSingleChannel

What happens while the mutex is held is one step. `push()` is two, since its
guard is a temporary that is dropped at the end of the statement, before
`notify_all()`. The consumer is handling, waiting, notified or timed out; after
either of the last two it takes the mutex again and looks at the queue.
A notification that meets no waiting consumer is lost, as with a condition
variable.

### UdpServer

The loop of `udp_event_loop` is `TakeBunch`, a `HandleEvent` for each event of
the bunch, and the update pass or its being skipped. `Read` follows a connection
from the first packet on: a registration, the last one, the acknowledgement of
the side's own last one, a packet of the transfer phase. A packet may also not
be handled to the end (`complete`): it came before, there is no room to
acknowledge or to order it, or it is a segment of a message that misses others.
It may have brought the connection into the transfer phase by then, but its
peer does not count as heard of. Connections are numbered, so that one which replaces another can be told from it. The
application is the loop of the chat example: it polls the announcements and
gives one command, which is an event. The two threads look at the flag after
each of their waits.

## Runs

| Configuration | Question | Bounds |
|---|---|---|
| `MCPacketResender` | Do the vectors behave as a store with unique keys under their only user? Is every packet sent as often as its channel says, and does its place come back? | 4 slots, 3 generations each, a capacity of 3, a packet without and one with resending, updates of 2 units for intervals of 2 and 3 |
| `MCPacketOrderer` | Does the ring behave as a window? | capacity 4, orders modulo 8, 2 payloads |
| `MCHandshake` | Is the handshake safe, do the sides agree on ids they number differently, and does the second side follow the first? | three channels (4 registrations a side), 3 keys per acknowledgement packet, a resender of 5; `MaxKeys` 5 in the registration phase and 7 in the transfer phase |
| `MCTransfer` | Are messages handled on their channel, once, in order, in the end? | 3 messages on any of a reliable ordered, a reliable and a plain channel; window 3, 2 keys per acknowledgement packet, a resender of 6; `MaxKeys` 10 for the sender and 8 for the receiver |
| `MCSegments` | Are messages joined whole, as soon as their segments are there, is what is written read back, and does the receiver survive? | messages of three, one and three packets, two arrivals of each; words of 32 and 8 numbers, with three and two places |
| `MCChannel` | Is what is pushed handled, in order, and without a timeout? | 2 producers, 5 values, bunches of 2 |
| `MCUdpServer` | Does the application follow the connections, and do all threads stop? | a peer, 2 commands, 2 events waiting, bunches of 2, the application's of 1 |

Why the bounds are enough.

* Resender: four slots are one beyond the capacity, with the others vacated in
  any order; with three generations a slot is used, cleared and used again while
  its old keys are about. An interval of 3 is not met by updates of 2
  but overshot.
* Orderer: a ring of four grows from any start, and orders modulo eight cross
  the wrap-around with the window in every position.
* Handshake: the four registrations arrive in every order, with any of them
  missing, and a side has one key left for an acknowledgement in that phase: it
  can go out before, between or after them, by the update pass or because the
  buffer is full, and both sides reach the transfer phase.
* Transfer: three messages are the fewest with one missing in the middle, or
  with one on each channel; with the keys to spare each can be acknowledged
  alone or with others, with the buffer full after two.
* Segments: two messages of three segments mix in every way, one of them with a
  short last segment, and each segment comes twice, before and after its message
  is complete; the plain one lies between their keys. The plain one begins with
  more marked bytes than a word has places, so that it must not be read as a
  number.
* Channel: five values are two full bunches and one more, so that what a bunch
  leaves behind meets every state of the consumer; the second producer can
  notify while the first is about to.
* Server: the peers do not share anything but the queues, so one is enough for
  what is asked of a connection; it can be opened, closed and opened again, with
  announcements of both still to be polled, one at a time.

`MaxKeys` bounds the reliable packets of a side by phase, keep-alives
included. `MaxInbox` bounds what is handed over on a channel that is not
reliable, whose repeated packets are handed over again. `MaxArrivals`,
`MaxPushed`, `MaxEvents`, `MaxCommands`, `MaxTime` and `MaxConnects` bound what
their names say. `CHECK_DEADLOCK FALSE` is set for `MCSegments` alone, which
ends when every packet has arrived as often as it may.

### Where the code departs from its comments

| Configuration | Property | What the run shows |
|---|---|---|
| `MCEarlyTransfer` | `TransferIsSafe` | the last registration is acknowledged on arrival although an earlier one is missing; its sender enters the transfer phase and clears its resender, and the peer, still in registration, lacks one that is not sent again |
| `MCRefused` | `OrderersKept` | a packet ahead of the receiver's window makes `push()` fail with the orderer taken out; the next packet panics. A registration of an unknown channel, of which the log says that it is ignored, takes the same way out |
| `MCReconnect` | `UnknownKeysReported` | an acknowledgement that was meant for an earlier connection has an index that the new slot map never had, and the event loop panics |
| `MCSilent` | `SilentForgotten` | the time since the last packet is computed as the earlier instant minus the later, which saturates at zero: no connection ever times out |
| `MCSegmentedHeader` | `WholeMessages` | the order and the key of a segmented message are read a second time, from its content, and the bytes read are lost |

`TransferIsSafe` and `PeerFollows` fit together: a peer follows *if* it has all
registrations, and the first side may be ahead without that being so.

`WholeMessages` and `ReceiverSurvives` hold in `MCSegments`, where the channel is
neither reliable nor ordered and there is nothing to read a second time; the
second reading can also make the receiver panic. `Silent` in `UdpServer`,
the set of connections that the update pass gives up, is written as the code
has it, with a difference that saturates, and is therefore always empty.

Two more things go wrong of which no comment says otherwise, so that no run is
kept for them; `PROJECT.json` has them as hazards without a property. A packet
whose acknowledgement fails, because the acknowledgement buffer and the resender
are both full, was recorded as seen and is dropped, and so is every copy of it
(`NoMessageLost` fails with a resender of 4 and acknowledgement packets of one
key). And an announcement that was in the queue when the user disconnected
gives the application the buffer of a connection that the server no longer has.

## Fairness

`Delivered` and `PeerFollows` assume two things. `WF(Update(e))`: the event loop
comes to its update pass time and again (`READ_TIMEOUT` bounds its wait).
And, for each key, that a packet that stays in its sender's resender, and that
its receiver would record, is not undelivered from some point on: it is sent
again every `resend_interval` without limit, so a network that does not lose
every copy delivers one. It is written on states (`[]<>~Undelivered`) and is
what weak fairness of its arrival gives; it demands nothing of a packet that is
not in a resender, of one the receiver does not know the channel of, or of a
side that has panicked. `FairSpec` assumes it for all keys and `FairSettledSpec`
for those made after `Settled`, which are the only ones in a resender there.

`PlaceReturned` assumes that updates go on, and nothing of acknowledgements.

`Handled` assumes that the threads go on when nothing blocks them (a producer
between its push and its notification, the consumer with a mutex to take), and
not that a wait ever times out.

`Shutdown` assumes that the three threads of the server go on: every wait of
theirs has a timeout. It assumes nothing of the application, which waits for
its user.

## Proofs

Each module is about one model, for all values of its constants, from the
assumptions on them that the model states. Hypotheses beyond those are
written in the theorem and named below.

`SlotMapProofs` holds for any number of slots and generations and any set of
values, from `SlotMapAssumption` alone (the bounds are natural numbers, `None`
is not a value):

* `SlotMapInvariant`: `Spec => []Inv`. `Inv` is `TypeOK`, `FreeSlotsExact` and
  `IssuedExact` together. `FreeSlotsExact` needs the types of the vectors;
  `IssuedExact` says that a slot's next generation has not been issued, which
  is what makes a new key new, across `clear()`. `remove()` and `retain_if()`
  are instances of one lemma on vacating a set of slots (`VacateInv`).
* `TypeCorrect`, `FreeSlotsAreExact`, `IssuedIsExact`: its three parts.
* `LengthIsExact`: `len()` counts the values, because the free stack is a
  bijection from its positions to the vacant slots.
* `SlotMapImplementsKeyStore`: every step is an insertion of a new key, the end
  of some keys, or a stutter of the key store. `IssuedExact` gives the new key;
  the other values are found as before because no other slot changes.

`PacketResenderProofs` holds for any capacity, intervals, attempts and times
between updates:

* `ResenderUsesSlotMap`: `ResenderSpec => Spec`, the slot map's specification,
  so that all of the above holds of the resender's slot map, in particular
  `ResenderImplementsKeyStore`.
* `CapacityIsKept`: `add()` tests `len() == capacity`, which is enough because
  `len()` counts (`LengthFromFreeSlots`) and no step adds more than one packet.
* `GivenUpIsAfterAttempts`: the invariant is `AttemptsBalance`, that the copies
  sent of a packet and those left are together what its channel asks for. It
  survives the reuse of a slot because `add()` starts the count anew.

`ChannelProofs` holds for any producers, values and bunches, the number of
producers not even being finite:

* `TypeCorrect`: with it, that the consumer's vector keeps to its capacity.
* `NoWakeupIsLost`: `NoLostWakeup` is inductive as it stands: who waits has seen
  an empty queue under the mutex, and every later push puts its producer
  among those about to notify, or notifies at once.
* `ChannelImplementsFifo`: a bunch is the first of the queue, and a stutter when
  there is nothing to take or no room; draining the bunch is a stutter.

`PacketOrdererProofs` holds for any capacity, number of orders and set of
payloads:

* `TypeCorrect`: what the code relies on, that the deque starts inside the ring
  and that every slot outside the deque is `None`, is inductive.
* `OrdererImplementsReorderWindow`: the ring grows, is rotated and wraps, and
  the callback may fail half-way, and each step is a push, a hand-over or a
  stutter of the window. The step of `push()` rests on where a packet at a
  distance is found after the vector has been extended and rotated; the step of
  `retain()` on the slots it takes being those of the run, and no others.

`UdpServerProofs` holds for any number of peers, events, bunches and commands:

* `ServerCorrect`: the inductive invariant. `InstanceFollows` says what the
  application will have once the announcements in the queue are taken; to be
  kept it needs to know of the numbers of the connections. `Numbered`: what the
  application has is older than what it is about to learn of, none of that is
  newer than the connection the server has, nor as new while that connection is
  not announced. `Ascending`: the announcements about a peer come in the order of
  its connections. `Stops`: the flag is set by the loop as its last act, and
  before either thread ends.
* `TypeCorrect`, `ApplicationFollows`, `ApplicationNeverOlder`: what follows; the
  last one is an action property.

`ConnectionProofs` holds for any channels, registries, windows, capacities,
acknowledgement limits and bounds, for both specifications (`Spec` and
`SettledSpec`). `ConnectionAssumption` asks that there are two endpoints, that
each lists its channels once, fewer than the resender's capacity and the window
of the management channel, and that `NullChannelId <= WireOrders <= OrderCount`
(`2^31`, `2^32` and `2^64` in the code).

* `ConnectionCorrect`: the inductive invariant, in two halves. `Own(e, c)` is
  about one side: its types (`Typed`), that it sends only what its phase allows,
  with keys and numbers it has made (`Sent`), each once (`Unique`), what each
  phase implies for its fields (`Phases`), that what it has read of the
  registrations are the first of the peer's, with the rest waiting at their
  place (`Handshake`), and that no number is handed over or waiting twice
  (`Once`). `Link(e, c, q)` is about a side and its peer: that a side which is
  out of the registration phase has had its last one arrive (`LastArrived`), that
  what was handed over, or waits, was sent by the peer on that channel and is
  recorded as seen (`Delivery`, `Waiting`). A step changes one side only, and
  the other side's half is kept because everything it says of its peer can only
  grow (`Grows`). There is one lemma per handler, and one for each way out of it.
* `TypeCorrect`, `ChannelsAreAgreed`, `FirstTransferIsAcked`,
  `MessagesOnRightChannel`, `MessagesHandledOnce` follow from it. That messages
  are handled once is not inductive by itself: a repeated packet is refused
  because its key was recorded, the record is cleared with the phase, and what
  then makes it safe is that no message was accepted before.
* `OrderCorrect`: the second inductive invariant. `Numbered`: later messages of
  a channel have larger orders, all below the next. `Sorted`: the message handed
  over at place `i` has order `i - 1`, and the window goes on after the last.
  Its hypothesis is `MaxMessages < WireOrders`, fewer than 2^32 messages of a
  side: after them a sender begins again with order 0, and the receiver, which
  counts with 64 bits, does not. `MessagesInOrder` follows.
* `EventLoopSurvives`: `Alive` is false in general (see `MCRefused`), and the
  theorem says what keeps it. `Matching`: each side knows the channels of the
  other, and no ordered channel is unreliable (a lost packet would stop it for
  ever, with the next ones beyond its window). `[]RoomAhead`: no sender is ahead
  of its receiver by more than the window of the channel, which nothing in the
  code sees to. The invariant added (`LiveInvariant`) is that no orderer is
  missing. `EventLoopSurvivesFewMessages` has, instead of `[]RoomAhead`, that a
  side sends no more messages than its windows hold.
* `MessagesAreKept`: the invariant added (`KeptInvariant`) says that a reliable
  message is in its sender's resender and not seen by its receiver, or seen,
  and then in the window or handed over. Besides the hypotheses above it needs
  `[]RoomToAcknowledge`, that a side never has both its acknowledgement buffer
  and its resender full when a packet arrives; the run without it is described
  above. In every state of `MCTransfer`, `RoomAhead` and `RoomToAcknowledge`
  hold.

`SegmentsProofs` holds for any messages, any base of the digits, any sizes of
packets and segments and any channel id that fits its field. `FewPackets`, a
hypothesis of all six theorems, is that fewer than 2^32 packets were sent: it
keeps orders and keys in a word, and the counter of the segment keys from coming
back to a key that is still waiting for segments.

* `PacketsReadAsWritten`: `VarIntReadBack` says that what `VarInt` writes is read
  back, with whatever bytes follow it, and has no more digits than its type has
  places (`LongerDigits`: a larger number has no fewer digits); and the metadata
  of a packet is a row of such numbers. It is about every number, and an
  induction in which the prover has no part: `DigitsDefined`, `DigitsSpell` and
  `LongerDigits` take the least number of which the claim is false
  (`LeastNumber` of `Numbers`) and find a smaller one, its quotient by the base.
  `ChunksJoin` says that the segments of a message joined are the message.
* The inductive invariant (`SegmentsInvariant`) of the rest. `SentInvariant`:
  each packet is what `send_packet()` writes (`Written`), the packets of a message
  have one key and no other long message has it (`KeysApart`), each segment is
  packed once (`PackedOnce`) and none is missing (`AllPacked`).
  `ReceivedInvariant`: an entry of the joiner holds segments of the message with
  its key, and no others (`JoinerInvariant`); what went on was sent
  (`PassedSent`); a segment has arrived once for each copy of its message that
  went on, and once more if it is held (`ArrivedFor`); and without a limit to the
  entries a segment that arrived is held, or its message has gone on
  (`NothingLost`).
* `EntriesCount` (`TypeOK`), `MessagesStayWhole` (`WholeMessages`) and
  `CopiesArePaidFor` (`CopiesPaidFor`) follow, for any capacity of the joiner, and
  `ReaderNeverPanics` (`ReceiverSurvives`) with them.
  `SegmentsSuffice` (`AllSegmentsSuffice`) is for a capacity of 0, which is what
  a connection gives its joiner and makes it keep every entry; with a limit that
  is reached, the entry given up takes its segments with it.
* All but `PacketsReadAsWritten` and `EntriesCount` assume `NothingReadTwice`: a
  channel that is reliable or ordered has no message longer than a packet. Else
  the order and the key are read a second time from the content, and
  `WholeMessages` is false: that is the finding of `MCSegmentedHeader`. So is
  then `ReceiverSurvives`, with content that has the marks for it.

Every invariant and every action property of the passing runs is thus stated by
a theorem, as are the refinements. Only model-checked is liveness under fairness
(`PlaceReturned`, `Handled`, `Shutdown`, `PeerFollows`, `Delivered`), which is
out of the prover's reach.

## Not modelled

* Packets that do not decode: every packet is one that a program of this
  repository sent. Fixed-width numbers and strings of `proto`, which the
  standard library converts.
* `ConnectionIdMapper::insert()` in the middle of the map: registrations are
  inserted at the end, each channel once.
* The application's side of the message buffers (the swap): an inbox keeps what
  was handed over.
* Messages that a program sends on the built-in channels.
* In `UdpServer`, `Send`, which changes nothing that decides a connection's
  state. In `Connection`, closing, which `UdpServer` and `Reconnect` have;
  limited attempts, which `PacketResender` has.
* `HashSlotMap` (unused), the terminal input and output of the chat example, and
  the Bevy shell (module lists, an empty plugin, a cloning macro).

## Plan

What is left: slot-map keys and closing within `Connection`, so that a peer in
the transfer phase meets one that starts anew.
