----------------------------- MODULE Connection -----------------------------
(***************************************************************************)
(* Two endpoints talking to each other: the Connection of                  *)
(* src/net/connection.rs at either end, with the calls the event loop of   *)
(* src/net/udp.rs makes on it.  Each operation is an operator from the     *)
(* connection before to the connection after, errors included, because an  *)
(* error in the code leaves behind whatever was changed before it.         *)
(*                                                                         *)
(* The network: what an endpoint ever sent stays available to the other,   *)
(* so a packet can be lost, delayed, duplicated and overtaken.  A resent   *)
(* packet is the same packet again and changes nothing here.  Channels are *)
(* resent without limit (resend_attempts: u32::MAX, as the two built-in    *)
(* channels and the chat example have it) and messages fit one packet.     *)
(***************************************************************************)
EXTENDS Window, Sequences, SequencesExt

CONSTANTS Endpoint,       \* the two sides
          Registry,       \* per side, its channels in the order it registers them
          Reliable,       \* the channels with a ReliableChannel
          Ordered,        \* the channels with an OrderedChannel
          WindowSize,     \* OrderedChannel.capacity, per ordered channel
          Capacity,       \* of the resender: the sum of additional_capacity
          AckLimit,       \* how many keys fit the payload of an ack packet
          WireOrders,     \* 2^32: orders are a u32 at the sender
          NullChannelId,  \* 2^31, the id that stands for no channel
          MaxKeys,        \* per phase and side, a bound on the keys it makes
          MaxMessages,    \* per side, a bound on the messages it sends
          MaxInbox        \* a bound on what a channel that is not reliable,
                          \*   and lets duplicates through, hands over

Ack  == "__ack"
Mgmt == "__channel"

\* The name of no channel: it is in a side's last registration.
Nameless == ""

Channels(e) == {Registry[e][i] : i \in DOMAIN Registry[e]}
Channel     == UNION {Channels(e) : e \in Endpoint}
AppChannel  == Channel \ {Ack, Mgmt}

\* The ids the built-in channels have until the channels are registered.
AckStage  == NullChannelId - 1
MgmtStage == NullChannelId - 2
StageIds  == {AckStage, MgmtStage}
Ids       == 0..(NullChannelId - 1)

ASSUME ConnectionAssumption ==
    /\ \E e, f \in Endpoint : e # f /\ Endpoint = {e, f}
    /\ NullChannelId \in Nat /\ WireOrders \in Nat
    /\ NullChannelId <= WireOrders /\ WireOrders <= OrderCount
    /\ Capacity \in Nat /\ AckLimit \in Nat \ {0}
    /\ {Ack, Mgmt} \subseteq Reliable /\ Mgmt \in Ordered /\ Ack \notin Ordered
    /\ WindowSize \in [Ordered -> Nat \ {0}]
    /\ MaxKeys \in [{"Registration", "Transfer"} -> [Endpoint -> Nat]]
    /\ MaxMessages \in [Endpoint -> Nat] /\ MaxInbox \in Nat
    /\ Registry \in [Endpoint -> Seq(STRING)]
    /\ Nameless \notin Channel
    /\ \A e \in Endpoint :
          /\ {Ack, Mgmt} \subseteq Channels(e)
          /\ IsInjective(Registry[e])
          /\ Len(Registry[e]) < MgmtStage
          /\ Len(Registry[e]) < Capacity
          /\ Len(Registry[e]) < WindowSize[Mgmt]

VARIABLE conn   \* per side, its connection to the other

vars == conn

Peer(e) == CHOOSE p \in Endpoint : p # e
-----------------------------------------------------------------------------
(* Packets *)

NoKey == 0   \* the packet is not reliable; keys are made from 1 on

\* A registration has a name (none in the last one), an acknowledgement the
\* keys it acknowledges, a message its number and, as history, the channel it
\* was sent on.
Blank == [id |-> 0, key |-> NoKey, order |-> 0, name |-> Nameless, acked |-> {},
          msg |-> 0, on |-> Nameless]

\* Registration number i of a side: the code writes the id as well, which is
\* the same number as the order.
Registration(e, i) ==
    [Blank EXCEPT !.id = MgmtStage, !.key = i + 1, !.order = i,
                  !.name = IF i < Len(Registry[e]) THEN Registry[e][i + 1] ELSE Nameless]

LocalId(e, channel) == (CHOOSE i \in DOMAIN Registry[e] : Registry[e][i] = channel) - 1

NoOrderer == [present |-> FALSE, window |-> EmptyWindow]
NewOrderer == [present |-> TRUE, window |-> EmptyWindow]

Absent ==
    [phase         |-> "Absent",
     received_last |-> FALSE,                 \* ConnectionState::Registration
     last_key      |-> NoKey,                 \*   and its two fields
     next_key      |-> 0,                     \* the resender's keys so far
     resender      |-> {},                    \* the keys of the packets it holds
     seen          |-> {},                    \* resend_key_duplicate_checker
     acks          |-> {},                    \* acknowledge_buffer
     orders        |-> [id \in Ids |-> 0],
     orderers      |-> [id \in Ids |-> NoOrderer],
     remote        |-> <<>>,                  \* id_mapper.not_local_inner
     inbox         |-> [c \in AppChannel |-> <<>>],   \* buffers, never emptied
     alive         |-> TRUE,                  \* the event loop has not panicked
     count         |-> 0,                     \* history: messages so far
     sent          |-> {}]                    \* history: what is in the network
-----------------------------------------------------------------------------
(* Sending *)

Full(c) == Cardinality(c.resender) = Capacity

\* Bug: a packet that does not get into the resender is sent all the same.
SendUnbuffered(c, id, channel, body) ==
    LET packet == [body EXCEPT !.id    = id,
                               !.order = IF channel \in Ordered THEN c.orders[id] ELSE 0,
                               !.key   = IF channel \in Reliable THEN c.next_key + 1 ELSE NoKey]
    IN [c EXCEPT !.orders[id] = IF channel \in Ordered THEN (@ + 1) % WireOrders ELSE @,
                 !.sent       = @ \cup {packet},
                 !.next_key   = IF channel \in Reliable THEN @ + 1 ELSE @]

\* send_packet(): the order is used up before the resender can refuse.
SendPacket(c, id, channel, body) ==
    LET ordered == channel \in Ordered
        counted == [c EXCEPT !.orders[id] = IF ordered THEN (@ + 1) % WireOrders ELSE @]
        plain   == [body EXCEPT !.id = id, !.order = IF ordered THEN c.orders[id] ELSE 0]
        keyed   == [plain EXCEPT !.key = c.next_key + 1]
    IN IF channel \notin Reliable THEN [counted EXCEPT !.sent = @ \cup {plain}]
       ELSE IF Full(c) THEN counted
       ELSE [counted EXCEPT !.sent     = @ \cup {keyed},
                            !.resender = @ \cup {keyed.key},
                            !.next_key = keyed.key]

\* ConnectionAcknowledgeBuffer::flush(): an empty buffer is sent too, as a
\* keep-alive; a full resender leaves the buffer as it is.
Flush(e, c) ==
    LET id == IF c.phase = "Transfer" THEN LocalId(e, Ack) ELSE AckStage IN
    IF Full(c) THEN c
    ELSE [SendPacket(c, id, Ack, [Blank EXCEPT !.acked = c.acks]) EXCEPT !.acks = {}]

\* acknowledge(): makes room by flushing.  It fails when that fails.
CanAcknowledge(c) == Cardinality(c.acks) < AckLimit \/ ~Full(c)

\* Bug: the buffer grows past what a packet can carry.
AcknowledgeOverflowing(e, c, key) == [c EXCEPT !.acks = @ \cup {key}]

Acknowledge(e, c, key) ==
    IF Cardinality(c.acks) < AckLimit THEN [c EXCEPT !.acks = @ \cup {key}]
    ELSE [Flush(e, c) EXCEPT !.acks = @ \cup {key}]

\* Connection::default() and initialize_connection(): one registration per
\* channel and a last one without a name, whose key is remembered.
Initialize(e) ==
    LET n == Len(Registry[e]) IN
    [Absent EXCEPT !.phase               = "Registration",
                   !.last_key            = n + 1,
                   !.next_key            = n + 1,
                   !.resender            = 1..(n + 1),
                   !.sent                = {Registration(e, i) : i \in 0..n},
                   !.orders[MgmtStage]   = n + 1,
                   !.orderers[MgmtStage] = NewOrderer]
-----------------------------------------------------------------------------
(* Receiving *)

\* The state becomes Transfer and what belonged to Registration is cleared.
Transfer(c) ==
    [c EXCEPT !.phase = "Transfer", !.received_last = FALSE, !.last_key = NoKey,
              !.acks = {}, !.seen = {}, !.resender = {}]

\* Bug: the state changes without the last registration being acknowledged.
ConvertUnacknowledged(c) ==
    IF c.phase = "Registration" /\ c.received_last THEN Transfer(c) ELSE c

ConvertIfPossible(c) ==
    IF c.phase = "Registration" /\ c.received_last /\ c.last_key = NoKey
    THEN Transfer(c) ELSE c

\* Bug: only acknowledgements change the state.
SpeculateNever(c, p) == c

\* A packet of the transfer phase shows that the peer is in it.
Speculate(c, p) ==
    IF c.phase = "Registration" /\ c.received_last /\ p.id \notin StageIds
    THEN Transfer(c) ELSE c

Known(c, id) ==
    IF c.phase = "Registration" THEN id \in StageIds ELSE id < Len(c.remote)

ChannelOf(c, id) ==
    CASE id = AckStage  -> Ack
      [] id = MgmtStage -> Mgmt
      [] OTHER          -> c.remote[id + 1]

\* acknowledge_locally()
HandleAck(c, p) ==
    ConvertIfPossible([c EXCEPT !.resender = @ \ p.acked,
                                !.last_key = IF @ \in p.acked THEN NoKey ELSE @])

\* A run of registrations, all with names the provider knows.  The one
\* without a name is a side's last, so that no other follows it in a run.
HandleRegistrations(c, run) ==
    LET last   == \E i \in DOMAIN run : run[i].name = Nameless
        named  == IF last THEN Len(run) - 1 ELSE Len(run)
        remote == c.remote \o [i \in 1..named |-> run[i].name]
        mapped == [c EXCEPT !.remote = remote,
                            !.orderers = [id \in Ids |->
                                IF /\ id \in Len(c.remote)..(Len(remote) - 1)
                                   /\ remote[id + 1] \in Ordered
                                THEN NewOrderer ELSE @[id]]]
    IN IF last THEN ConvertIfPossible([mapped EXCEPT !.received_last = TRUE])
       ELSE mapped

\* A run of packets of one channel.  A packet on the management channel in
\* the transfer phase meets a todo!().
HandleRun(c, channel, run) ==
    CASE channel = Ack -> HandleAck(c, run[1])
      [] channel = Mgmt /\ c.phase = "Registration" -> HandleRegistrations(c, run)
      [] channel = Mgmt /\ c.phase = "Transfer" -> [c EXCEPT !.alive = FALSE]
      [] OTHER -> [c EXCEPT !.inbox[channel] = @ \o [i \in DOMAIN run |-> run[i].msg]]

\* How much of a run is handled: a registration with a name the provider
\* does not know is an error, which ends the run.
Handled(e, run) ==
    CHOOSE n \in 0..Len(run) :
        /\ \A i \in 1..n : run[i].name \in Channels(e) \cup {Nameless}
        /\ n < Len(run) => run[n + 1].name \notin Channels(e) \cup {Nameless}

\* Bug: an ordered packet is handled as it comes.
HandleUnordered(e, c, channel, p) == HandleRun(c, channel, <<p>>)

\* Bug: the orderer is not put back after the run.
HandleKeepingOrderer(e, c, channel, p) ==
    LET orderer == c.orderers[p.id]
        run     == Run(Put(orderer.window, p.order, p))
    IN IF orderer.present
       THEN [HandleRun(c, channel, run) EXCEPT !.orderers[p.id] = NoOrderer]
       ELSE [c EXCEPT !.alive = FALSE]

\* The orderer is taken out of its place for the time of the run and put back
\* only if nothing fails.
HandleOrdered(e, c, channel, p) ==
    LET orderer == c.orderers[p.id]
        filled  == Put(orderer.window, p.order, p)
        run     == Run(filled)
        n       == Handled(e, run)
        after   == HandleRun(c, channel, SubSeq(run, 1, n))
    IN IF ~orderer.present THEN [c EXCEPT !.alive = FALSE]
       ELSE IF ~Accepts(orderer.window, p.order, WindowSize[channel])
       THEN [c EXCEPT !.orderers[p.id] = NoOrderer]
       ELSE IF n < Len(run)
       THEN [after EXCEPT !.orderers[p.id] = NoOrderer]
       ELSE [after EXCEPT !.orderers[p.id].window = Drained(filled)]

Handle(e, c, channel, p) ==
    IF channel \in Ordered THEN HandleOrdered(e, c, channel, p)
    ELSE HandleRun(c, channel, <<p>>)

\* Bug: the duplicate check is skipped.
HandleDuplicates(e, c0, p) ==
    LET c == Speculate(c0, p)
        channel == ChannelOf(c, p.id)
    IN IF ~Known(c, p.id) THEN c
       ELSE IF channel \notin Reliable THEN Handle(e, c, channel, p)
       ELSE IF ~CanAcknowledge(c) THEN c
       ELSE Handle(e, Acknowledge(e, c, p.key), channel, p)

\* handle_message(): a reliable packet is recorded as seen and acknowledged
\* on arrival, before it is ordered and handled.
HandleMessage(e, c0, p) ==
    LET c       == Speculate(c0, p)
        channel == ChannelOf(c, p.id)
        marked  == [c EXCEPT !.seen = @ \cup {p.key}]
    IN IF ~Known(c, p.id) THEN c
       ELSE IF channel \notin Reliable THEN Handle(e, c, channel, p)
       ELSE IF p.key \in c.seen THEN c
       ELSE IF ~CanAcknowledge(c) THEN marked
       ELSE Handle(e, Acknowledge(e, marked, p.key), channel, p)
-----------------------------------------------------------------------------
Init == conn = [e \in Endpoint |-> Absent]

\* The connection of e becomes c, within the bounds.
Becomes(e, c) ==
    /\ conn[e].alive
    /\ conn' = [conn EXCEPT ![e] = c]
    /\ c.next_key <= MaxKeys[c.phase][e]
    /\ \A channel \in AppChannel \ Reliable : Len(c.inbox[channel]) <= MaxInbox

\* UdpEvent::Connect
Connect(e) ==
    /\ conn[e].phase = "Absent"
    /\ Becomes(e, Initialize(e))

\* UdpEvent::Read: the first packet from the peer creates the connection.
Receive(e, p) ==
    Becomes(e, HandleMessage(e, IF conn[e].phase = "Absent" THEN Initialize(e) ELSE conn[e], p))

\* update_connection()
Update(e) ==
    /\ conn[e].phase # "Absent"
    /\ Becomes(e, Flush(e, conn[e]))

\* Bug: the id is the one that the peer has for the channel.
SendByRemoteId(e, channel) ==
    /\ conn[e].phase = "Transfer"
    /\ conn[e].count < MaxMessages[e]
    /\ LET n == conn[e].count + 1 IN
       Becomes(e, SendPacket([conn[e] EXCEPT !.count = n], LocalId(Peer(e), channel), channel,
                             [Blank EXCEPT !.msg = n, !.on = channel]))

\* UdpEvent::Send: nothing is sent before the transfer phase.
Send(e, channel) ==
    /\ conn[e].phase = "Transfer"
    /\ conn[e].count < MaxMessages[e]
    /\ LET n == conn[e].count + 1 IN
       Becomes(e, SendPacket([conn[e] EXCEPT !.count = n], LocalId(e, channel), channel,
                             [Blank EXCEPT !.msg = n, !.on = channel]))

Next == \E e \in Endpoint :
            \/ Connect(e)
            \/ \E p \in conn[Peer(e)].sent : Receive(e, p)
            \/ Update(e)
            \/ \E channel \in Channels(e) \cap AppChannel : Send(e, channel)

Spec == Init /\ [][Next]_vars

\* A state after the handshake, in which both sides registered everything,
\* sent one acknowledgement for all of it and received the other's.
Settled(e) ==
    LET n == Len(Registry[e])
        m == Len(Registry[Peer(e)])
    IN [Transfer(Initialize(e)) EXCEPT
           !.next_key = n + 2,
           !.remote   = Registry[Peer(e)],
           !.orderers = [id \in Ids |->
               CASE id = MgmtStage -> [present |-> TRUE,
                                       window  |-> [EmptyWindow EXCEPT !.start = m + 1]]
                 [] id < m /\ Registry[Peer(e)][id + 1] \in Ordered -> NewOrderer
                 [] OTHER -> NoOrderer],
           !.sent     = @ \cup {[Blank EXCEPT !.id = AckStage, !.key = n + 2,
                                              !.acked = 1..(m + 1)]}]

SettledSpec == conn = [e \in Endpoint |-> Settled(e)] /\ [][Next]_vars

\* A packet that its sender keeps sending and that e would record if it came.
Undelivered(e, key) ==
    \E p \in conn[Peer(e)].sent :
        LET c == Speculate(IF conn[e].phase = "Absent" THEN Initialize(e) ELSE conn[e], p)
        IN /\ p.key = key /\ key \in conn[Peer(e)].resender
           /\ conn[e].alive /\ Known(c, p.id) /\ key \notin c.seen

\* The event loop updates its connections time and again, and the network
\* does not lose every copy of a packet that is sent for ever: the weak
\* fairness of its arrival, written as a condition on states.
Fairness(Keys(_)) ==
    \A e \in Endpoint :
        /\ WF_vars(Update(e))
        /\ \A key \in Keys(Peer(e)) : []<>~Undelivered(e, key)

AllKeys(e) == 1..MaxKeys["Transfer"][e]

\* The keys that a settled endpoint can still make: the others are done with.
NewKeys(e) == (Len(Registry[e]) + 3)..MaxKeys["Transfer"][e]

FairSpec        == Spec /\ Fairness(AllKeys)
FairSettledSpec == SettledSpec /\ Fairness(NewKeys)
-----------------------------------------------------------------------------
(* Properties *)

\* Types; the resender keeps to its capacity, and the acknowledgements that
\* are waiting fit one packet however many packets arrive between two updates.
TypeOK ==
    \A e \in Endpoint : LET c == conn[e] IN
        /\ c.phase \in {"Absent", "Registration", "Transfer"}
        /\ c.received_last \in BOOLEAN /\ c.alive \in BOOLEAN
        /\ c.next_key \in Nat /\ c.last_key \in 0..c.next_key
        /\ c.resender \subseteq 1..c.next_key
        /\ Cardinality(c.resender) <= Capacity
        /\ c.seen \in SUBSET Nat /\ c.acks \in SUBSET Nat
        /\ Cardinality(c.acks) <= AckLimit
        /\ c.orders \in [Ids -> 0..(WireOrders - 1)]
        /\ c.remote \in Seq(Channel)
        /\ c.inbox \in [AppChannel -> Seq(Nat)]
        /\ c.count \in 0..MaxMessages[e]
        /\ \A p \in c.sent : p.id \in Ids /\ p.key \in 0..c.next_key

\* What one side knows of the other's channels is right at any time and
\* complete in the transfer phase, whatever happens to the registrations on
\* the way: the two sides never read a channel id differently.
ChannelsAgree ==
    \A e \in Endpoint : LET c == conn[e] IN
        /\ IsPrefix(c.remote, Registry[Peer(e)])
        /\ c.phase = "Transfer" => c.remote = Registry[Peer(e)]

\* The side that is first in the transfer phase, and that has therefore
\* cleared its resender, knows that its last registration has arrived
\* (the comment in handle_message before speculatively_transfer).
FirstTransferAcked ==
    \A e \in Endpoint :
        conn[e].phase = "Transfer" /\ conn[Peer(e)].phase # "Transfer"
            => Len(Registry[e]) + 1 \in conn[Peer(e)].seen

\* No message makes the event loop panic.
Alive == \A e \in Endpoint : conn[e].alive

\* A message arrives on the channel it was sent on, although the two sides
\* number their channels differently.
RightChannel ==
    \A e \in Endpoint, channel \in AppChannel :
        \A i \in DOMAIN conn[e].inbox[channel] :
            \E p \in conn[Peer(e)].sent :
                /\ p.msg = conn[e].inbox[channel][i]
                /\ p.on = channel

\* A message of a reliable channel is handed over once, however often its
\* packet arrives.
HandledOnce ==
    \A e \in Endpoint, channel \in AppChannel \cap Reliable :
        IsInjective(conn[e].inbox[channel])

\* What an ordered and reliable channel has handed over is what was sent on
\* it, from the first message on, in order and without a gap.
InOrder ==
    \A e \in Endpoint, channel \in AppChannel \cap Ordered \cap Reliable :
        LET inbox == conn[e].inbox[channel]
            sent  == {p \in conn[Peer(e)].sent : p.on = channel}
        IN \A i \in DOMAIN inbox : \E p \in sent :
               p.msg = inbox[i] /\ Cardinality({q \in sent : q.msg < p.msg}) = i - 1

\* Where the message of a packet is on the side of e.
Reached(e, channel, p) ==
    \/ p.msg \in Range(conn[e].inbox[channel])
    \/ LET window == conn[e].orderers[p.id].window IN
       \E d \in DOMAIN window.ahead : window.ahead[d] = p

\* A message that a reliable channel accepted is at its receiver, or it is in
\* the sender's resender and the receiver will take it: neither the removal
\* on acknowledgement nor the duplicate check runs ahead of the message.
NoMessageLost ==
    \A e \in Endpoint, channel \in AppChannel \cap Reliable :
        \A p \in conn[e].sent :
            p.on = channel
                => \/ p.key \in conn[e].resender \ conn[Peer(e)].seen
                   \/ Reached(Peer(e), channel, p)

\* "we can safely change our state to Transfer" (handle_message): a side that
\* is ahead, and no longer sends its registrations, leaves the other with all
\* of them handled.
TransferIsSafe ==
    \A e \in Endpoint :
        conn[e].phase = "Transfer" /\ conn[Peer(e)].phase # "Transfer"
            => conn[Peer(e)].received_last

\* "if any error has occured then the packet would be ignored" (the end of
\* handle_message), "Got a duplicate packet ... (ignoring it)" (push): an
\* ignored packet leaves the channel able to take the next one.
OrderersKept ==
    \A e \in Endpoint :
        conn[e].phase = "Transfer" =>
            \A i \in DOMAIN conn[e].remote :
                conn[e].remote[i] \in Ordered => conn[e].orderers[i - 1].present

\* Once one side is in the transfer phase, the other follows if it has all
\* registrations, though the acknowledgement it waits for was thrown away:
\* the keep-alive packets take it along.
PeerFollows ==
    \A e \in Endpoint :
        (conn[e].phase = "Transfer" /\ conn[Peer(e)].received_last)
            ~> conn[Peer(e)].phase = "Transfer"

\* Every message that a reliable channel accepted is handed over in the end.
Delivered ==
    \A e \in Endpoint, channel \in AppChannel \cap Reliable :
        \A n \in 1..MaxMessages[e] :
            (\E p \in conn[e].sent : p.msg = n /\ p.on = channel)
                ~> n \in Range(conn[Peer(e)].inbox[channel])
=============================================================================
