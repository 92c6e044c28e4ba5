---------------------------- MODULE ConnectionProofs ----------------------------
(***************************************************************************)
(* What holds of two connections for any channels, windows and capacities. *)
(***************************************************************************)
EXTENDS Connection, Numbers, TLAPS

\* How many channels a side registers; its last registration has this number.
Count(e) == Len(Registry[e])

(* Types *)

Packet == [id : Ids, key : Nat, order : Nat, name : Channel \cup {Nameless},
           acked : SUBSET Nat, msg : Nat, on : Channel \cup {Nameless}]

Windows == {w \in [start : 0..(OrderCount - 1), ahead : UNION {[D -> Packet] : D \in SUBSET Nat}] :
               IsFiniteSet(DOMAIN w.ahead)}

Orderer == [present : BOOLEAN, window : Windows]

Connections ==
    [phase : {"Absent", "Registration", "Transfer"}, received_last : BOOLEAN,
     last_key : Nat, next_key : Nat, resender : SUBSET Nat, seen : SUBSET Nat,
     acks : SUBSET Nat, orders : [Ids -> 0..(WireOrders - 1)],
     orderers : [Ids -> Orderer], remote : Seq(Channel),
     inbox : [AppChannel -> Seq(Nat)], alive : BOOLEAN, count : Nat,
     sent : SUBSET Packet]

\* The types of TypeOK and what they rest on.
Typed(e, c) ==
    /\ c \in Connections
    /\ c.last_key <= c.next_key
    /\ c.resender \subseteq 1..c.next_key /\ Cardinality(c.resender) <= Capacity
    /\ IsFiniteSet(c.acks) /\ Cardinality(c.acks) <= AckLimit
    /\ c.count <= MaxMessages[e]

(* Packets *)

IsRegistration(e, p) == \E i \in 0..Count(e) : p = Registration(e, i)

IsAck(id, p) == p.id = id /\ p.on = Nameless /\ p.msg = 0

IsMessage(e, p) ==
    /\ p.on \in Channels(e) \cap AppChannel /\ p.id = LocalId(e, p.on)
    /\ p.msg # 0 /\ p.name = Nameless
    /\ p.on \in Reliable => p.key # NoKey

\* What an endpoint sends, by its phase.
Sendable(e, c, p) ==
    \/ IsRegistration(e, p)
    \/ IsAck(AckStage, p)
    \/ c.phase = "Transfer" /\ (IsAck(LocalId(e, Ack), p) \/ IsMessage(e, p))

\* The acknowledgements of the phase that the endpoint is in are for packets
\* that it has recorded as seen; with the phase the record is cleared.
Sent(e, c) ==
    \A p \in c.sent :
        /\ Sendable(e, c, p) /\ p.key <= c.next_key /\ p.msg <= c.count
        /\ p.id = AckStage /\ c.phase # "Transfer" => p.acked \subseteq c.seen
        /\ p.id = LocalId(e, Ack) => p.acked \subseteq c.seen

Unique(c) ==
    \A p, r \in c.sent :
        /\ p.key = r.key /\ p.key # NoKey => p = r
        /\ p.msg = r.msg /\ p.msg # 0 => p = r

(* The handshake *)

Phases(e, c) ==
    /\ c.phase = "Absent" => c = Absent
    /\ c.phase = "Registration" => c.last_key \in {NoKey, Count(e) + 1}
    /\ c.phase # "Registration" => c.last_key = NoKey /\ ~c.received_last
    /\ c.acks \subseteq c.seen

\* The window of the registrations: it is never refused one, and those that
\* were handed over or wait in it are recorded as seen.
Registering(f, c, w) ==
    /\ w.start <= Count(f) + 1
    /\ Len(c.remote) = IF w.start <= Count(f) THEN w.start ELSE Count(f)
    /\ c.received_last <=> w.start = Count(f) + 1
    /\ \A i \in 0..(w.start - 1) : i + 1 \in c.seen
    /\ \A d \in DOMAIN w.ahead :
          /\ d # 0 /\ w.start + d \in 0..Count(f)
          /\ w.ahead[d] = Registration(f, w.start + d)
          /\ w.start + d + 1 \in c.seen

Handshake(f, c) ==
    /\ Len(c.remote) <= Count(f)
    /\ \A i \in DOMAIN c.remote : c.remote[i] = Registry[f][i]
    /\ c.phase = "Registration" =>
          LET mgmt == c.orderers[MgmtStage] IN
          /\ mgmt.present => Registering(f, c, mgmt.window)
          /\ ~mgmt.present => ~c.received_last /\ ~(Channels(f) \subseteq Channels(Peer(f)))
          /\ \A id \in Ids \ {MgmtStage} : c.orderers[id] \in {NoOrderer, NewOrderer}
          /\ \A id \in 0..(Len(c.remote) - 1) :
                c.remote[id + 1] \in Ordered => c.orderers[id] = NewOrderer
          /\ \A channel \in AppChannel : c.inbox[channel] = <<>>
    /\ c.phase = "Transfer" => c.remote = Registry[f]

\* Who waits for no acknowledgement of its last registration knows that the
\* peer has it, or has gone ahead.
LastArrived(e, c, q) ==
    c.phase # "Absent" /\ c.last_key = NoKey => q.phase = "Transfer" \/ Count(e) + 1 \in q.seen

(* Messages *)

\* A packet of the peer q that c took in on a channel.
Taken(c, q, channel, p) ==
    p \in q.sent /\ p.on = channel /\ (channel \in Reliable => p.key \in c.seen)

Delivery(c, q) ==
    \A channel \in AppChannel : \A i \in DOMAIN c.inbox[channel] :
        \E p \in q.sent : Taken(c, q, channel, p) /\ p.msg = c.inbox[channel][i]

Ahead(f, c, channel) == c.orderers[LocalId(f, channel)].window.ahead

Waiting(f, c, q) ==
    \A channel \in AppChannel \cap Channels(f) :
        \A d \in DOMAIN Ahead(f, c, channel) :
            d # 0 /\ Taken(c, q, channel, Ahead(f, c, channel)[d])

Once(f, c) ==
    \A channel \in AppChannel \cap Reliable :
        /\ IsInjective(c.inbox[channel])
        /\ channel \in Channels(f) =>
              LET ahead == Ahead(f, c, channel) IN
              \A d \in DOMAIN ahead :
                 /\ \A i \in DOMAIN c.inbox[channel] : c.inbox[channel][i] # ahead[d].msg
                 /\ \A d2 \in DOMAIN ahead : ahead[d].msg = ahead[d2].msg => d = d2

\* What holds of a connection c of e with the connection q of its peer.
Own(e, c) ==
    /\ Typed(e, c) /\ Sent(e, c) /\ Unique(c) /\ Phases(e, c)
    /\ Handshake(Peer(e), c) /\ Once(Peer(e), c)

Link(e, c, q) ==
    LastArrived(e, c, q) /\ Delivery(c, q) /\ Waiting(Peer(e), c, q)

ConnectionInvariant ==
    /\ conn \in [Endpoint -> Connections]
    /\ \A e \in Endpoint :
          Own(e, conn[e]) /\ Link(e, conn[e], conn[Peer(e)])

\* How a connection changes, as far as the peer can tell: q's Link survives it.
Grows(c, d) ==
    /\ c.sent \subseteq d.sent
    /\ c.phase = "Transfer" => d.phase = "Transfer"
    /\ d.phase = "Transfer" \/ c.seen \subseteq d.seen
-----------------------------------------------------------------------------
(* Constants *)

LEMMA Peers ==
  ASSUME NEW e \in Endpoint
  PROVE  /\ Peer(e) \in Endpoint /\ Peer(e) # e /\ Peer(Peer(e)) = e
         /\ Endpoint = {e, Peer(e)}
<1>1. PICK x, y \in Endpoint : x # y /\ Endpoint = {x, y}
  BY ConnectionAssumption
<1>2. \A z \in Endpoint : \E p \in Endpoint : p # z
  BY <1>1
<1>3. \A z \in Endpoint : Peer(z) \in Endpoint /\ Peer(z) # z
  BY <1>2 DEF Peer
<1> QED
  BY <1>1, <1>3

LEMMA Sizes ==
  ASSUME NEW e \in Endpoint
  PROVE  /\ Registry[e] \in Seq(Channel) /\ Count(e) \in Nat
         /\ NullChannelId \in Nat /\ OrderCount \in Nat \ {0} /\ WireOrders \in Nat \ {0}
         /\ AckStage = NullChannelId - 1 /\ MgmtStage = NullChannelId - 2
         /\ 0 < Count(e) /\ Count(e) < MgmtStage /\ Count(e) + 1 < WireOrders
         /\ Count(e) + 1 < OrderCount
         /\ Ids = 0..(NullChannelId - 1)
         /\ Count(e) + 1 <= Capacity /\ Count(e) < WindowSize[Mgmt]
         /\ Capacity \in Nat /\ AckLimit \in Nat \ {0} /\ MaxMessages[e] \in Nat
         /\ WindowSize[Mgmt] \in Nat \ {0}
<1>1. Registry[e] \in Seq(STRING)
  BY ConnectionAssumption
<1>2. DOMAIN Registry[e] = 1..Len(Registry[e]) /\ Len(Registry[e]) \in Nat
  BY <1>1
<1>3. \A i \in DOMAIN Registry[e] : Registry[e][i] \in Channels(e)
  BY DEF Channels
<1>4. Channels(e) \subseteq Channel
  BY DEF Channel
<1>5. Registry[e] \in Seq(Channel)
  BY <1>1, <1>2, <1>3, <1>4
<1>6. DOMAIN Registry[e] # {}
  BY ConnectionAssumption DEF Channels
<1>7. Len(Registry[e]) # 0
  BY <1>2, <1>6
<1>8. Len(Registry[e]) < MgmtStage /\ Len(Registry[e]) < Capacity /\ Len(Registry[e]) < WindowSize[Mgmt]
  BY ConnectionAssumption
<1>9. WindowSize[Mgmt] \in Nat \ {0} /\ Capacity \in Nat /\ AckLimit \in Nat \ {0}
      /\ MaxMessages[e] \in Nat /\ NullChannelId \in Nat /\ WireOrders \in Nat
      /\ NullChannelId <= WireOrders /\ WireOrders <= OrderCount
  BY ConnectionAssumption
<1> QED
  BY <1>2, <1>5, <1>7, <1>8, <1>9, OrderCountAssumption DEF Count, AckStage, MgmtStage, Ids

LEMMA LocalIds ==
  ASSUME NEW e \in Endpoint, NEW channel \in Channels(e)
  PROVE  /\ LocalId(e, channel) \in 0..(Count(e) - 1)
         /\ Registry[e][LocalId(e, channel) + 1] = channel
<1>1. PICK i \in DOMAIN Registry[e] : Registry[e][i] = channel
  BY DEF Channels
<1> DEFINE j == CHOOSE k \in DOMAIN Registry[e] : Registry[e][k] = channel
<1>2. j \in DOMAIN Registry[e] /\ Registry[e][j] = channel
  BY <1>1
<1>3. DOMAIN Registry[e] = 1..Count(e) /\ Count(e) \in Nat
  BY Sizes DEF Count
<1> HIDE DEF j
<1>4. j \in 1..Count(e) /\ Count(e) \in Nat
  BY <1>2, <1>3
<1>5. LocalId(e, channel) = j - 1
  BY DEF LocalId, j
<1>6. LocalId(e, channel) \in 0..(Count(e) - 1) /\ LocalId(e, channel) + 1 = j
  BY <1>4, <1>5
<1> QED
  BY <1>2, <1>6

LEMMA LocalIdOf ==
  ASSUME NEW e \in Endpoint, NEW i \in 0..(Count(e) - 1)
  PROVE  /\ Registry[e][i + 1] \in Channels(e)
         /\ LocalId(e, Registry[e][i + 1]) = i
<1>1. DOMAIN Registry[e] = 1..Count(e) /\ Count(e) \in Nat
  BY Sizes DEF Count
<1>2. i + 1 \in DOMAIN Registry[e] /\ i \in Nat
  BY <1>1
<1>3. Registry[e][i + 1] \in Channels(e)
  BY <1>2 DEF Channels
<1> DEFINE j == LocalId(e, Registry[e][i + 1])
<1>4. j \in 0..(Count(e) - 1) /\ Registry[e][j + 1] = Registry[e][i + 1]
  BY <1>3, LocalIds
<1> HIDE DEF j
<1>5. j + 1 \in DOMAIN Registry[e]
  BY <1>1, <1>4
<1>6. j + 1 = i + 1
  BY <1>2, <1>4, <1>5, ConnectionAssumption DEF IsInjective
<1> QED
  BY <1>1, <1>3, <1>4, <1>6 DEF j

\* The channels that are built in are none of the application's, and all have
\* a name.
LEMMA Names ==
  ASSUME NEW e \in Endpoint
  PROVE  /\ Ack \in Channels(e) /\ Mgmt \in Channels(e) /\ Channels(e) \subseteq Channel
         /\ Ack # Mgmt /\ Ack \notin AppChannel /\ Mgmt \notin AppChannel
         /\ Nameless \notin Channel /\ AppChannel \subseteq Channel
         /\ Ack \in Reliable /\ Mgmt \in Reliable /\ Mgmt \in Ordered /\ Ack \notin Ordered
         /\ Channels(e) \subseteq AppChannel \cup {Ack, Mgmt}
<1>1. Ack # Mgmt
  BY DEF Ack, Mgmt
<1>2. {Ack, Mgmt} \subseteq Channels(e) /\ {Ack, Mgmt} \subseteq Reliable /\ Mgmt \in Ordered
      /\ Ack \notin Ordered /\ Nameless \notin Channel
  BY ConnectionAssumption
<1>3. Channels(e) \subseteq Channel
  BY DEF Channel
<1> QED
  BY <1>1, <1>2, <1>3 DEF AppChannel

LEMMA BlankFields ==
  /\ Blank \in Packet /\ Blank.id = 0 /\ Blank.key = NoKey /\ Blank.order = 0
  /\ Blank.name = Nameless /\ Blank.acked = {} /\ Blank.msg = 0 /\ Blank.on = Nameless
<1>1. PICK e \in Endpoint : TRUE
  BY ConnectionAssumption
<1>2. 0 \in Ids
  BY <1>1, Sizes
<1> QED
  BY <1>2 DEF Blank, Packet, NoKey

LEMMA RegistrationFields ==
  ASSUME NEW e \in Endpoint, NEW i \in 0..Count(e)
  PROVE  /\ Registration(e, i) \in Packet
         /\ Registration(e, i).id = MgmtStage /\ Registration(e, i).key = i + 1
         /\ Registration(e, i).order = i
         /\ Registration(e, i).on = Nameless /\ Registration(e, i).msg = 0
         /\ Registration(e, i).acked = {}
         /\ i < Count(e) => /\ Registration(e, i).name = Registry[e][i + 1]
                            /\ Registration(e, i).name # Nameless
         /\ i = Count(e) => Registration(e, i).name = Nameless
<1>1. Count(e) \in Nat /\ MgmtStage \in Ids
  BY Sizes
<1>2. i < Count(e) => Registry[e][i + 1] \in Channel /\ Registry[e][i + 1] # Nameless
  <2> SUFFICES ASSUME i < Count(e)
               PROVE  Registry[e][i + 1] \in Channel /\ Registry[e][i + 1] # Nameless
    OBVIOUS
  <2>1. i \in 0..(Count(e) - 1)
    BY <1>1
  <2> QED
    BY <2>1, LocalIdOf, Names
<1> DEFINE name == IF i < Count(e) THEN Registry[e][i + 1] ELSE Nameless
<1>3. name \in Channel \cup {Nameless} /\ i \in Nat /\ i + 1 \in Nat
  BY <1>1, <1>2
<1>4. Registration(e, i) =
         [Blank EXCEPT !.id = MgmtStage, !.key = i + 1, !.order = i, !.name = name]
  BY DEF Registration, Count
<1>5. i < Count(e) => name = Registry[e][i + 1]
  OBVIOUS
<1>6. i = Count(e) => name = Nameless
  BY <1>1
<1> HIDE DEF name
<1>7. /\ Registration(e, i).id = MgmtStage /\ Registration(e, i).key = i + 1
      /\ Registration(e, i).order = i /\ Registration(e, i).name = name
      /\ Registration(e, i).on = Nameless /\ Registration(e, i).msg = 0
      /\ Registration(e, i).acked = {} /\ Registration(e, i) \in Packet
  BY <1>1, <1>3, <1>4, BlankFields DEF Packet
<1> QED
  BY <1>2, <1>5, <1>6, <1>7
-----------------------------------------------------------------------------
(* Windows *)

LEMMA WindowFields ==
  ASSUME NEW w \in Windows
  PROVE  /\ w.start \in 0..(OrderCount - 1) /\ w.start \in Nat
         /\ DOMAIN w.ahead \in SUBSET Nat /\ IsFiniteSet(DOMAIN w.ahead)
         /\ w.ahead \in [DOMAIN w.ahead -> Packet]
         /\ w = [start |-> w.start, ahead |-> w.ahead]
<1>1. OrderCount \in Nat \ {0}
  BY OrderCountAssumption
<1>2. PICK D \in SUBSET Nat : w.ahead \in [D -> Packet]
  BY DEF Windows
<1>3. w.start \in 0..(OrderCount - 1) /\ IsFiniteSet(DOMAIN w.ahead)
      /\ w = [start |-> w.start, ahead |-> w.ahead]
  BY DEF Windows
<1> QED
  BY <1>1, <1>2, <1>3

LEMMA WindowIs ==
  ASSUME NEW w, NEW start \in 0..(OrderCount - 1), NEW D \in SUBSET Nat, IsFiniteSet(D),
         NEW ahead \in [D -> Packet], w = [start |-> start, ahead |-> ahead]
  PROVE  w \in Windows
  BY DEF Windows

LEMMA EmptyIsWindow ==
  /\ EmptyWindow \in Windows /\ EmptyWindow.start = 0 /\ DOMAIN EmptyWindow.ahead = {}
  /\ NoOrderer \in Orderer /\ NewOrderer \in Orderer
  /\ ~NoOrderer.present /\ NewOrderer.present
  /\ NoOrderer.window = EmptyWindow /\ NewOrderer.window = EmptyWindow
<1> DEFINE ahead == [d \in {} |-> d]
<1>1. EmptyWindow = [start |-> 0, ahead |-> ahead]
  BY DEF EmptyWindow
<1>2. DOMAIN ahead = {} /\ ahead \in [{} -> Packet] /\ IsFiniteSet({}) /\ {} \in SUBSET Nat
  BY FS_EmptySet
<1>3. 0 \in 0..(OrderCount - 1)
  BY OrderCountAssumption
<1> HIDE DEF ahead
<1>4. EmptyWindow \in Windows
  BY <1>1, <1>2, <1>3, WindowIs
<1>5. EmptyWindow.start = 0 /\ DOMAIN EmptyWindow.ahead = {}
  BY <1>1, <1>2
<1> QED
  BY <1>4, <1>5 DEF NoOrderer, NewOrderer, Orderer

\* The packets that can be handed over are those up to the first that lacks.
LEMMA RunLengthIs ==
  ASSUME NEW w \in Windows
  PROVE  /\ RunLength(w) \in Nat
         /\ \A d \in 0..(RunLength(w) - 1) : d \in DOMAIN w.ahead
         /\ RunLength(w) \notin DOMAIN w.ahead
<1> DEFINE D == DOMAIN w.ahead
           S == (0..Cardinality(D)) \ D
<1>1. D \in SUBSET Nat /\ IsFiniteSet(D)
  BY WindowFields
<1>2. RunLength(w) = CHOOSE k \in 0..Cardinality(D) : 0..k \cap D = {d \in 0..k : d < k}
  BY DEF RunLength
<1> HIDE DEF D
<1>3. Cardinality(D) \in Nat
  BY <1>1, FS_CardinalityType
<1>4. S # {}
  <2>1. IsFiniteSet(0..Cardinality(D)) /\ Cardinality(0..Cardinality(D)) = Cardinality(D) + 1
    BY <1>3, FS_Interval
  <2>2. ~(0..Cardinality(D) \subseteq D)
    BY <1>1, <1>3, <2>1, FS_Subset
  <2> QED
    BY <2>2
<1>5. PICK n \in S : \A k \in S : n <= k
  <2>1. S \in SUBSET Nat
    BY <1>3
  <2> HIDE DEF S
  <2> QED
    BY <1>4, <2>1, LeastNumber
<1>6. n \in Nat /\ n \notin D /\ 0..(n - 1) \subseteq D
  BY <1>3, <1>5
<1>7. RunLength(w) = n
  BY <1>1, <1>2, <1>6, FirstGap
<1> QED
  BY <1>6, <1>7 DEF D

LEMMA RunFields ==
  ASSUME NEW w \in Windows
  PROVE  /\ Run(w) \in Seq(Packet) /\ Len(Run(w)) = RunLength(w)
         /\ DOMAIN Run(w) = 1..RunLength(w)
         /\ \A i \in 1..RunLength(w) : i - 1 \in DOMAIN w.ahead /\ Run(w)[i] = w.ahead[i - 1]
<1>1. RunLength(w) \in Nat /\ \A i \in 1..RunLength(w) : i - 1 \in DOMAIN w.ahead
  BY RunLengthIs
<1>2. w.ahead \in [DOMAIN w.ahead -> Packet]
  BY WindowFields
<1>3. Run(w) = [i \in 1..RunLength(w) |-> w.ahead[i - 1]]
  BY DEF Run
<1>4. \A i \in 1..RunLength(w) : w.ahead[i - 1] \in Packet
  BY <1>1, <1>2
<1> QED
  BY <1>1, <1>3, <1>4

\* What is left after a run has moved closer by its length.
LEMMA DrainedFields ==
  ASSUME NEW w \in Windows
  PROVE  /\ Drained(w) \in Windows
         /\ Drained(w).start = (w.start + RunLength(w)) % OrderCount
         /\ \A d \in DOMAIN Drained(w).ahead :
               /\ d \in Nat /\ d # 0 /\ d + RunLength(w) \in DOMAIN w.ahead
               /\ Drained(w).ahead[d] = w.ahead[d + RunLength(w)]
         /\ \A x \in DOMAIN w.ahead :
               x \in 0..(RunLength(w) - 1) \/ x - RunLength(w) \in DOMAIN Drained(w).ahead
<1> DEFINE n == RunLength(w)
           D == {x - n : x \in {y \in DOMAIN w.ahead \ {} : y >= n}}
           ahead == [d \in D |-> w.ahead[d + n]]
           start == (w.start + n) % OrderCount
<1>1. n \in Nat /\ n \notin DOMAIN w.ahead
  BY RunLengthIs
<1>2. DOMAIN w.ahead \in SUBSET Nat /\ IsFiniteSet(DOMAIN w.ahead) /\ w.start \in Nat
      /\ w.ahead \in [DOMAIN w.ahead -> Packet]
  BY WindowFields
<1>3. Drained(w) = [start |-> start, ahead |-> ahead]
  BY DEF Drained, Advance
<1> HIDE DEF n
<1>4. \A d \in D : d \in Nat /\ d # 0 /\ d + n \in DOMAIN w.ahead
  BY <1>1, <1>2
<1>5. \A x \in DOMAIN w.ahead : x \in 0..(n - 1) \/ x - n \in D
  BY <1>1, <1>2
<1>6. start \in 0..(OrderCount - 1)
  <2>1. w.start + n \in Nat /\ OrderCount \in Nat \ {0}
    BY <1>1, <1>2, OrderCountAssumption
  <2> QED
    BY ONLY <2>1, ModRange
<1> HIDE DEF D, start
<1>7. ahead \in [D -> Packet] /\ D \in SUBSET Nat /\ DOMAIN ahead = D
  BY <1>2, <1>4
<1>8. IsFiniteSet(D)
  <2> DEFINE g == [d \in D |-> d + n]
  <2>1. g \in Injection(D, DOMAIN w.ahead)
    BY <1>1, <1>4 DEF Injection, IsInjective
  <2> QED
    BY <1>2, <2>1, FS_Injection
<1>9. \A d \in D : ahead[d] = w.ahead[d + n]
  OBVIOUS
<1> HIDE DEF ahead
<1>10. Drained(w) \in Windows
  BY <1>3, <1>6, <1>7, <1>8, WindowIs
<1>11. Drained(w).start = start /\ Drained(w).ahead = ahead
  BY <1>3
<1> QED
  BY <1>4, <1>5, <1>7, <1>9, <1>10, <1>11 DEF n, start

\* A packet put into a window stands at its distance from the start.
LEMMA PutFields ==
  ASSUME NEW w \in Windows, NEW order \in Nat, NEW p \in Packet
  PROVE  LET d == Distance(w, order) IN
         /\ d \in 0..(OrderCount - 1)
         /\ Put(w, order, p) \in Windows
         /\ Put(w, order, p).start = w.start
         /\ DOMAIN Put(w, order, p).ahead = DOMAIN w.ahead \cup {d}
         /\ Put(w, order, p).ahead[d] = p
         /\ \A x \in DOMAIN w.ahead : x # d => Put(w, order, p).ahead[x] = w.ahead[x]
<1> DEFINE d == Distance(w, order)
           D == DOMAIN w.ahead \cup {d}
           ahead == [x \in D |-> IF x = d THEN p ELSE w.ahead[x]]
<1>1. /\ DOMAIN w.ahead \in SUBSET Nat /\ IsFiniteSet(DOMAIN w.ahead)
      /\ w.start \in 0..(OrderCount - 1)
      /\ w.ahead \in [DOMAIN w.ahead -> Packet] /\ w = [start |-> w.start, ahead |-> w.ahead]
  BY WindowFields
<1>2. order + OrderCount - w.start \in Nat
  BY <1>1, OrderCountAssumption
<1>3. d \in 0..(OrderCount - 1) /\ d \in Nat
  <2> DEFINE a == order + OrderCount - w.start
  <2>1. d = a % OrderCount
    BY DEF Distance
  <2>2. a \in Nat /\ OrderCount \in Nat \ {0}
    BY <1>2, OrderCountAssumption
  <2> HIDE DEF a, d
  <2>3. a % OrderCount \in 0..(OrderCount - 1)
    BY <2>2, ModRange
  <2> QED
    BY <2>1, <2>2, <2>3
<1>4. Put(w, order, p) = [w EXCEPT !.ahead = ahead]
  BY DEF Put
<1> HIDE DEF d
<1>5. D \in SUBSET Nat /\ IsFiniteSet(D)
  BY <1>1, <1>3, FS_AddElement
<1>6. ahead \in [D -> Packet] /\ DOMAIN ahead = D /\ ahead[d] = p
      /\ \A x \in DOMAIN w.ahead : x # d => ahead[x] = w.ahead[x]
  BY <1>1
<1> HIDE DEF D, ahead
<1>7. Put(w, order, p) = [start |-> w.start, ahead |-> ahead]
  BY <1>1, <1>4
<1>8. Put(w, order, p) \in Windows
  BY <1>1, <1>5, <1>6, <1>7, WindowIs
<1>9. Put(w, order, p).start = w.start /\ Put(w, order, p).ahead = ahead
  BY <1>7
<1> QED
  BY <1>3, <1>6, <1>8, <1>9 DEF d, D

LEMMA PutAhead ==
  ASSUME NEW w \in Windows, NEW order \in Nat, NEW p \in Packet
  PROVE  /\ Put(w, order, p) \in Windows
         /\ DOMAIN Put(w, order, p).ahead = DOMAIN w.ahead \cup {Distance(w, order)}
         /\ Put(w, order, p).ahead[Distance(w, order)] = p
         /\ \A x \in DOMAIN w.ahead :
               x # Distance(w, order) => Put(w, order, p).ahead[x] = w.ahead[x]
  BY PutFields

\* Distances do not wrap around between the start and an order after it.
LEMMA DistanceAhead ==
  ASSUME NEW w \in Windows, NEW order \in Nat, w.start <= order, order < OrderCount
  PROVE  Distance(w, order) = order - w.start
<1>1. w.start \in Nat /\ OrderCount \in Nat \ {0}
  BY WindowFields, OrderCountAssumption
<1>2. order + OrderCount - w.start \in OrderCount..(2 * OrderCount - 1)
  BY <1>1
<1>3. (order + OrderCount - w.start) % OrderCount = order + OrderCount - w.start - OrderCount
  BY <1>1, <1>2, ModOnce
<1> QED
  BY <1>1, <1>3 DEF Distance
-----------------------------------------------------------------------------
(* Steps that hand nothing over *)

LEMMA ConnectionFields ==
  ASSUME NEW c \in Connections
  PROVE  /\ c.phase \in {"Absent", "Registration", "Transfer"}
         /\ c.received_last \in BOOLEAN /\ c.alive \in BOOLEAN
         /\ c.last_key \in Nat /\ c.next_key \in Nat /\ c.count \in Nat
         /\ c.resender \in SUBSET Nat /\ c.seen \in SUBSET Nat /\ c.acks \in SUBSET Nat
         /\ c.orders \in [Ids -> 0..(WireOrders - 1)] /\ c.orderers \in [Ids -> Orderer]
         /\ c.remote \in Seq(Channel) /\ c.inbox \in [AppChannel -> Seq(Nat)]
         /\ c.sent \in SUBSET Packet
  BY DEF Connections

\* What a step leaves that hands nothing over and does not change the phase.
Quiet(c, d) ==
    /\ d.phase = c.phase /\ d.received_last = c.received_last
    /\ d.orderers = c.orderers /\ d.remote = c.remote /\ d.inbox = c.inbox
    /\ d.alive = c.alive
    /\ c.seen \subseteq d.seen

LEMMA QuietKeeps ==
  ASSUME NEW f, NEW q, NEW c, NEW d, Quiet(c, d)
  PROVE  /\ Handshake(f, c) => Handshake(f, d)
         /\ Once(f, c) => Once(f, d)
         /\ Delivery(c, q) => Delivery(d, q)
         /\ Waiting(f, c, q) => Waiting(f, d, q)
<1>1. ASSUME Handshake(f, c) PROVE Handshake(f, d)
  <2>1. ASSUME NEW w, Registering(f, c, w) PROVE Registering(f, d, w)
    BY <2>1 DEF Registering, Quiet
  <2> QED
    BY <1>1, <2>1 DEF Handshake, Quiet
<1>2. Once(f, c) => Once(f, d)
  BY DEF Once, Quiet, Ahead
<1>3. ASSUME NEW channel, NEW p, Taken(c, q, channel, p) PROVE Taken(d, q, channel, p)
  BY <1>3 DEF Taken, Quiet
<1>4. Delivery(c, q) => Delivery(d, q)
  BY <1>3 DEF Delivery, Quiet
<1>5. Waiting(f, c, q) => Waiting(f, d, q)
  BY <1>3 DEF Waiting, Quiet, Ahead
<1> QED
  BY <1>1, <1>2, <1>4, <1>5

\* The peer's side of the link survives whatever the connection grows by.
LEMMA GrowsKeeps ==
  ASSUME NEW e \in Endpoint, NEW q, NEW c, NEW d, Grows(c, d), Link(e, q, c)
  PROVE  Link(e, q, d)
<1>1. LastArrived(e, q, d)
  BY DEF Link, LastArrived, Grows
<1>2. ASSUME NEW channel, NEW p, Taken(q, c, channel, p) PROVE Taken(q, d, channel, p)
  BY <1>2 DEF Taken, Grows
<1>3. Delivery(q, d)
  BY <1>2 DEF Link, Delivery, Grows
<1>4. Waiting(Peer(e), q, d)
  BY <1>2 DEF Link, Waiting
<1> QED
  BY <1>1, <1>3, <1>4 DEF Link

LEMMA GrowsOnwards ==
  ASSUME NEW c, NEW d, NEW g, Grows(c, d), Grows(d, g)
  PROVE  Grows(c, g)
  BY DEF Grows

LEMMA GrowsSame ==
  ASSUME NEW c
  PROVE  Grows(c, c) /\ Quiet(c, c)
  BY DEF Grows, Quiet

\* A packet that an endpoint could send it could also have sent later.
LEMMA SendableLater ==
  ASSUME NEW e, NEW c, NEW d, NEW p, Sendable(e, c, p),
         c.phase = "Transfer" => d.phase = "Transfer"
  PROVE  Sendable(e, d, p)
  BY DEF Sendable

\* Which packets they are, by their ids.
LEMMA SendableById ==
  ASSUME NEW e \in Endpoint, NEW c, NEW p, Sendable(e, c, p)
  PROVE  /\ p.id = MgmtStage => IsRegistration(e, p)
         /\ p.id = AckStage => IsAck(AckStage, p)
         /\ p.id \notin StageIds =>
               c.phase = "Transfer" /\ (IsAck(LocalId(e, Ack), p) \/ IsMessage(e, p))
         /\ p.id \in StageIds => p.on = Nameless
         /\ p.id \in StageIds \cup 0..(Count(e) - 1)
<1>1. IsRegistration(e, p) => p.id = MgmtStage /\ p.on = Nameless
  BY RegistrationFields DEF IsRegistration
<1>2. LocalId(e, Ack) \in 0..(Count(e) - 1)
  BY Names, LocalIds
<1>3. IsMessage(e, p) => p.id \in 0..(Count(e) - 1)
  BY LocalIds DEF IsMessage
<1> QED
  BY <1>1, <1>2, <1>3, Sizes DEF Sendable, IsAck, StageIds

\* In the registration phase nothing has arrived on the other channels.
LEMMA NothingAhead ==
  ASSUME NEW f \in Endpoint, NEW c, Handshake(f, c), c.phase = "Registration",
         NEW channel \in AppChannel
  PROVE  /\ c.inbox[channel] = <<>>
         /\ channel \in Channels(f) => DOMAIN Ahead(f, c, channel) = {}
<1>1. c.inbox[channel] = <<>>
  BY DEF Handshake
<1>2. ASSUME channel \in Channels(f) PROVE DOMAIN Ahead(f, c, channel) = {}
  <2>1. LocalId(f, channel) \in Ids \ {MgmtStage}
    BY <1>2, LocalIds, Sizes
  <2>2. c.orderers[LocalId(f, channel)] \in {NoOrderer, NewOrderer}
    BY <2>1 DEF Handshake
  <2> QED
    BY <2>2, EmptyIsWindow DEF Ahead
<1> QED
  BY <1>1, <1>2

LEMMA TransferFields ==
  ASSUME NEW c \in Connections
  PROVE  LET d == Transfer(c) IN
         /\ d \in Connections /\ d.phase = "Transfer" /\ d.received_last = FALSE
         /\ d.last_key = NoKey /\ d.acks = {} /\ d.seen = {} /\ d.resender = {}
         /\ d.next_key = c.next_key /\ d.orders = c.orders /\ d.orderers = c.orderers
         /\ d.remote = c.remote /\ d.inbox = c.inbox /\ d.alive = c.alive
         /\ d.count = c.count /\ d.sent = c.sent
  BY DEF Transfer, Connections, NoKey

\* The end of the registration phase, for either reason that the code has.
LEMMA TransferKeeps ==
  ASSUME NEW e \in Endpoint, NEW c, NEW q, Own(e, c), Link(e, c, q),
         c.phase = "Registration", c.received_last,
         c.last_key = NoKey \/ q.phase = "Transfer"
  PROVE  LET d == Transfer(c) IN Own(e, d) /\ Link(e, d, q) /\ Grows(c, d)
<1> DEFINE d == Transfer(c)
           f == Peer(e)
<1>0. f \in Endpoint
  BY Peers
<1>1. c \in Connections /\ Typed(e, c) /\ Sent(e, c) /\ Unique(c) /\ Phases(e, c)
      /\ Handshake(f, c) /\ Once(f, c)
  BY DEF Own, Typed
<1>2. /\ d \in Connections /\ d.phase = "Transfer" /\ d.received_last = FALSE
      /\ d.last_key = NoKey /\ d.acks = {} /\ d.seen = {} /\ d.resender = {}
      /\ d.next_key = c.next_key /\ d.orders = c.orders /\ d.orderers = c.orderers
      /\ d.remote = c.remote /\ d.inbox = c.inbox /\ d.alive = c.alive
      /\ d.count = c.count /\ d.sent = c.sent
  BY <1>1, TransferFields
<1> HIDE DEF d, f
<1>3. Typed(e, d)
  <2>1. IsFiniteSet({}) /\ Cardinality({}) = 0
    BY FS_EmptySet
  <2> QED
    BY <1>1, <1>2, <2>1, Sizes, ConnectionFields DEF Typed, NoKey
<1>4. Sent(e, d)
  <2>1. ASSUME NEW p \in c.sent
        PROVE  Sendable(e, d, p) /\ p.id # LocalId(e, Ack)
    <3>1. Sendable(e, c, p)
      BY <1>1 DEF Sent
    <3>2. p.id \in StageIds
      BY <3>1, SendableById
    <3>3. LocalId(e, Ack) \in 0..(Count(e) - 1)
      BY Names, LocalIds
    <3>4. p.id # LocalId(e, Ack)
      BY <3>2, <3>3, Sizes DEF StageIds
    <3> QED
      BY <1>2, <3>1, <3>4, SendableLater
  <2> QED
    BY <1>1, <1>2, <2>1 DEF Sent
<1>5. Unique(d)
  BY <1>1, <1>2 DEF Unique
<1>6. Phases(e, d)
  BY <1>2 DEF Phases
<1>7. Handshake(f, d)
  <2>1. Registering(f, c, c.orderers[MgmtStage].window)
    BY <1>1 DEF Handshake
  <2>2. Len(c.remote) = Count(f)
    BY <2>1, <1>0, Sizes DEF Registering
  <2>3. c.remote \in Seq(Channel) /\ Registry[f] \in Seq(Channel) /\ Len(Registry[f]) = Count(f)
        /\ \A i \in 1..Len(c.remote) : c.remote[i] = Registry[f][i]
    BY <1>0, <1>1, Sizes, ConnectionFields DEF Handshake, Count
  <2>4. c.remote = Registry[f]
    BY <2>2, <2>3
  <2> QED
    BY <1>0, <1>1, <1>2, <2>4 DEF Handshake
<1>8. Once(f, d)
  BY <1>1, <1>2 DEF Once, Ahead
<1>9. LastArrived(e, d, q)
  BY <1>2 DEF LastArrived, Link
<1>10. Delivery(d, q)
  BY <1>0, <1>1, <1>2, NothingAhead DEF Delivery
<1>11. Waiting(f, d, q)
  <2>1. \A channel : Ahead(f, d, channel) = Ahead(f, c, channel)
    BY <1>2 DEF Ahead
  <2> QED
    BY <1>0, <1>1, <2>1, NothingAhead DEF Waiting
<1>12. Grows(c, d)
  BY <1>2 DEF Grows
<1>13. Own(e, d) /\ Link(e, d, q)
  BY <1>3, <1>4, <1>5, <1>6, <1>7, <1>8, <1>9, <1>10, <1>11 DEF Own, Link, f
<1> QED
  BY <1>12, <1>13 DEF d

\* One more packet in the network.
LEMMA PostKeeps ==
  ASSUME NEW e \in Endpoint, NEW c, NEW q, Own(e, c), Link(e, c, q), c.phase # "Absent",
         NEW d \in Connections, NEW p \in Packet, Quiet(c, d), d.seen = c.seen,
         d.last_key = c.last_key, d.acks \subseteq c.acks, d.sent = c.sent \cup {p},
         Sendable(e, d, p), p.acked \subseteq c.seen,
         \/ /\ p.key = c.next_key + 1 /\ d.next_key = p.key
            /\ d.resender = c.resender \cup {p.key} /\ ~Full(c)
         \/ p.key = NoKey /\ d.next_key = c.next_key /\ d.resender = c.resender,
         \/ p.msg = 0 /\ d.count = c.count
         \/ p.msg = c.count + 1 /\ d.count = p.msg /\ d.count <= MaxMessages[e]
  PROVE  Own(e, d) /\ Link(e, d, q) /\ Grows(c, d)
<1>1. c \in Connections /\ Typed(e, c) /\ Sent(e, c) /\ Unique(c) /\ Phases(e, c)
  BY DEF Own, Typed
<1>2. c.next_key \in Nat /\ c.last_key \in Nat /\ c.count \in Nat /\ d.next_key \in Nat
      /\ p.key \in Nat /\ p.msg \in Nat
  BY <1>1, ConnectionFields DEF Packet
<1>3. c.next_key <= d.next_key /\ c.count <= d.count /\ p.key <= d.next_key /\ p.msg <= d.count
  BY <1>2 DEF NoKey
<1>4. Typed(e, d)
  <2>1. IsFiniteSet(c.resender)
    <3>1. IsFiniteSet(1..c.next_key)
      <4>1. \A n \in Nat : IsFiniteSet(1..n)
        BY FS_Interval
      <4> QED
        BY <1>2, <4>1
    <3>2. c.resender \in SUBSET (1..c.next_key)
      BY <1>1 DEF Typed
    <3> QED
      BY <3>1, <3>2, FS_Subset
  <2>2. Cardinality(d.resender) <= Capacity /\ d.resender \subseteq 1..d.next_key
    <3>1. CASE d.resender = c.resender
      BY <1>1, <1>2, <1>3, <3>1 DEF Typed
    <3>2. CASE d.resender = c.resender \cup {p.key} /\ p.key = c.next_key + 1 /\ ~Full(c)
               /\ d.next_key = p.key
      <4>1. Cardinality(d.resender) <= Cardinality(c.resender) + 1
            /\ Cardinality(c.resender) \in Nat
        <5>1. Cardinality(c.resender) \in Nat
          BY <2>1, FS_CardinalityType
        <5>2. Cardinality(c.resender \cup {p.key}) =
                 IF p.key \in c.resender THEN Cardinality(c.resender) ELSE Cardinality(c.resender) + 1
          BY <2>1, FS_AddElement
        <5> QED
          BY <3>2, <5>1, <5>2
      <4>2. Cardinality(c.resender) # Capacity /\ Cardinality(c.resender) <= Capacity
            /\ Capacity \in Nat
        BY <1>1, <3>2, Sizes DEF Full, Typed
      <4>3. Cardinality(d.resender) <= Capacity
        <5>1. Cardinality(d.resender) \in Nat
          BY <2>1, <3>2, FS_AddElement, FS_CardinalityType
        <5> QED
          BY <4>1, <4>2, <5>1
      <4> QED
        BY <1>1, <1>2, <3>2, <4>3 DEF Typed
    <3> QED
      BY <3>1, <3>2
  <2>3. IsFiniteSet(d.acks) /\ Cardinality(d.acks) <= AckLimit
    <3>1. IsFiniteSet(d.acks) /\ Cardinality(d.acks) <= Cardinality(c.acks)
      BY <1>1, FS_Subset DEF Typed
    <3>2. Cardinality(d.acks) \in Nat /\ Cardinality(c.acks) \in Nat /\ AckLimit \in Nat
          /\ Cardinality(c.acks) <= AckLimit
      BY <1>1, <3>1, FS_CardinalityType, Sizes DEF Typed
    <3> QED
      BY <3>1, <3>2
  <2>4. d.count <= MaxMessages[e] /\ d.last_key <= d.next_key
    BY <1>1, <1>2, <1>3 DEF Typed
  <2> QED
    BY <2>2, <2>3, <2>4 DEF Typed
<1>5. Sent(e, d)
  <2>1. ASSUME NEW r \in c.sent PROVE Sendable(e, d, r) /\ r.key <= d.next_key /\ r.msg <= d.count
    <3>1. r.key \in Nat /\ r.msg \in Nat
      BY <1>1, ConnectionFields DEF Packet
    <3>2. Sendable(e, c, r) /\ r.key <= c.next_key /\ r.msg <= c.count
      BY <1>1 DEF Sent
    <3>3. Sendable(e, d, r)
      BY <3>2, SendableLater DEF Quiet
    <3> QED
      BY <1>2, <1>3, <3>1, <3>2, <3>3
  <2>2. ASSUME NEW r \in d.sent
        PROVE  /\ r.id = AckStage /\ d.phase # "Transfer" => r.acked \subseteq d.seen
               /\ r.id = LocalId(e, Ack) => r.acked \subseteq d.seen
    BY <1>1 DEF Sent, Quiet
  <2> QED
    BY <1>3, <2>1, <2>2 DEF Sent
<1>6. Unique(d)
  <2>1. ASSUME NEW r \in c.sent
        PROVE  /\ r.key = p.key => p.key = NoKey
               /\ r.msg = p.msg => p.msg = 0
    <3>1. r.key \in Nat /\ r.msg \in Nat /\ r.key <= c.next_key /\ r.msg <= c.count
      BY <1>1, ConnectionFields DEF Packet, Sent
    <3> QED
      BY <1>2, <3>1
  <2> QED
    BY <1>1, <2>1 DEF Unique
<1>7. Phases(e, d)
  BY <1>1 DEF Phases, Quiet
<1>8. LastArrived(e, d, q)
  BY DEF LastArrived, Link, Quiet
<1>9. Own(e, d) /\ Link(e, d, q)
  BY <1>4, <1>5, <1>6, <1>7, <1>8, QuietKeeps DEF Own, Link
<1> QED
  BY <1>9 DEF Grows, Quiet

\* A packet with what a caller of send_packet() puts into it.
Carries(p, id, body) ==
    /\ p.id = id /\ p.name = body.name /\ p.acked = body.acked
    /\ p.msg = body.msg /\ p.on = body.on

\* What send_packet() makes of a connection c.
Posts(c, d, id, channel, body) ==
    /\ d \in Connections /\ Quiet(c, d) /\ d.seen = c.seen /\ d.last_key = c.last_key
    /\ d.acks = c.acks /\ d.count = c.count
    /\ \A i \in Ids : d.orders[i] = IF channel \in Ordered /\ i = id
                                    THEN (c.orders[i] + 1) % WireOrders ELSE c.orders[i]
    /\ \/ /\ channel \in Reliable /\ Full(c)
          /\ d.sent = c.sent /\ d.resender = c.resender /\ d.next_key = c.next_key
       \/ \E p \in Packet :
             /\ Carries(p, id, body)
             /\ p.order = IF channel \in Ordered THEN c.orders[id] ELSE 0
             /\ d.sent = c.sent \cup {p}
             /\ \/ /\ channel \in Reliable /\ ~Full(c)
                   /\ p.key = c.next_key + 1 /\ d.next_key = p.key
                   /\ d.resender = c.resender \cup {p.key}
                \/ /\ channel \notin Reliable /\ p.key = body.key
                   /\ d.next_key = c.next_key /\ d.resender = c.resender

LEMMA SendPacketFields ==
  ASSUME NEW c \in Connections, NEW id \in Ids, NEW channel, NEW body \in Packet
  PROVE  Posts(c, SendPacket(c, id, channel, body), id, channel, body)
<1> DEFINE ordered == channel \in Ordered
           counted == [c EXCEPT !.orders[id] = IF ordered THEN (@ + 1) % WireOrders ELSE @]
           plain   == [body EXCEPT !.id = id, !.order = IF ordered THEN c.orders[id] ELSE 0]
           keyed   == [plain EXCEPT !.key = c.next_key + 1]
           d       == SendPacket(c, id, channel, body)
<1>1. PICK e \in Endpoint : TRUE
  BY ConnectionAssumption
<1>2. c.next_key \in Nat /\ c.orders \in [Ids -> 0..(WireOrders - 1)] /\ WireOrders \in Nat \ {0}
  BY <1>1, Sizes, ConnectionFields
<1>3. (c.orders[id] + 1) % WireOrders \in 0..(WireOrders - 1)
  <2>1. c.orders[id] + 1 \in Nat
    BY <1>2
  <2> QED
    BY <1>2, <2>1, ModRange
<1>4. d = IF channel \notin Reliable THEN [counted EXCEPT !.sent = @ \cup {plain}]
          ELSE IF Full(c) THEN counted
          ELSE [counted EXCEPT !.sent     = @ \cup {keyed},
                               !.resender = @ \cup {keyed.key},
                               !.next_key = keyed.key]
  BY DEF SendPacket
<1>5. DEFINE order == IF ordered THEN c.orders[id] ELSE 0
<1>6. order \in Nat
  BY <1>2
<1>7. /\ plain \in Packet /\ Carries(plain, id, body) /\ plain.order = order
      /\ plain.key = body.key
  <2>1. plain = [body EXCEPT !.id = id, !.order = order]
    OBVIOUS
  <2> HIDE DEF plain, order
  <2> QED
    BY <1>6, <2>1 DEF Packet, Carries
<1>8. /\ keyed \in Packet /\ Carries(keyed, id, body) /\ keyed.order = order
      /\ keyed.key = c.next_key + 1
  <2> HIDE DEF plain, order
  <2> QED
    BY <1>2, <1>7 DEF Packet, Carries
<1>9. /\ counted \in Connections /\ Quiet(c, counted) /\ counted.seen = c.seen
      /\ counted.last_key = c.last_key /\ counted.acks = c.acks /\ counted.count = c.count
      /\ counted.sent = c.sent /\ counted.resender = c.resender /\ counted.next_key = c.next_key
      /\ \A i \in Ids : counted.orders[i] = IF channel \in Ordered /\ i = id
                                      THEN (c.orders[i] + 1) % WireOrders ELSE c.orders[i]
  <2> DEFINE orders == [c.orders EXCEPT ![id] = IF ordered THEN (@ + 1) % WireOrders ELSE @]
  <2>1. orders \in [Ids -> 0..(WireOrders - 1)]
    BY <1>2, <1>3
  <2>2. counted = [c EXCEPT !.orders = orders]
    BY DEF Connections
  <2>3. \A i \in Ids : orders[i] = IF channel \in Ordered /\ i = id
                                   THEN (c.orders[i] + 1) % WireOrders ELSE c.orders[i]
    BY <1>2
  <2> HIDE DEF orders, counted
  <2> QED
    BY <2>1, <2>2, <2>3 DEF Connections, Quiet
<1> HIDE DEF plain, keyed, counted, d, order
<1>10. CASE channel \notin Reliable
  <2>1. d = [counted EXCEPT !.sent = @ \cup {plain}]
    BY <1>4, <1>10
  <2>2. /\ d \in Connections /\ Quiet(counted, d) /\ d.seen = counted.seen
        /\ d.last_key = counted.last_key /\ d.acks = counted.acks /\ d.count = counted.count
        /\ d.sent = counted.sent \cup {plain} /\ d.orders = counted.orders
        /\ d.resender = counted.resender /\ d.next_key = counted.next_key
    BY <1>7, <1>9, <2>1 DEF Connections, Quiet
  <2>3. Quiet(c, d)
    BY <1>9, <2>2 DEF Quiet
  <2> QED
    BY <1>7, <1>9, <1>10, <2>2, <2>3 DEF d, order, Posts
<1>11. CASE channel \in Reliable /\ Full(c)
  BY <1>4, <1>9, <1>11 DEF d, Posts
<1>12. CASE channel \in Reliable /\ ~Full(c)
  <2>1. d = [counted EXCEPT !.sent     = @ \cup {keyed},
                            !.resender = @ \cup {keyed.key},
                            !.next_key = keyed.key]
    BY <1>4, <1>12
  <2>2. keyed.key \in Nat
    BY <1>2, <1>8
  <2>3. /\ d \in Connections /\ Quiet(counted, d) /\ d.seen = counted.seen
        /\ d.last_key = counted.last_key /\ d.acks = counted.acks /\ d.count = counted.count
        /\ d.sent = counted.sent \cup {keyed} /\ d.orders = counted.orders
        /\ d.resender = counted.resender \cup {keyed.key} /\ d.next_key = keyed.key
    BY <1>8, <1>9, <2>1, <2>2 DEF Connections, Quiet
  <2>4. Quiet(c, d)
    BY <1>9, <2>3 DEF Quiet
  <2> QED
    BY <1>8, <1>9, <1>12, <2>3, <2>4 DEF d, order, Posts
<1> QED
  BY <1>10, <1>11, <1>12

\* A quiet step that sends nothing but acknowledgements.
Answers(c, d) ==
    /\ Quiet(c, d) /\ d.count = c.count /\ d.orders = c.orders /\ d.last_key = c.last_key
    /\ c.resender \subseteq d.resender /\ c.sent \subseteq d.sent
    /\ \A p \in d.sent \ c.sent : p.on = Nameless

LEMMA FlushKeeps ==
  ASSUME NEW e \in Endpoint, NEW c, NEW q, Own(e, c), Link(e, c, q), c.phase # "Absent"
  PROVE  LET d == Flush(e, c) IN
         /\ Own(e, d) /\ Link(e, d, q) /\ Grows(c, d) /\ Answers(c, d) /\ d.seen = c.seen
         /\ ~Full(c) => d.acks = {}
<1> DEFINE id   == IF c.phase = "Transfer" THEN LocalId(e, Ack) ELSE AckStage
           body == [Blank EXCEPT !.acked = c.acks]
           g    == SendPacket(c, id, Ack, body)
           d    == Flush(e, c)
<1>1. c \in Connections /\ c.acks \subseteq c.seen /\ c.acks \in SUBSET Nat
  BY ConnectionFields DEF Own, Typed, Phases
<1>2. id \in Ids /\ (c.phase = "Transfer" => id = LocalId(e, Ack))
      /\ (c.phase # "Transfer" => id = AckStage)
  BY Names, LocalIds, Sizes
<1>3. body \in Packet /\ body.acked = c.acks /\ body.msg = 0 /\ body.on = Nameless
  BY <1>1, BlankFields DEF Packet
<1>4. CASE Full(c)
  <2>1. d = c
    BY <1>4 DEF Flush
  <2>2. Answers(c, c)
    BY GrowsSame DEF Answers
  <2> QED
    BY <1>4, <2>1, <2>2, GrowsSame
<1>5. CASE ~Full(c)
  <2>1. d = [g EXCEPT !.acks = {}]
    BY <1>5 DEF Flush
  <2> HIDE DEF id, body, g
  <2>2. /\ g \in Connections /\ Quiet(c, g) /\ g.seen = c.seen /\ g.last_key = c.last_key
        /\ g.acks = c.acks /\ g.count = c.count
        /\ \A i \in Ids : g.orders[i] = IF Ack \in Ordered /\ i = id
                                         THEN (c.orders[i] + 1) % WireOrders ELSE c.orders[i]
        /\ \E p \in Packet :
              /\ Carries(p, id, body)
              /\ g.sent = c.sent \cup {p}
              /\ \/ /\ ~Full(c) /\ p.key = c.next_key + 1 /\ g.next_key = p.key
                    /\ g.resender = c.resender \cup {p.key}
    <3>1. c \in Connections /\ id \in Ids /\ body \in Packet /\ Ack \in Reliable
      BY <1>1, <1>2, <1>3, Names
    <3>2. Posts(c, g, id, Ack, body)
      BY ONLY <3>1, SendPacketFields DEF g
    <3> QED
      BY ONLY <1>5, <3>1, <3>2 DEF Posts
  <2>3. PICK p \in Packet :
              /\ Carries(p, id, body)
              /\ g.sent = c.sent \cup {p}
              /\ ~Full(c) /\ p.key = c.next_key + 1 /\ g.next_key = p.key
              /\ g.resender = c.resender \cup {p.key}
    BY <2>2
  <2>4. g.orders = c.orders
    <3>1. g.orders \in [Ids -> 0..(WireOrders - 1)] /\ c.orders \in [Ids -> 0..(WireOrders - 1)]
      BY <1>1, <2>2, ConnectionFields
    <3>2. \A i \in Ids : g.orders[i] = c.orders[i]
      BY <2>2, Names
    <3> QED
      BY <3>1, <3>2
  <2>5. /\ d \in Connections /\ Quiet(g, d) /\ d.seen = g.seen /\ d.last_key = g.last_key
        /\ d.acks = {} /\ d.count = g.count /\ d.orders = g.orders /\ d.sent = g.sent
        /\ d.next_key = g.next_key /\ d.resender = g.resender
    BY <2>1, <2>2 DEF Connections, Quiet
  <2>6. Quiet(c, d)
    BY <2>2, <2>5 DEF Quiet
  <2> HIDE DEF d
  <2>7. p.acked = c.acks /\ p.msg = 0 /\ p.on = Nameless /\ p.id = id
    BY <1>3, <2>3 DEF Carries
  <2>8. Sendable(e, d, p)
    BY <1>2, <2>6, <2>7 DEF Sendable, IsAck, Quiet
  <2>9. Own(e, d) /\ Link(e, d, q) /\ Grows(c, d)
    BY <1>1, <2>2, <2>3, <2>5, <2>6, <2>7, <2>8, PostKeeps
  <2>10. Answers(c, d)
    BY <2>2, <2>3, <2>4, <2>5, <2>6, <2>7 DEF Answers
  <2> QED
    BY <2>2, <2>5, <2>9, <2>10 DEF d
<1> QED
  BY <1>4, <1>5

LEMMA AnswersOnwards ==
  ASSUME NEW c, NEW d, NEW g, Answers(c, d), Answers(d, g)
  PROVE  Answers(c, g)
  BY DEF Answers, Quiet

\* A key is acknowledged while there is room for it.
LEMMA AckAdded ==
  ASSUME NEW e \in Endpoint, NEW c, NEW q, Own(e, c), Link(e, c, q), c.phase # "Absent",
         NEW key \in c.seen, Cardinality(c.acks) < AckLimit
  PROVE  LET d == [c EXCEPT !.acks = @ \cup {key}] IN
         Own(e, d) /\ Link(e, d, q) /\ Grows(c, d) /\ Answers(c, d) /\ d.seen = c.seen
<1> DEFINE d == [c EXCEPT !.acks = @ \cup {key}]
<1>1. c \in Connections /\ Typed(e, c) /\ Sent(e, c) /\ Unique(c) /\ Phases(e, c)
  BY DEF Own, Typed
<1>2. key \in Nat
  BY <1>1, ConnectionFields
<1>3. /\ d \in Connections /\ Quiet(c, d) /\ d.seen = c.seen /\ d.last_key = c.last_key
      /\ d.acks = c.acks \cup {key} /\ d.count = c.count /\ d.orders = c.orders
      /\ d.sent = c.sent /\ d.next_key = c.next_key /\ d.resender = c.resender
  BY <1>1, <1>2 DEF Connections, Quiet
<1> HIDE DEF d
<1>4. Typed(e, d)
  <2>1. IsFiniteSet(c.acks)
    BY <1>1 DEF Typed
  <2>2. Cardinality(c.acks) \in Nat
    BY <2>1, FS_CardinalityType
  <2>3. /\ IsFiniteSet(c.acks \cup {key})
        /\ Cardinality(c.acks \cup {key}) =
              IF key \in c.acks THEN Cardinality(c.acks) ELSE Cardinality(c.acks) + 1
    BY <2>1, FS_AddElement
  <2>4. Cardinality(c.acks \cup {key}) <= AckLimit
    BY <2>2, <2>3, Sizes
  <2> QED
    BY <1>1, <1>3, <2>3, <2>4 DEF Typed
<1>5. Sent(e, d)
  <2>1. \A p \in c.sent : Sendable(e, d, p)
    BY <1>1, <1>3, SendableLater DEF Sent, Quiet
  <2> QED
    BY <1>1, <1>3, <2>1 DEF Sent, Quiet
<1>6. Unique(d)
  BY <1>1, <1>3 DEF Unique
<1>7. Phases(e, d)
  BY <1>1, <1>3 DEF Phases, Quiet
<1>8. LastArrived(e, d, q)
  BY <1>3 DEF LastArrived, Link, Quiet
<1>9. Own(e, d) /\ Link(e, d, q)
  BY <1>3, <1>4, <1>5, <1>6, <1>7, <1>8, QuietKeeps DEF Own, Link
<1>10. Grows(c, d) /\ Answers(c, d)
  BY <1>3 DEF Grows, Answers, Quiet
<1> QED
  BY <1>3, <1>9, <1>10 DEF d

LEMMA AcknowledgeKeeps ==
  ASSUME NEW e \in Endpoint, NEW c, NEW q, Own(e, c), Link(e, c, q), c.phase # "Absent",
         NEW key \in c.seen, CanAcknowledge(c)
  PROVE  LET d == Acknowledge(e, c, key) IN
         Own(e, d) /\ Link(e, d, q) /\ Grows(c, d) /\ Answers(c, d) /\ d.seen = c.seen
<1>1. CASE Cardinality(c.acks) < AckLimit
  BY <1>1, AckAdded DEF Acknowledge
<1>2. CASE ~(Cardinality(c.acks) < AckLimit)
  <2> DEFINE g == Flush(e, c)
             d == [g EXCEPT !.acks = @ \cup {key}]
  <2>1. Acknowledge(e, c, key) = d /\ ~Full(c)
    BY <1>2 DEF Acknowledge, CanAcknowledge
  <2>2. /\ Own(e, g) /\ Link(e, g, q) /\ Grows(c, g) /\ Answers(c, g) /\ g.seen = c.seen
        /\ g.acks = {}
    BY <2>1, FlushKeeps
  <2>3. Cardinality(g.acks) < AckLimit
    BY <2>2, FS_EmptySet, Sizes
  <2>4. g.phase # "Absent" /\ key \in g.seen
    BY <2>2 DEF Answers, Quiet
  <2> HIDE DEF g
  <2>5. Own(e, d) /\ Link(e, d, q) /\ Grows(g, d) /\ Answers(g, d) /\ d.seen = g.seen
    BY <2>2, <2>3, <2>4, AckAdded
  <2>6. Grows(c, d) /\ Answers(c, d)
    BY <2>2, <2>5, GrowsOnwards, AnswersOnwards
  <2> QED
    BY <2>1, <2>2, <2>5, <2>6
<1> QED
  BY <1>1, <1>2

\* A key is recorded as seen.
LEMMA MarkKeeps ==
  ASSUME NEW e \in Endpoint, NEW c, NEW q, Own(e, c), Link(e, c, q), c.phase # "Absent",
         NEW key \in Nat
  PROVE  LET d == [c EXCEPT !.seen = @ \cup {key}] IN
         /\ Own(e, d) /\ Link(e, d, q) /\ Grows(c, d) /\ Answers(c, d)
         /\ d.seen = c.seen \cup {key} /\ d.resender = c.resender /\ d.acks = c.acks
<1> DEFINE d == [c EXCEPT !.seen = @ \cup {key}]
<1>1. c \in Connections /\ Typed(e, c) /\ Sent(e, c) /\ Unique(c) /\ Phases(e, c)
  BY DEF Own, Typed
<1>2. /\ d \in Connections /\ Quiet(c, d) /\ d.seen = c.seen \cup {key} /\ d.last_key = c.last_key
      /\ d.acks = c.acks /\ d.count = c.count /\ d.orders = c.orders
      /\ d.sent = c.sent /\ d.next_key = c.next_key /\ d.resender = c.resender
  BY <1>1 DEF Connections, Quiet
<1> HIDE DEF d
<1>3. Typed(e, d)
  BY <1>1, <1>2 DEF Typed
<1>4. Sent(e, d)
  <2>1. \A p \in c.sent : Sendable(e, d, p)
    BY <1>1, <1>2, SendableLater DEF Sent, Quiet
  <2> QED
    BY <1>1, <1>2, <2>1 DEF Sent, Quiet
<1>5. Unique(d)
  BY <1>1, <1>2 DEF Unique
<1>6. Phases(e, d)
  BY <1>1, <1>2 DEF Phases, Quiet
<1>7. LastArrived(e, d, q)
  BY <1>2 DEF LastArrived, Link, Quiet
<1>8. Own(e, d) /\ Link(e, d, q)
  BY <1>2, <1>3, <1>4, <1>5, <1>6, <1>7, QuietKeeps DEF Own, Link
<1>9. Grows(c, d) /\ Answers(c, d)
  BY <1>2 DEF Grows, Answers, Quiet
<1> QED
  BY <1>2, <1>8, <1>9 DEF d

LEMMA AbsentFields ==
  /\ Absent \in Connections /\ Absent.phase = "Absent" /\ Absent.received_last = FALSE
  /\ Absent.last_key = NoKey /\ Absent.next_key = 0 /\ Absent.resender = {}
  /\ Absent.seen = {} /\ Absent.acks = {} /\ Absent.orders = [id \in Ids |-> 0]
  /\ Absent.orderers = [id \in Ids |-> NoOrderer] /\ Absent.remote = <<>>
  /\ Absent.inbox = [channel \in AppChannel |-> <<>>] /\ Absent.alive = TRUE
  /\ Absent.count = 0 /\ Absent.sent = {}
<1>1. [id \in Ids |-> NoOrderer] \in [Ids -> Orderer]
  BY EmptyIsWindow
<1>2. PICK e \in Endpoint : TRUE
  BY ConnectionAssumption
<1>3. [id \in Ids |-> 0] \in [Ids -> 0..(WireOrders - 1)]
  BY <1>2, Sizes
<1>4. [channel \in AppChannel |-> <<>>] \in [AppChannel -> Seq(Nat)]
  OBVIOUS
<1>5. <<>> \in Seq(Channel)
  OBVIOUS
<1> DEFINE orders   == [id \in Ids |-> 0]
           orderers == [id \in Ids |-> NoOrderer]
           inbox    == [channel \in AppChannel |-> <<>>]
           none     == <<>>
<1>6. Absent = [phase |-> "Absent", received_last |-> FALSE, last_key |-> NoKey, next_key |-> 0,
                resender |-> {}, seen |-> {}, acks |-> {}, orders |-> orders,
                orderers |-> orderers, remote |-> none, inbox |-> inbox, alive |-> TRUE,
                count |-> 0, sent |-> {}]
  BY DEF Absent
<1>7. /\ Absent.orders = orders /\ Absent.orderers = orderers /\ Absent.remote = none
      /\ Absent.inbox = inbox
  <2> HIDE DEF orders, orderers, inbox, none
  <2> QED
    BY <1>6
<1>8. /\ Absent.phase = "Absent" /\ Absent.received_last = FALSE
      /\ Absent.last_key = NoKey /\ Absent.next_key = 0 /\ Absent.resender = {}
      /\ Absent.seen = {} /\ Absent.acks = {} /\ Absent.alive = TRUE
      /\ Absent.count = 0 /\ Absent.sent = {}
  <2> HIDE DEF orders, orderers, inbox, none
  <2> QED
    BY <1>6
<1>9. Absent \in Connections
  <2>1. orders \in [Ids -> 0..(WireOrders - 1)] /\ orderers \in [Ids -> Orderer]
        /\ inbox \in [AppChannel -> Seq(Nat)] /\ none \in Seq(Channel)
    BY <1>1, <1>3, <1>4, <1>5
  <2> HIDE DEF orders, orderers, inbox, none
  <2> QED
    BY <1>6, <2>1 DEF Connections, NoKey
<1> QED
  BY <1>7, <1>8, <1>9

LEMMA AbsentIsOwn ==
  ASSUME NEW e \in Endpoint, NEW q
  PROVE  Own(e, Absent) /\ Link(e, Absent, q)
<1>1. Typed(e, Absent)
  <2>1. IsFiniteSet({}) /\ Cardinality({}) = 0
    BY FS_EmptySet
  <2> QED
    BY <2>1, AbsentFields, Sizes DEF Typed, NoKey
<1>2. Sent(e, Absent) /\ Unique(Absent) /\ Phases(e, Absent)
  BY AbsentFields DEF Sent, Unique, Phases
<1>3. Handshake(Peer(e), Absent)
  BY AbsentFields, Peers, Sizes DEF Handshake
<1>4. \A channel : channel \in AppChannel \cap Channels(Peer(e)) => DOMAIN Ahead(Peer(e), Absent, channel) = {}
  <2>1. ASSUME NEW channel \in AppChannel \cap Channels(Peer(e))
        PROVE  LocalId(Peer(e), channel) \in Ids
    BY LocalIds, Peers, Sizes
  <2> QED
    BY <2>1, AbsentFields, EmptyIsWindow DEF Ahead
<1>5. \A channel \in AppChannel : Absent.inbox[channel] = <<>>
  BY AbsentFields
<1>6. Once(Peer(e), Absent)
  BY <1>4, <1>5 DEF Once, IsInjective
<1>7. Link(e, Absent, q)
  BY <1>4, <1>5, AbsentFields DEF Link, LastArrived, Delivery, Waiting
<1> QED
  BY <1>1, <1>2, <1>3, <1>6, <1>7 DEF Own

LEMMA InitializeFields ==
  ASSUME NEW e \in Endpoint
  PROVE  LET d == Initialize(e)
             n == Count(e) IN
         /\ d \in Connections /\ d.phase = "Registration" /\ d.received_last = FALSE
         /\ d.last_key = n + 1 /\ d.next_key = n + 1 /\ d.resender = 1..(n + 1)
         /\ d.seen = {} /\ d.acks = {} /\ d.count = 0 /\ d.alive = TRUE
         /\ d.remote = <<>> /\ d.inbox = Absent.inbox
         /\ d.orderers[MgmtStage] = NewOrderer
         /\ \A id \in Ids \ {MgmtStage} : d.orderers[id] = NoOrderer /\ d.orders[id] = 0
         /\ d.sent = {Registration(e, i) : i \in 0..n}
<1> DEFINE n == Count(e)
           sent == {Registration(e, i) : i \in 0..n}
           orders == [Absent.orders EXCEPT ![MgmtStage] = n + 1]
           orderers == [Absent.orderers EXCEPT ![MgmtStage] = NewOrderer]
           d == Initialize(e)
<1>1. sent \in SUBSET Packet
  BY RegistrationFields
<1>2. n \in Nat /\ n + 1 < WireOrders /\ MgmtStage \in Ids /\ 1..(n + 1) \in SUBSET Nat /\ n + 1 \in Nat
  BY Sizes
<1>3. orders \in [Ids -> 0..(WireOrders - 1)] /\ \A id \in Ids \ {MgmtStage} : orders[id] = 0
  BY <1>2, Sizes, AbsentFields
<1>4. orderers \in [Ids -> Orderer] /\ orderers[MgmtStage] = NewOrderer
      /\ \A id \in Ids \ {MgmtStage} : orderers[id] = NoOrderer
  BY <1>2, EmptyIsWindow, AbsentFields
<1>5. d = [Absent EXCEPT !.phase = "Registration", !.last_key = n + 1, !.next_key = n + 1,
                         !.resender = 1..(n + 1), !.sent = sent,
                         !.orders = orders, !.orderers = orderers]
  <2>1. d = [Absent EXCEPT !.phase             = "Registration",
                           !.last_key            = n + 1,
                           !.next_key            = n + 1,
                           !.resender            = 1..(n + 1),
                           !.sent                = sent,
                           !.orders[MgmtStage]   = n + 1,
                           !.orderers[MgmtStage] = NewOrderer]
    BY DEF Initialize, Count
  <2>2. Absent \in Connections
    BY AbsentFields
  <2> HIDE DEF n, sent, d
  <2> QED
    BY <2>1, <2>2 DEF Connections
<1> HIDE DEF n, sent, orders, orderers, d
<1>6. /\ d \in Connections /\ d.phase = "Registration" /\ d.received_last = FALSE
      /\ d.last_key = n + 1 /\ d.next_key = n + 1 /\ d.resender = 1..(n + 1)
      /\ d.seen = {} /\ d.acks = {} /\ d.count = 0 /\ d.alive = TRUE
      /\ d.remote = <<>> /\ d.inbox = Absent.inbox
      /\ d.orderers = orderers /\ d.orders = orders /\ d.sent = sent
  BY <1>1, <1>2, <1>3, <1>4, <1>5, AbsentFields DEF Connections
<1> QED
  BY <1>3, <1>4, <1>6 DEF n, sent, d

LEMMA InitializeKeeps ==
  ASSUME NEW e \in Endpoint, NEW q
  PROVE  LET d == Initialize(e) IN Own(e, d) /\ Link(e, d, q) /\ Grows(Absent, d)
<1> DEFINE d == Initialize(e)
           n == Count(e)
           f == Peer(e)
<1>0. /\ d \in Connections /\ d.phase = "Registration" /\ d.received_last = FALSE
      /\ d.last_key = n + 1 /\ d.next_key = n + 1 /\ d.resender = 1..(n + 1)
      /\ d.seen = {} /\ d.acks = {} /\ d.count = 0 /\ d.alive = TRUE
      /\ d.remote = <<>> /\ d.inbox = Absent.inbox
      /\ d.orderers[MgmtStage] = NewOrderer
      /\ \A id \in Ids \ {MgmtStage} : d.orderers[id] = NoOrderer /\ d.orders[id] = 0
      /\ d.sent = {Registration(e, i) : i \in 0..n}
  BY InitializeFields
<1>00. f \in Endpoint /\ n \in Nat /\ Count(f) \in Nat
  BY Peers, Sizes
<1> HIDE DEF d
<1>1. Typed(e, d)
  <2>1. IsFiniteSet({}) /\ Cardinality({}) = 0
    BY FS_EmptySet
  <2>2. Cardinality(1..(n + 1)) = n + 1
    <3>1. \A k \in Nat : Cardinality(1..k) = k
      BY FS_Interval
    <3> QED
      BY <1>00, <3>1
  <2> HIDE DEF n
  <2>3. n + 1 <= Capacity
    BY Sizes DEF n
  <2> QED
    BY <1>0, <1>00, <2>1, <2>2, <2>3, Sizes DEF Typed
<1>2. Sent(e, d) /\ Unique(d)
  <2>1. ASSUME NEW i \in 0..n
        PROVE  LET p == Registration(e, i) IN
               /\ Sendable(e, d, p) /\ p.key = i + 1 /\ p.msg = 0 /\ p.acked = {}
    BY <2>1, RegistrationFields DEF Sendable, IsRegistration
  <2> HIDE DEF n
  <2>2. Sent(e, d)
    BY <1>0, <1>00, <2>1 DEF Sent
  <2>3. Unique(d)
    BY <1>0, <1>00, <2>1 DEF Unique
  <2> QED
    BY <2>2, <2>3
<1>3. Phases(e, d)
  BY <1>0 DEF Phases
<1>4. Handshake(f, d)
  <2>1. Registering(f, d, EmptyWindow)
    BY <1>0, <1>00, EmptyIsWindow, Sizes DEF Registering
  <2>2. \A channel \in AppChannel : d.inbox[channel] = <<>>
    BY <1>0, AbsentFields
  <2> HIDE DEF f
  <2> QED
    BY <1>0, <1>00, <2>1, <2>2, EmptyIsWindow DEF Handshake
<1>5. Once(f, d)
  BY <1>0, <1>00, <1>4, NothingAhead DEF Once, IsInjective
<1>6. Link(e, d, q)
  <2>1. LastArrived(e, d, q)
    BY <1>0, <1>00 DEF LastArrived, NoKey
  <2>2. Delivery(d, q) /\ Waiting(f, d, q)
    BY <1>0, <1>00, <1>4, NothingAhead DEF Delivery, Waiting
  <2> QED
    BY <2>1, <2>2 DEF Link
<1>7. Grows(Absent, d)
  BY <1>0, AbsentFields DEF Grows
<1> QED
  BY <1>1, <1>2, <1>3, <1>4, <1>5, <1>6, <1>7 DEF Own, d

LEMMA SpeculateKeeps ==
  ASSUME NEW e \in Endpoint, NEW c, NEW q, Own(e, c), Link(e, c, q), Own(Peer(e), q),
         c.phase # "Absent", NEW p \in q.sent
  PROVE  LET d == Speculate(c, p) IN
         /\ Own(e, d) /\ Link(e, d, q) /\ Grows(c, d) /\ d.phase # "Absent"
         /\ \/ d = c
            \/ c.phase = "Registration" /\ c.received_last /\ d = Transfer(c)
<1>1. CASE c.phase = "Registration" /\ c.received_last /\ p.id \notin StageIds
  <2>1. Sendable(Peer(e), q, p)
    BY DEF Own, Sent
  <2>2. q.phase = "Transfer"
    BY <1>1, <2>1, Peers, SendableById
  <2>3. Speculate(c, p) = Transfer(c)
    BY <1>1 DEF Speculate
  <2>4. Transfer(c).phase = "Transfer"
    BY TransferFields DEF Own, Typed
  <2> QED
    BY <1>1, <2>2, <2>3, <2>4, TransferKeeps
<1>2. CASE ~(c.phase = "Registration" /\ c.received_last /\ p.id \notin StageIds)
  BY <1>2, GrowsSame DEF Speculate
<1> QED
  BY <1>1, <1>2

LEMMA ConvertKeeps ==
  ASSUME NEW e \in Endpoint, NEW c, NEW q, Own(e, c), Link(e, c, q)
  PROVE  LET d == ConvertIfPossible(c) IN
         /\ Own(e, d) /\ Link(e, d, q) /\ Grows(c, d)
         /\ \/ d = c
            \/ c.phase = "Registration" /\ c.received_last /\ d = Transfer(c)
  BY TransferKeeps, GrowsSame DEF ConvertIfPossible

\* The keys that the peer acknowledges are those of packets it has seen.
LEMMA HandleAckKeeps ==
  ASSUME NEW e \in Endpoint, NEW c, NEW q, Own(e, c), Link(e, c, q), Own(Peer(e), q),
         c.phase # "Absent", NEW p \in q.sent,
         c.phase = "Registration" => p.id = AckStage,
         c.phase = "Transfer" => p.id = LocalId(Peer(e), Ack)
  PROVE  LET d == HandleAck(c, p) IN
         /\ Own(e, d) /\ Link(e, d, q) /\ Grows(c, d)
         /\ \E g \in Connections :
               /\ Quiet(c, g) /\ g.seen = c.seen /\ g.resender = c.resender \ p.acked
               /\ g.sent = c.sent /\ g.orders = c.orders /\ g.count = c.count
               /\ \/ d = g
                  \/ c.phase = "Registration" /\ c.received_last /\ d = Transfer(g)
<1> DEFINE g == [c EXCEPT !.resender = @ \ p.acked,
                          !.last_key = IF @ \in p.acked THEN NoKey ELSE @]
<1>1. c \in Connections /\ Typed(e, c) /\ Sent(e, c) /\ Unique(c) /\ Phases(e, c)
  BY DEF Own, Typed
<1>2. /\ g \in Connections /\ Quiet(c, g) /\ g.seen = c.seen
      /\ g.last_key \in {c.last_key, NoKey} /\ (g.last_key # c.last_key => c.last_key \in p.acked)
      /\ g.acks = c.acks /\ g.count = c.count /\ g.orders = c.orders
      /\ g.sent = c.sent /\ g.next_key = c.next_key /\ g.resender = c.resender \ p.acked
  BY <1>1 DEF Connections, Quiet, NoKey
<1> HIDE DEF g
<1>3. Typed(e, g)
  <2>1. IsFiniteSet(c.resender)
    <3>1. c.next_key \in Nat
      BY <1>1, ConnectionFields
    <3>2. IsFiniteSet(1..c.next_key)
      <4>1. \A n \in Nat : IsFiniteSet(1..n)
        BY FS_Interval
      <4> QED
        BY <3>1, <4>1
    <3>3. c.resender \in SUBSET (1..c.next_key)
      BY <1>1 DEF Typed
    <3> QED
      BY <3>2, <3>3, FS_Subset
  <2>2. IsFiniteSet(g.resender) /\ Cardinality(g.resender) <= Cardinality(c.resender)
    BY <1>2, <2>1, FS_Subset
  <2>3. Cardinality(g.resender) <= Capacity
    <3>1. Cardinality(g.resender) \in Nat /\ Cardinality(c.resender) \in Nat
      BY <2>1, <2>2, FS_CardinalityType
    <3>2. Cardinality(c.resender) <= Capacity /\ Capacity \in Nat
      BY <1>1, Sizes DEF Typed
    <3> QED
      BY <2>2, <3>1, <3>2
  <2>4. g.last_key <= g.next_key
    BY <1>1, <1>2, ConnectionFields DEF Typed, NoKey
  <2> QED
    BY <1>1, <1>2, <2>3, <2>4 DEF Typed
<1>4. Sent(e, g)
  <2>1. \A r \in c.sent : Sendable(e, g, r)
    BY <1>1, <1>2, SendableLater DEF Sent, Quiet
  <2> QED
    BY <1>1, <1>2, <2>1 DEF Sent, Quiet
<1>5. Unique(g)
  BY <1>1, <1>2 DEF Unique
<1>6. Phases(e, g)
  BY <1>1, <1>2 DEF Phases, Quiet
<1>7. LastArrived(e, g, q)
  <2>1. ASSUME c.last_key \in p.acked, c.phase = "Registration", c.last_key # NoKey
        PROVE  q.phase = "Transfer" \/ Count(e) + 1 \in q.seen
    <3>1. c.last_key = Count(e) + 1
      BY <1>1, <2>1 DEF Phases
    <3>2. q.phase # "Transfer" => p.acked \subseteq q.seen
      BY <2>1 DEF Own, Sent
    <3> QED
      BY <2>1, <3>1, <3>2
  <2> QED
    BY <1>1, <1>2, <2>1 DEF LastArrived, Link, Quiet, Phases
<1>8. Own(e, g) /\ Link(e, g, q)
  BY <1>2, <1>3, <1>4, <1>5, <1>6, <1>7, QuietKeeps DEF Own, Link
<1>9. Grows(c, g)
  BY <1>2 DEF Grows, Quiet
<1>10. HandleAck(c, p) = ConvertIfPossible(g)
  BY DEF HandleAck, g
<1>11. /\ Own(e, ConvertIfPossible(g)) /\ Link(e, ConvertIfPossible(g), q)
       /\ Grows(g, ConvertIfPossible(g))
       /\ \/ ConvertIfPossible(g) = g
          \/ g.phase = "Registration" /\ g.received_last /\ ConvertIfPossible(g) = Transfer(g)
  BY <1>8, ConvertKeeps
<1>12. Grows(c, ConvertIfPossible(g))
  BY <1>9, <1>11, GrowsOnwards
<1>13. c.phase = g.phase /\ c.received_last = g.received_last
  BY <1>2 DEF Quiet
<1> QED
  BY <1>2, <1>10, <1>11, <1>12, <1>13

-----------------------------------------------------------------------------
(* Registrations *)

LEMMA FirstPart ==
  ASSUME NEW S, NEW s \in Seq(S), NEW n \in 0..Len(s)
  PROVE  /\ SubSeq(s, 1, n) \in Seq(S) /\ Len(SubSeq(s, 1, n)) = n
         /\ \A i \in 1..n : SubSeq(s, 1, n)[i] = s[i]
  OBVIOUS

LEMMA Joined ==
  ASSUME NEW S, NEW s \in Seq(S), NEW t \in Seq(S)
  PROVE  /\ s \o t \in Seq(S) /\ Len(s \o t) = Len(s) + Len(t)
         /\ \A i \in 1..Len(s) : (s \o t)[i] = s[i]
         /\ \A i \in 1..Len(t) : (s \o t)[Len(s) + i] = t[i]
  OBVIOUS

\* A run is handled up to the first registration with an unknown name.
LEMMA HandledIs ==
  ASSUME NEW e \in Endpoint, NEW run \in Seq(Packet)
  PROVE  LET n == Handled(e, run)
             known == Channels(e) \cup {Nameless} IN
         /\ n \in 0..Len(run)
         /\ \A i \in 1..n : run[i].name \in known
         /\ n < Len(run) => run[n + 1].name \notin known
<1> DEFINE known == Channels(e) \cup {Nameless}
           Ends(n) == /\ \A i \in 1..n : run[i].name \in known
                      /\ n < Len(run) => run[n + 1].name \notin known
           E == {n \in 0..Len(run) : n = Len(run) \/ run[n + 1].name \notin known}
<1>1. Len(run) \in Nat
  OBVIOUS
<1>2. PICK m \in E : \A k \in E : m <= k
  <2>1. E \in SUBSET Nat /\ Len(run) \in E
    BY <1>1
  <2> HIDE DEF E
  <2> QED
    BY <2>1, LeastNumber
<1>3. m \in 0..Len(run) /\ Ends(m)
  <2>1. ASSUME NEW i \in 1..m PROVE run[i].name \in known
    <3>1. i - 1 \in 0..Len(run) /\ ~ (m <= i - 1) /\ i - 1 # Len(run) /\ (i - 1) + 1 = i
      BY <1>1
    <3>2. i - 1 \notin E
      BY <1>2, <3>1
    <3> QED
      BY <3>1, <3>2
  <2>2. m < Len(run) => run[m + 1].name \notin known
    BY <1>1
  <2> QED
    BY <2>1, <2>2, <1>1
<1>4. Handled(e, run) \in 0..Len(run) /\ Ends(Handled(e, run))
  <2> HIDE DEF Ends
  <2>1. Handled(e, run) = CHOOSE n \in 0..Len(run) : Ends(n)
    BY DEF Handled, Ends
  <2> QED
    BY <2>1, <1>3
<1> QED
  BY <1>4

\* A connection x that has n of the peer's registrations more than c, which
\* has s of them.
Registered(f, c, s, n, x) ==
    /\ x.phase = c.phase /\ x.last_key = c.last_key /\ x.next_key = c.next_key
    /\ x.resender = c.resender /\ x.seen = c.seen /\ x.acks = c.acks
    /\ x.orders = c.orders /\ x.inbox = c.inbox /\ x.alive = c.alive
    /\ x.count = c.count /\ x.sent = c.sent
    /\ x.received_last = (s + n = Count(f) + 1)
    /\ Len(x.remote) = IF s + n <= Count(f) THEN s + n ELSE Count(f)
    /\ \A i \in 1..Len(x.remote) : x.remote[i] = Registry[f][i]
    /\ \A id \in Ids : x.orderers[id] =
          IF id \in s..(Len(x.remote) - 1) /\ x.remote[id + 1] \in Ordered
          THEN NewOrderer ELSE c.orderers[id]

\* Consecutive registrations give their names to the next ids; the last one
\* of the side ends the registrations.
LEMMA RegistrationsHandled ==
  ASSUME NEW f \in Endpoint, NEW c \in Connections, c.phase = "Registration",
         ~c.received_last, NEW s \in 0..Count(f), NEW n \in Nat, s + n <= Count(f) + 1,
         NEW run \in Seq(Packet), Len(run) = n,
         \A j \in 1..n : run[j] = Registration(f, s + j - 1),
         Len(c.remote) = s, \A i \in 1..s : c.remote[i] = Registry[f][i]
  PROVE  \E x \in Connections :
            HandleRegistrations(c, run) = ConvertIfPossible(x) /\ Registered(f, c, s, n, x)
<1> DEFINE m        == Count(f)
           last     == \E i \in DOMAIN run : run[i].name = Nameless
           named    == IF last THEN Len(run) - 1 ELSE Len(run)
           names    == [i \in 1..named |-> run[i].name]
           remote   == c.remote \o names
           orderers == [id \in Ids |-> IF /\ id \in Len(c.remote)..(Len(remote) - 1)
                                          /\ remote[id + 1] \in Ordered
                                       THEN NewOrderer ELSE c.orderers[id]]
           mapped   == [c EXCEPT !.remote = remote, !.orderers = orderers]
           x        == IF last THEN [mapped EXCEPT !.received_last = TRUE] ELSE mapped
<1>1. m \in Nat /\ Registry[f] \in Seq(Channel) /\ DOMAIN run = 1..n
  BY Sizes
<1>2. ASSUME NEW j \in 1..n
      PROVE  /\ s + j - 1 < m => /\ run[j].name = Registry[f][s + j] /\ run[j].name # Nameless
                                 /\ run[j].name \in Channel
             /\ s + j - 1 = m => run[j].name = Nameless
  <2>1. s + j - 1 \in 0..m /\ (s + j - 1) + 1 = s + j
    BY <1>1
  <2>2. run[j] = Registration(f, s + j - 1)
    OBVIOUS
  <2> DEFINE k == s + j - 1
  <2>3. k \in 0..Count(f)
    BY <2>1
  <2>4. /\ k < Count(f) => /\ Registration(f, k).name = Registry[f][k + 1]
                           /\ Registration(f, k).name # Nameless
        /\ k = Count(f) => Registration(f, k).name = Nameless
    <3> HIDE DEF k
    <3> QED
      BY <2>3, RegistrationFields
  <2>5. run[j] \in Packet
    OBVIOUS
  <2>6. run[j].name \in Channel \cup {Nameless}
    BY <2>5 DEF Packet
  <2> QED
    BY <2>1, <2>2, <2>4, <2>6
<1>3. last <=> s + n = m + 1
  <2>1. ASSUME s + n = m + 1 PROVE last
    <3>1. n \in 1..n /\ s + n - 1 = m
      BY <1>1, <2>1
    <3>2. run[n].name = Nameless
      BY <1>2, <3>1
    <3> QED
      BY <1>1, <3>1, <3>2
  <2>2. ASSUME last PROVE s + n = m + 1
    <3>1. PICK j \in 1..n : run[j].name = Nameless
      BY <1>1, <2>2
    <3>2. ~(s + j - 1 < m)
      BY <1>2, <3>1
    <3> QED
      BY <1>1, <3>2
  <2> QED
    BY <2>1, <2>2
<1>s. s \in 0..m /\ s + n <= m + 1
  OBVIOUS
<1> HIDE DEF last, m
<1>4. named \in 0..n /\ s + named = IF s + n <= m THEN s + n ELSE m
  <2>1. last => n > 0
    BY <1>1, <1>3, <1>s
  <2>2. CASE last
    BY <1>1, <1>3, <1>s, <2>1, <2>2
  <2>3. CASE ~last
    BY <1>1, <1>3, <1>s, <2>3
  <2> QED
    BY <2>2, <2>3
<1>5. \A j \in 1..named : /\ run[j].name = Registry[f][s + j] /\ run[j].name \in Channel
  <2>1. ASSUME NEW j \in 1..named PROVE j \in 1..n /\ s + j - 1 < m
    BY <1>1, <1>4
  <2> QED
    BY <1>2, <2>1
<1> HIDE DEF named
<1>6. names \in Seq(Channel) /\ Len(names) = named /\ \A j \in 1..named : names[j] = Registry[f][s + j]
  BY <1>4, <1>5
<1> HIDE DEF names
<1>7. c.remote \in Seq(Channel)
  BY ConnectionFields
<1>8. /\ remote \in Seq(Channel) /\ Len(remote) = s + named
      /\ \A i \in 1..s : remote[i] = c.remote[i]
      /\ \A j \in 1..named : remote[s + j] = names[j]
  <2>1. /\ c.remote \o names \in Seq(Channel)
        /\ Len(c.remote \o names) = Len(c.remote) + Len(names)
        /\ \A i \in 1..Len(c.remote) : (c.remote \o names)[i] = c.remote[i]
        /\ \A i \in 1..Len(names) : (c.remote \o names)[Len(c.remote) + i] = names[i]
    <3>1. c.remote \in Seq(Channel) /\ names \in Seq(Channel)
      BY <1>6, <1>7
    <3>2. \A r, u \in Seq(Channel) :
             /\ r \o u \in Seq(Channel) /\ Len(r \o u) = Len(r) + Len(u)
             /\ \A i \in 1..Len(r) : (r \o u)[i] = r[i]
             /\ \A i \in 1..Len(u) : (r \o u)[Len(r) + i] = u[i]
      BY Joined
    <3> QED
      BY <3>1, <3>2, Zenon
  <2>2. Len(c.remote) = s /\ Len(names) = named
    BY <1>6
  <2> QED
    BY <2>1, <2>2
<1> HIDE DEF remote
<1>9. \A i \in 1..Len(remote) : remote[i] = Registry[f][i]
  <2>1. ASSUME NEW i \in 1..Len(remote), ~(i \in 1..s) PROVE remote[i] = Registry[f][i]
    <3>1. i - s \in 1..named /\ s + (i - s) = i
      BY <1>4, <1>8, <2>1
    <3> QED
      BY <1>6, <1>8, <3>1
  <2> QED
    BY <1>8, <2>1
<1>10. c.orderers \in [Ids -> Orderer]
  BY ConnectionFields
<1>11. orderers \in [Ids -> Orderer]
  BY <1>10, EmptyIsWindow
<1>12. \A id \in Ids : orderers[id] =
          IF id \in s..(Len(remote) - 1) /\ remote[id + 1] \in Ordered
          THEN NewOrderer ELSE c.orderers[id]
  OBVIOUS
<1> HIDE DEF orderers
<1>13. /\ mapped \in Connections /\ mapped.phase = c.phase /\ mapped.last_key = c.last_key
       /\ mapped.next_key = c.next_key /\ mapped.resender = c.resender
       /\ mapped.seen = c.seen /\ mapped.acks = c.acks /\ mapped.orders = c.orders
       /\ mapped.inbox = c.inbox /\ mapped.alive = c.alive /\ mapped.count = c.count
       /\ mapped.sent = c.sent /\ mapped.received_last = c.received_last
       /\ mapped.remote = remote /\ mapped.orderers = orderers
  BY <1>8, <1>11 DEF Connections
<1>14. HandleRegistrations(c, run) = IF last THEN ConvertIfPossible([mapped EXCEPT !.received_last = TRUE])
                                     ELSE mapped
  BY DEF HandleRegistrations, last, named, names, remote, orderers
<1> HIDE DEF mapped
<1>15. HandleRegistrations(c, run) = ConvertIfPossible(x)
  <2>1. ~mapped.received_last => ConvertIfPossible(mapped) = mapped
    BY DEF ConvertIfPossible
  <2> QED
    BY <1>13, <1>14, <2>1
<1>16. /\ x \in Connections /\ x.phase = c.phase /\ x.last_key = c.last_key
       /\ x.next_key = c.next_key /\ x.resender = c.resender
       /\ x.seen = c.seen /\ x.acks = c.acks /\ x.orders = c.orders
       /\ x.inbox = c.inbox /\ x.alive = c.alive /\ x.count = c.count
       /\ x.sent = c.sent
       /\ x.remote = remote /\ x.orderers = orderers
  BY <1>13 DEF Connections
<1>17. /\ last => x.received_last = TRUE
       /\ ~last => x.received_last = FALSE
  <2>1. CASE last
    BY <1>13, <2>1 DEF Connections
  <2>2. CASE ~last
    BY <1>13, <2>2, ConnectionFields
  <2> QED
    BY <2>1, <2>2
<1> HIDE DEF x
<1>18. x.received_last = (s + n = m + 1)
  BY <1>3, <1>17
<1>19. Len(x.remote) = IF s + n <= Count(f) THEN s + n ELSE Count(f)
  BY <1>4, <1>8, <1>16 DEF m
<1>20. \A i \in 1..Len(x.remote) : x.remote[i] = Registry[f][i]
  BY <1>9, <1>16
<1>21. \A id \in Ids : x.orderers[id] =
          IF id \in s..(Len(x.remote) - 1) /\ x.remote[id + 1] \in Ordered
          THEN NewOrderer ELSE c.orderers[id]
  BY <1>12, <1>16
<1>22. x.received_last = (s + n = Count(f) + 1)
  BY <1>18 DEF m
<1>23. Registered(f, c, s, n, x)
  BY <1>16, <1>19, <1>20, <1>21, <1>22 DEF Registered
<1> QED
  BY <1>15, <1>16, <1>23

\* Putting the orderer back does not interfere with the change of state.
LEMMA SameConnection ==
  ASSUME NEW c \in Connections, NEW d \in Connections,
         c.phase = d.phase, c.received_last = d.received_last, c.last_key = d.last_key,
         c.next_key = d.next_key, c.resender = d.resender, c.seen = d.seen, c.acks = d.acks,
         c.orders = d.orders, c.orderers = d.orderers, c.remote = d.remote,
         c.inbox = d.inbox, c.alive = d.alive, c.count = d.count, c.sent = d.sent
  PROVE  c = d
<1> DEFINE Fields(x) ==
       [phase |-> x.phase, received_last |-> x.received_last, last_key |-> x.last_key,
        next_key |-> x.next_key, resender |-> x.resender, seen |-> x.seen, acks |-> x.acks,
        orders |-> x.orders, orderers |-> x.orderers, remote |-> x.remote,
        inbox |-> x.inbox, alive |-> x.alive, count |-> x.count, sent |-> x.sent]
<1>1. ASSUME NEW x \in Connections PROVE x = Fields(x)
  BY DEF Connections
<1>2. Fields(c) = Fields(d)
  BY Zenon
<1> QED
  BY <1>1, <1>2, Zenon

LEMMA OrdererPut ==
  ASSUME NEW c \in Connections, NEW id \in Ids, NEW o \in Orderer
  PROVE  LET d == [c EXCEPT !.orderers[id] = o] IN
         /\ d \in Connections
         /\ d.phase = c.phase /\ d.received_last = c.received_last /\ d.last_key = c.last_key
         /\ d.next_key = c.next_key /\ d.resender = c.resender /\ d.seen = c.seen
         /\ d.acks = c.acks /\ d.orders = c.orders /\ d.remote = c.remote
         /\ d.inbox = c.inbox /\ d.alive = c.alive /\ d.count = c.count /\ d.sent = c.sent
         /\ d.orderers[id] = o
         /\ \A i \in Ids \ {id} : d.orderers[i] = c.orderers[i]
<1> DEFINE orderers == [c.orderers EXCEPT ![id] = o]
           d == [c EXCEPT !.orderers[id] = o]
<1>1. c.orderers \in [Ids -> Orderer]
  BY ConnectionFields
<1>2. orderers \in [Ids -> Orderer] /\ orderers[id] = o
      /\ \A i \in Ids \ {id} : orderers[i] = c.orderers[i]
  BY <1>1
<1>3. d = [c EXCEPT !.orderers = orderers]
  BY DEF Connections
<1> HIDE DEF orderers, d
<1>4. /\ d \in Connections
      /\ d.phase = c.phase /\ d.received_last = c.received_last /\ d.last_key = c.last_key
      /\ d.next_key = c.next_key /\ d.resender = c.resender /\ d.seen = c.seen
      /\ d.acks = c.acks /\ d.orders = c.orders /\ d.remote = c.remote
      /\ d.inbox = c.inbox /\ d.alive = c.alive /\ d.count = c.count /\ d.sent = c.sent
      /\ d.orderers = orderers
  BY <1>2, <1>3 DEF Connections
<1> QED
  BY <1>2, <1>4 DEF d

LEMMA WindowPut ==
  ASSUME NEW c \in Connections, NEW id \in Ids, NEW w \in Windows
  PROVE  /\ [c.orderers[id] EXCEPT !.window = w] \in Orderer
         /\ [c EXCEPT !.orderers[id].window = w] =
               [c EXCEPT !.orderers[id] = [c.orderers[id] EXCEPT !.window = w]]
         /\ [c.orderers[id] EXCEPT !.window = w].window = w
         /\ [c.orderers[id] EXCEPT !.window = w].present = c.orderers[id].present
<1>1. c.orderers \in [Ids -> Orderer]
  BY ConnectionFields
<1>2. c.orderers[id] \in Orderer
  BY <1>1
<1> QED
  BY <1>1, <1>2 DEF Orderer, Connections

LEMMA ConvertCommutes ==
  ASSUME NEW c \in Connections, NEW id \in Ids, NEW w \in Windows
  PROVE  [ConvertIfPossible(c) EXCEPT !.orderers[id].window = w] =
            ConvertIfPossible([c EXCEPT !.orderers[id].window = w])
<1> DEFINE o == [c.orderers[id] EXCEPT !.window = w]
           d == [c EXCEPT !.orderers[id] = o]
<1>1. o \in Orderer /\ d = [c EXCEPT !.orderers[id].window = w]
  BY WindowPut
<1>2. /\ d \in Connections
      /\ d.phase = c.phase /\ d.received_last = c.received_last /\ d.last_key = c.last_key
      /\ d.next_key = c.next_key /\ d.resender = c.resender /\ d.seen = c.seen
      /\ d.acks = c.acks /\ d.orders = c.orders /\ d.remote = c.remote
      /\ d.inbox = c.inbox /\ d.alive = c.alive /\ d.count = c.count /\ d.sent = c.sent
      /\ d.orderers[id] = o
      /\ \A i \in Ids \ {id} : d.orderers[i] = c.orderers[i]
  <2> HIDE DEF o
  <2> QED
    BY <1>1, OrdererPut
<1>3. CASE c.phase = "Registration" /\ c.received_last /\ c.last_key = NoKey
  <2> DEFINE t == Transfer(c)
             g == [t EXCEPT !.orderers[id].window = w]
  <2>1. t \in Connections /\ t.orderers = c.orderers
    BY TransferFields
  <2>2. [t.orderers[id] EXCEPT !.window = w] = o
    BY <2>1
  <2>3. g = [t EXCEPT !.orderers[id] = [t.orderers[id] EXCEPT !.window = w]]
    <3> HIDE DEF t
    <3> QED
      BY <2>1, WindowPut
  <2>4. g = [t EXCEPT !.orderers[id] = o]
    <3> HIDE DEF t, o, g
    <3> QED
      BY <2>2, <2>3
  <2>5. /\ g \in Connections
        /\ g.phase = t.phase /\ g.received_last = t.received_last /\ g.last_key = t.last_key
        /\ g.next_key = t.next_key /\ g.resender = t.resender /\ g.seen = t.seen
        /\ g.acks = t.acks /\ g.orders = t.orders /\ g.remote = t.remote
        /\ g.inbox = t.inbox /\ g.alive = t.alive /\ g.count = t.count /\ g.sent = t.sent
        /\ g.orderers[id] = o
        /\ \A i \in Ids \ {id} : g.orderers[i] = t.orderers[i]
    <3> HIDE DEF t, o, g
    <3> QED
      BY <1>1, <2>1, <2>4, OrdererPut
  <2> HIDE DEF o, d, g
  <2>6. /\ Transfer(d) \in Connections /\ Transfer(d).phase = "Transfer"
        /\ Transfer(d).received_last = FALSE
        /\ Transfer(d).last_key = NoKey /\ Transfer(d).acks = {} /\ Transfer(d).seen = {}
        /\ Transfer(d).resender = {} /\ Transfer(d).next_key = c.next_key
        /\ Transfer(d).orders = c.orders /\ Transfer(d).orderers = d.orderers
        /\ Transfer(d).remote = c.remote /\ Transfer(d).inbox = c.inbox
        /\ Transfer(d).alive = c.alive /\ Transfer(d).count = c.count
        /\ Transfer(d).sent = c.sent
    BY <1>2, TransferFields
  <2>7. /\ t.phase = "Transfer" /\ t.received_last = FALSE
        /\ t.last_key = NoKey /\ t.acks = {} /\ t.seen = {} /\ t.resender = {}
        /\ t.next_key = c.next_key /\ t.orders = c.orders /\ t.orderers = c.orderers
        /\ t.remote = c.remote /\ t.inbox = c.inbox /\ t.alive = c.alive
        /\ t.count = c.count /\ t.sent = c.sent
    BY TransferFields
  <2>8. d.orderers = g.orderers
    <3>1. d.orderers \in [Ids -> Orderer] /\ g.orderers \in [Ids -> Orderer]
      BY <1>2, <2>5, ConnectionFields
    <3>2. \A i \in Ids : d.orderers[i] = g.orderers[i]
      BY <1>2, <2>5, <2>7
    <3> QED
      BY <3>1, <3>2
  <2> HIDE DEF t
  <2>9. Transfer(d) = g
    <3>1. Transfer(d) \in Connections /\ g \in Connections
      BY <2>5, <2>6
    <3>2. /\ Transfer(d).phase = g.phase /\ Transfer(d).received_last = g.received_last
          /\ Transfer(d).last_key = g.last_key /\ Transfer(d).next_key = g.next_key
          /\ Transfer(d).resender = g.resender /\ Transfer(d).seen = g.seen
          /\ Transfer(d).acks = g.acks /\ Transfer(d).orders = g.orders
          /\ Transfer(d).orderers = g.orderers /\ Transfer(d).remote = g.remote
          /\ Transfer(d).inbox = g.inbox /\ Transfer(d).alive = g.alive
          /\ Transfer(d).count = g.count /\ Transfer(d).sent = g.sent
      BY <2>5, <2>6, <2>7, <2>8
    <3> QED
      BY <3>1, <3>2, SameConnection, Zenon
  <2>10. ConvertIfPossible(d) = Transfer(d) /\ ConvertIfPossible(c) = t
    BY <1>2, <1>3 DEF ConvertIfPossible, t
  <2> QED
    BY <1>1, <2>9, <2>10 DEF g, d
<1>4. CASE ~(c.phase = "Registration" /\ c.received_last /\ c.last_key = NoKey)
  <2>1. ConvertIfPossible(d) = d /\ ConvertIfPossible(c) = c
    BY <1>2, <1>4 DEF ConvertIfPossible
  <2> QED
    BY <1>1, <2>1
<1> QED
  BY <1>3, <1>4

\* A step within the registration phase that sends nothing and sees nothing.
LEMMA RegistrationStep ==
  ASSUME NEW e \in Endpoint, NEW c, NEW q, Own(e, c), Link(e, c, q), c.phase = "Registration",
         NEW d \in Connections, d.phase = c.phase, d.last_key = c.last_key,
         d.next_key = c.next_key, d.resender = c.resender, d.seen = c.seen, d.acks = c.acks,
         d.count = c.count, d.sent = c.sent, Handshake(Peer(e), d)
  PROVE  Own(e, d) /\ Link(e, d, q) /\ Grows(c, d)
<1>1. Typed(e, d)
  BY DEF Own, Typed
<1>2. Sent(e, d)
  <2>1. \A p \in c.sent : Sendable(e, d, p)
    BY SendableLater DEF Own, Sent
  <2> QED
    BY <2>1 DEF Own, Sent
<1>3. Unique(d) /\ Phases(e, d)
  BY DEF Own, Unique, Phases
<1>4. Once(Peer(e), d) /\ Delivery(d, q) /\ Waiting(Peer(e), d, q)
  BY Peers, NothingAhead DEF Once, Delivery, Waiting, IsInjective
<1>5. LastArrived(e, d, q)
  BY DEF LastArrived, Link
<1>6. Grows(c, d)
  BY DEF Grows
<1> QED
  BY <1>1, <1>2, <1>3, <1>4, <1>5, <1>6 DEF Own, Link

\* What a step leaves that takes in messages.
Reads(c, d) ==
    /\ d.phase = c.phase /\ d.received_last = c.received_last /\ d.last_key = c.last_key
    /\ d.next_key = c.next_key /\ d.resender = c.resender /\ d.seen = c.seen
    /\ d.acks = c.acks /\ d.orders = c.orders /\ d.remote = c.remote
    /\ d.count = c.count /\ d.sent = c.sent

\* A panic of the event loop leaves the connection otherwise as it is.
LEMMA PanicKeeps ==
  ASSUME NEW e \in Endpoint, NEW c, NEW q, Own(e, c), Link(e, c, q), c.phase # "Absent"
  PROVE  LET d == [c EXCEPT !.alive = FALSE] IN
         /\ Own(e, d) /\ Link(e, d, q) /\ Grows(c, d)
         /\ Reads(c, d)
         /\ d.sent = c.sent /\ d.orders = c.orders /\ d.count = c.count
<1> DEFINE d == [c EXCEPT !.alive = FALSE]
<1>1. c \in Connections
  BY DEF Own, Typed
<1>2. /\ d \in Connections /\ d.phase = c.phase /\ d.received_last = c.received_last
      /\ d.last_key = c.last_key /\ d.next_key = c.next_key /\ d.resender = c.resender
      /\ d.seen = c.seen /\ d.acks = c.acks /\ d.orders = c.orders /\ d.remote = c.remote
      /\ d.inbox = c.inbox /\ d.count = c.count /\ d.sent = c.sent /\ d.orderers = c.orderers
  BY <1>1 DEF Connections
<1> HIDE DEF d
<1>3. Typed(e, d) /\ Unique(d)
  BY <1>2 DEF Own, Typed, Unique
<1>4. Sent(e, d)
  <2>1. \A p \in c.sent : Sendable(e, d, p)
    BY <1>2, SendableLater DEF Own, Sent
  <2> QED
    BY <1>2, <2>1 DEF Own, Sent
<1>5. Phases(e, d)
  BY <1>2 DEF Own, Phases
<1>6. Handshake(Peer(e), d)
  <2>1. \A w : Registering(Peer(e), c, w) => Registering(Peer(e), d, w)
    BY <1>2 DEF Registering
  <2> QED
    BY <1>2, <2>1 DEF Own, Handshake
<1>7. Once(Peer(e), d) /\ LastArrived(e, d, q)
  BY <1>2 DEF Own, Link, Once, Ahead, LastArrived
<1>8. \A channel, p : Taken(c, q, channel, p) => Taken(d, q, channel, p)
  BY <1>2 DEF Taken
<1>9. Delivery(d, q) /\ Waiting(Peer(e), d, q)
  BY <1>2, <1>8 DEF Link, Delivery, Waiting, Ahead
<1>10. Grows(c, d)
  BY <1>2 DEF Grows
<1> QED
  BY <1>2, <1>3, <1>4, <1>5, <1>6, <1>7, <1>9, <1>10 DEF Own, Link, Reads, d

\* A registration that is not seen before is put into the window of the
\* registrations, and those that can be handed over are.
LEMMA RegistrationPut ==
  ASSUME NEW f \in Endpoint, NEW c \in Connections, NEW w \in Windows,
         Registering(f, c, w), NEW i \in 0..Count(f), w.start <= i, i + 1 \in c.seen
  PROVE  LET F == Put(w, i, Registration(f, i))
             n == RunLength(F) IN
         /\ F \in Windows /\ Accepts(w, i, WindowSize[Mgmt])
         /\ w.start + n <= Count(f) + 1
         /\ \A j \in 1..n : Run(F)[j] = Registration(f, w.start + j - 1)
         /\ Drained(F) \in Windows /\ Drained(F).start = w.start + n
         /\ \A k \in 0..(w.start + n - 1) : k + 1 \in c.seen
         /\ \A d \in DOMAIN Drained(F).ahead :
               /\ d # 0 /\ w.start + n + d \in 0..Count(f)
               /\ Drained(F).ahead[d] = Registration(f, w.start + n + d)
               /\ w.start + n + d + 1 \in c.seen
<1> DEFINE p == Registration(f, i)
           F == Put(w, i, p)
           n == RunLength(F)
           s == w.start
           m == Count(f)
<1>1. /\ m \in Nat /\ m + 1 < OrderCount /\ m < WindowSize[Mgmt] /\ OrderCount \in Nat \ {0}
      /\ WindowSize[Mgmt] \in Nat \ {0}
  BY Sizes
<1>2. p \in Packet
  BY RegistrationFields
<1>3. s \in Nat /\ DOMAIN w.ahead \in SUBSET Nat
  BY WindowFields
<1>4. Distance(w, i) = i - s /\ i \in Nat
  BY <1>1, DistanceAhead
<1>5. Accepts(w, i, WindowSize[Mgmt])
  BY <1>1, <1>3, <1>4 DEF Accepts
<1>6. /\ F \in Windows /\ F.start = s /\ DOMAIN F.ahead = DOMAIN w.ahead \cup {i - s}
      /\ F.ahead[i - s] = p
      /\ \A x \in DOMAIN w.ahead : x # i - s => F.ahead[x] = w.ahead[x]
  <2> HIDE DEF p, s, F
  <2>1. /\ F \in Windows /\ F.start = w.start
        /\ DOMAIN F.ahead = DOMAIN w.ahead \cup {Distance(w, i)}
        /\ F.ahead[Distance(w, i)] = p
        /\ \A x \in DOMAIN w.ahead : x # Distance(w, i) => F.ahead[x] = w.ahead[x]
    BY <1>2, <1>4, PutFields DEF F
  <2> QED
    BY <1>4, <2>1 DEF s
<1> HIDE DEF F
<1>7. \A x \in DOMAIN F.ahead :
         x \in Nat /\ s + x \in 0..m /\ F.ahead[x] = Registration(f, s + x) /\ s + x + 1 \in c.seen
  <2>1. \A x \in DOMAIN w.ahead :
           s + x \in 0..m /\ w.ahead[x] = Registration(f, s + x) /\ s + x + 1 \in c.seen
    BY DEF Registering
  <2>2. i - s \in Nat /\ s + (i - s) = i
    BY <1>3, <1>4
  <2> HIDE DEF s, m
  <2> QED
    BY <1>3, <1>6, <2>1, <2>2 DEF m, p
<1>8. /\ n \in Nat /\ \A x \in 0..(n - 1) : x \in DOMAIN F.ahead
  BY <1>6, RunLengthIs
<1>9. \A j \in 1..n : j - 1 \in DOMAIN F.ahead /\ Run(F)[j] = F.ahead[j - 1]
  BY <1>6, RunFields
<1>10. /\ Drained(F) \in Windows
       /\ Drained(F).start = (F.start + n) % OrderCount
       /\ \A d \in DOMAIN Drained(F).ahead :
             /\ d \in Nat /\ d # 0 /\ d + n \in DOMAIN F.ahead
             /\ Drained(F).ahead[d] = F.ahead[d + n]
  BY <1>6, DrainedFields
<1> HIDE DEF n, s, m
<1>11. s + n <= m + 1
  <2>1. CASE n = 0
    <3>1. s <= m
      BY <1>1, <1>3 DEF m, s
    <3> QED
      BY <1>1, <1>3, <2>1, <3>1
  <2>2. CASE n # 0
    <3>1. n - 1 \in DOMAIN F.ahead
      BY <1>8, <2>2
    <3>2. s + (n - 1) \in 0..m
      BY <1>7, <3>1
    <3> QED
      BY <1>1, <1>3, <1>8, <3>2
  <2> QED
    BY <2>1, <2>2
<1>12. \A j \in 1..n : Run(F)[j] = Registration(f, s + j - 1)
  <2>1. \A j \in 1..n : s + (j - 1) = s + j - 1
    BY <1>3, <1>8
  <2> QED
    BY <1>7, <1>9, <2>1
<1>13. Drained(F).start = s + n
  <2>1. s + n \in 0..(OrderCount - 1)
    BY <1>1, <1>3, <1>8, <1>11
  <2>2. (s + n) % OrderCount = s + n
    <3> DEFINE a == s + n
    <3>1. a \in 0..(OrderCount - 1)
      BY <2>1
    <3> HIDE DEF a
    <3>2. a % OrderCount = a
      BY <1>1, <3>1, ModSmall
    <3> QED
      BY <3>2 DEF a
  <2> QED
    BY <1>6, <1>10, <2>2
<1>14. ASSUME NEW k \in 0..(s + n - 1) PROVE k + 1 \in c.seen
  <2>1. CASE k < s
    <3>1. k \in 0..(w.start - 1)
      BY <1>3, <1>8, <2>1 DEF s
    <3> QED
      BY <3>1 DEF Registering
  <2>2. CASE ~(k < s)
    <3>1. k - s \in 0..(n - 1) /\ s + (k - s) + 1 = k + 1
      BY <1>3, <1>8, <2>2
    <3> QED
      BY <1>7, <1>8, <3>1
  <2> QED
    BY <2>1, <2>2
<1>15. ASSUME NEW d \in DOMAIN Drained(F).ahead
       PROVE  /\ d # 0 /\ s + n + d \in 0..m
              /\ Drained(F).ahead[d] = Registration(f, s + n + d)
              /\ s + n + d + 1 \in c.seen
  <2>1. d \in Nat /\ d # 0 /\ d + n \in DOMAIN F.ahead /\ Drained(F).ahead[d] = F.ahead[d + n]
    BY <1>10
  <2>2. s + (d + n) = s + n + d
    BY <1>3, <1>8, <2>1
  <2> QED
    BY <1>7, <2>1, <2>2
<1> QED
  BY <1>5, <1>6, <1>10, <1>11, <1>12, <1>13, <1>14, <1>15 DEF n, s, m, F

\* Before the first message on them the channels are as they were made.
Untouched(f, d) ==
    /\ \A channel \in AppChannel : d.inbox[channel] = <<>>
    /\ \A channel \in AppChannel \cap Channels(f) :
          LET o == d.orderers[LocalId(f, channel)] IN
          /\ o \in {NoOrderer, NewOrderer}
          /\ d.phase = "Transfer" /\ channel \in Ordered => o = NewOrderer

LEMMA RegistrationUntouched ==
  ASSUME NEW e \in Endpoint, NEW c, Own(e, c), c.phase = "Registration"
  PROVE  /\ Untouched(Peer(e), c)
         /\ c.received_last => Untouched(Peer(e), Transfer(c))
<1> DEFINE f == Peer(e)
           mgmt == c.orderers[MgmtStage]
<1>1. f \in Endpoint /\ c \in Connections /\ Handshake(f, c)
  BY Peers DEF Own, Typed
<1>2. \A channel \in AppChannel : c.inbox[channel] = <<>>
  BY <1>1 DEF Handshake
<1>3. \A channel \in Channels(f) :
         /\ LocalId(f, channel) \in 0..(Count(f) - 1) /\ LocalId(f, channel) \in Ids \ {MgmtStage}
         /\ Registry[f][LocalId(f, channel) + 1] = channel
  <2>1. \A id \in 0..(Count(f) - 1) : id \in Ids \ {MgmtStage}
    BY <1>1, Sizes
  <2> QED
    BY ONLY <1>1, <2>1, LocalIds
<1>4. \A channel \in Channels(f) : c.orderers[LocalId(f, channel)] \in {NoOrderer, NewOrderer}
  BY <1>1, <1>3 DEF Handshake
<1>5. Untouched(f, c)
  BY <1>2, <1>4 DEF Untouched
<1>6. ASSUME c.received_last PROVE Untouched(f, Transfer(c))
  <2>1. Registering(f, c, mgmt.window) /\ Len(c.remote) = Count(f)
    <3>1. Registering(f, c, mgmt.window)
      BY <1>1, <1>6 DEF Handshake
    <3>2. mgmt.window.start = Count(f) + 1 /\ Count(f) \in Nat
      BY <1>1, <1>6, <3>1, Sizes DEF Registering
    <3> QED
      BY <3>1, <3>2 DEF Registering
  <2>2. \A i \in 1..Count(f) : c.remote[i] = Registry[f][i]
    <3>1. DOMAIN c.remote = 1..Count(f)
      BY <1>1, <2>1, ConnectionFields
    <3> QED
      BY <1>1, <3>1 DEF Handshake
  <2>3. \A channel \in Channels(f) \cap Ordered : c.orderers[LocalId(f, channel)] = NewOrderer
    <3> SUFFICES ASSUME NEW channel \in Channels(f) \cap Ordered
                 PROVE  c.orderers[LocalId(f, channel)] = NewOrderer
      OBVIOUS
    <3> DEFINE id == LocalId(f, channel)
    <3>1. id \in 0..(Count(f) - 1) /\ Registry[f][id + 1] = channel
      BY <1>3
    <3> HIDE DEF id
    <3>2. id + 1 \in 1..Count(f)
      BY <1>1, <3>1, Sizes
    <3>3. c.remote[id + 1] \in Ordered /\ id \in 0..(Len(c.remote) - 1)
      BY <2>1, <2>2, <3>1, <3>2
    <3> QED
      BY <1>1, <3>3 DEF Handshake, id
  <2>4. Transfer(c).inbox = c.inbox /\ Transfer(c).orderers = c.orderers
    BY <1>1, TransferFields
  <2> QED
    BY <1>2, <1>4, <2>3, <2>4 DEF Untouched
<1> QED
  BY <1>5, <1>6

LEMMA RegistrationsKeep ==
  ASSUME NEW e \in Endpoint, NEW c, NEW q, Own(e, c), Link(e, c, q), c.phase = "Registration",
         NEW i \in 0..Count(Peer(e)), i + 1 \in c.seen,
         c.orderers[MgmtStage].present => c.orderers[MgmtStage].window.start <= i
  PROVE  LET d == HandleOrdered(e, c, Mgmt, Registration(Peer(e), i)) IN
         /\ Own(e, d) /\ Link(e, d, q) /\ Grows(c, d)
         /\ d.sent = c.sent /\ d.orders = c.orders /\ d.count = c.count /\ d.inbox = c.inbox
         /\ Channels(Peer(e)) \subseteq Channels(e) => d.alive = c.alive
         /\ d.phase # "Absent" /\ Untouched(Peer(e), d) /\ d.seen \subseteq c.seen
<1> DEFINE f == Peer(e)
           p == Registration(f, i)
           o == c.orderers[MgmtStage]
           F == Put(o.window, i, p)
           run == Run(F)
           n == Handled(e, run)
           after == HandleRun(c, Mgmt, SubSeq(run, 1, n))
           d == HandleOrdered(e, c, Mgmt, p)
<1>1. /\ f \in Endpoint /\ Peer(f) = e
      /\ c \in Connections /\ Handshake(f, c) /\ c.orderers \in [Ids -> Orderer]
  BY Peers, ConnectionFields DEF Own, Typed
<1>2. p.id = MgmtStage /\ p.order = i /\ MgmtStage \in Ids
  BY <1>1, RegistrationFields, Sizes
<1>3. o \in Orderer
  BY <1>1, <1>2
<1>4. d = IF ~o.present THEN [c EXCEPT !.alive = FALSE]
          ELSE IF ~Accepts(o.window, i, WindowSize[Mgmt])
          THEN [c EXCEPT !.orderers[MgmtStage] = NoOrderer]
          ELSE IF n < Len(run)
          THEN [after EXCEPT !.orderers[MgmtStage] = NoOrderer]
          ELSE [after EXCEPT !.orderers[MgmtStage].window = Drained(F)]
  <2> HIDE DEF p
  <2> QED
    BY <1>2 DEF HandleOrdered
<1> HIDE DEF d
<1>5. CASE ~o.present
  <2>1. d = [c EXCEPT !.alive = FALSE]
    BY <1>4, <1>5
  <2>2. /\ Own(e, d) /\ Link(e, d, q) /\ Grows(c, d)
        /\ d.sent = c.sent /\ d.orders = c.orders /\ d.count = c.count
    BY <2>1, PanicKeeps
  <2>3. d.inbox = c.inbox /\ d.phase = c.phase /\ d.seen = c.seen
    BY <1>1, <2>1 DEF Connections
  <2>4. ~(Channels(f) \subseteq Channels(e))
    BY <1>1, <1>5 DEF Handshake
  <2>5. Untouched(f, d)
    BY <2>2, <2>3, RegistrationUntouched
  <2> QED
    BY <2>2, <2>3, <2>4, <2>5 DEF d
<1>6. CASE o.present
  <2> DEFINE w == o.window
             s == w.start
             m == Count(f)
             R == RunLength(F)
             W == Drained(F)
  <2>1. w \in Windows /\ Registering(f, c, w) /\ w.start <= i
    BY <1>1, <1>3, <1>6 DEF Orderer, Handshake
  <2>2. m \in Nat /\ s \in Nat /\ s <= m /\ m < MgmtStage /\ MgmtStage \in Nat
    <3>1. s \in Nat
      BY <2>1, WindowFields
    <3>2. m \in Nat /\ m < MgmtStage /\ MgmtStage \in Nat /\ i \in 0..m
      BY <1>1, Sizes
    <3>3. s <= i
      BY <2>1
    <3> HIDE DEF s, m
    <3> QED
      BY <3>1, <3>2, <3>3
  <2>3. /\ F \in Windows /\ Accepts(w, i, WindowSize[Mgmt])
        /\ s + R <= m + 1
        /\ \A j \in 1..R : run[j] = Registration(f, s + j - 1)
        /\ W \in Windows /\ W.start = s + R
        /\ \A k \in 0..(s + R - 1) : k + 1 \in c.seen
        /\ \A x \in DOMAIN W.ahead :
               /\ x # 0 /\ s + R + x \in 0..m
               /\ W.ahead[x] = Registration(f, s + R + x)
               /\ s + R + x + 1 \in c.seen
    BY <1>1, <2>1, RegistrationPut
  <2> HIDE DEF F, o
  <2>4. run \in Seq(Packet) /\ Len(run) = R /\ R \in Nat
    BY <2>3, RunFields, RunLengthIs
  <2> HIDE DEF run
  <2>5. n \in 0..R /\ (n < R => run[n + 1].name \notin Channels(e) \cup {Nameless})
    BY <2>4, HandledIs
  <2> HIDE DEF n
  <2>6. ~c.received_last /\ Len(c.remote) = s /\ \A k \in 1..s : c.remote[k] = Registry[f][k]
    <3>1. DOMAIN c.remote = 1..Len(c.remote)
      BY <1>1, ConnectionFields
    <3> QED
      BY <1>1, <2>1, <2>2, <3>1 DEF Registering, Handshake
  <2> DEFINE part == SubSeq(run, 1, n)
  <2>7. part \in Seq(Packet) /\ Len(part) = n /\ \A j \in 1..n : part[j] = Registration(f, s + j - 1)
    BY <2>3, <2>4, <2>5, FirstPart
  <2> HIDE DEF part
  <2>8. s \in 0..Count(f) /\ n \in Nat /\ s + n <= Count(f) + 1
    BY <2>2, <2>3, <2>4, <2>5
  <2> HIDE DEF s, R, W, w
  <2>9. PICK x \in Connections :
            /\ HandleRegistrations(c, part) = ConvertIfPossible(x)
            /\ Registered(f, c, s, n, x)
            /\ x.phase = c.phase /\ x.last_key = c.last_key /\ x.next_key = c.next_key
            /\ x.resender = c.resender /\ x.seen = c.seen /\ x.acks = c.acks
            /\ x.orders = c.orders /\ x.inbox = c.inbox /\ x.alive = c.alive
            /\ x.count = c.count /\ x.sent = c.sent
            /\ x.received_last = (s + n = Count(f) + 1)
            /\ Len(x.remote) = IF s + n <= Count(f) THEN s + n ELSE Count(f)
            /\ \A k \in 1..Len(x.remote) : x.remote[k] = Registry[f][k]
            /\ \A id \in Ids : x.orderers[id] =
                  IF id \in s..(Len(x.remote) - 1) /\ x.remote[id + 1] \in Ordered
                  THEN NewOrderer ELSE c.orderers[id]
    <3> HIDE DEF f
    <3>1. f \in Endpoint /\ c \in Connections /\ c.phase = "Registration"
      BY <1>1
    <3>2. \E x \in Connections :
             HandleRegistrations(c, part) = ConvertIfPossible(x) /\ Registered(f, c, s, n, x)
      BY ONLY <3>1, <2>6, <2>7, <2>8, RegistrationsHandled
    <3> QED
      BY ONLY <3>2 DEF Registered
  <2>10. after = ConvertIfPossible(x)
    <3>1. Mgmt # Ack
      BY <1>1, Names
    <3> QED
      BY <2>9, <3>1 DEF HandleRun, part
  <2>11. /\ Len(x.remote) <= m /\ DOMAIN x.remote = 1..Len(x.remote) /\ Len(x.remote) \in Nat
         /\ s <= Len(x.remote)
    BY <2>2, <2>8, <2>9, ConnectionFields
  <2>15. \A id \in 0..(Len(x.remote) - 1) : id \in Ids \ {MgmtStage}
    <3>1. m < MgmtStage /\ Ids = 0..(NullChannelId - 1) /\ MgmtStage = NullChannelId - 2
          /\ NullChannelId \in Nat
      BY <1>1, Sizes
    <3> HIDE DEF m
    <3> QED
      BY <2>2, <2>11, <3>1
  <2>12. /\ \A id \in Ids \ {MgmtStage} : x.orderers[id] \in {NoOrderer, NewOrderer}
         /\ \A id \in 0..(Len(x.remote) - 1) :
               x.remote[id + 1] \in Ordered => x.orderers[id] = NewOrderer
         /\ \A channel \in AppChannel : x.inbox[channel] = <<>>
         /\ x.orderers[MgmtStage] = c.orderers[MgmtStage]
    <3>1. \A id \in Ids \ {MgmtStage} : x.orderers[id] \in {NoOrderer, NewOrderer}
      BY <1>1, <2>9 DEF Handshake
    <3>2. ASSUME NEW id \in 0..(Len(x.remote) - 1), x.remote[id + 1] \in Ordered
          PROVE  x.orderers[id] = NewOrderer
      <4>1. id \in Ids
        BY <2>15
      <4>2. CASE id \in s..(Len(x.remote) - 1)
        BY <2>9, <3>2, <4>1, <4>2
      <4>3. CASE id \notin s..(Len(x.remote) - 1)
        <5>1. id \in 0..(Len(c.remote) - 1)
          BY <2>2, <2>6, <2>11, <4>3
        <5>2. x.remote[id + 1] = c.remote[id + 1]
          <6>1. id + 1 \in 1..s /\ id + 1 \in 1..Len(x.remote)
            BY <2>2, <2>6, <2>11, <5>1
          <6> QED
            BY <2>6, <2>9, <6>1
        <5>3. c.orderers[id] = NewOrderer
          BY <1>1, <3>2, <5>1, <5>2 DEF Handshake
        <5> QED
          BY <2>9, <4>1, <4>3, <5>3
      <4> QED
        BY <4>2, <4>3
    <3>3. \A channel \in AppChannel : x.inbox[channel] = <<>>
      BY <1>1, <2>9 DEF Handshake
    <3>4. x.orderers[MgmtStage] = c.orderers[MgmtStage]
      BY <1>2, <2>2, <2>9, <2>11
    <3> QED
      BY <3>1, <3>2, <3>3, <3>4
  <2>13. CASE n < R
    <3> DEFINE y == [x EXCEPT !.orderers[MgmtStage] = NoOrderer]
    <3>1. s + n <= m /\ ~x.received_last
      <4> HIDE DEF m
      <4>1. s + n <= m
        BY <2>2, <2>3, <2>4, <2>5, <2>13
      <4>2. s + n # m + 1
        BY <2>2, <2>4, <2>5, <4>1
      <4> QED
        BY <2>9, <4>1, <4>2 DEF m
    <3>2. d = y
      <4>1. after = x
        BY <2>10, <3>1 DEF ConvertIfPossible
      <4> QED
        BY <1>4, <1>6, <2>3, <2>4, <2>13, <4>1 DEF w
    <3>3. /\ y \in Connections
          /\ y.phase = x.phase /\ y.received_last = x.received_last /\ y.last_key = x.last_key
          /\ y.next_key = x.next_key /\ y.resender = x.resender /\ y.seen = x.seen
          /\ y.acks = x.acks /\ y.orders = x.orders /\ y.remote = x.remote
          /\ y.inbox = x.inbox /\ y.alive = x.alive /\ y.count = x.count /\ y.sent = x.sent
          /\ y.orderers[MgmtStage] = NoOrderer
          /\ \A id \in Ids \ {MgmtStage} : y.orderers[id] = x.orderers[id]
      BY <1>2, EmptyIsWindow, OrdererPut
    <3> HIDE DEF y
    <3>4. ~(Channels(f) \subseteq Channels(e))
      <4> DEFINE r == Registration(f, s + n)
      <4>1. n + 1 \in 1..R /\ s + (n + 1) - 1 = s + n
        BY <2>2, <2>4, <2>5, <2>13
      <4>2. run[n + 1] = r
        BY <2>3, <4>1
      <4>3. s + n \in 0..Count(f)
        BY <2>2, <2>8, <3>1
      <4>4. r.name = Nameless \/ r.name \in Channels(f)
        <5> DEFINE k == s + n
        <5>1. k \in 0..Count(f)
          BY <4>3
        <5> HIDE DEF k
        <5>2. CASE k = Count(f)
          BY <1>1, <5>1, <5>2, RegistrationFields DEF k
        <5>3. CASE k < Count(f)
          <6>1. k \in 0..(Count(f) - 1)
            BY <1>1, <5>1, <5>3, Sizes
          <6> QED
            BY <1>1, <5>1, <5>3, <6>1, RegistrationFields, LocalIdOf DEF k
        <5> QED
          BY <1>1, <5>1, <5>2, <5>3, Sizes
      <4> QED
        BY <2>5, <2>13, <4>2, <4>4
    <3>5. Handshake(f, y)
      <4>1. /\ Len(y.remote) <= Count(f) /\ \A k \in DOMAIN y.remote : y.remote[k] = Registry[f][k]
        BY <2>9, <2>11, <3>3
      <4> HIDE DEF f
      <4>2. /\ \A id \in Ids \ {MgmtStage} : y.orderers[id] \in {NoOrderer, NewOrderer}
            /\ \A id \in 0..(Len(y.remote) - 1) :
                  y.remote[id + 1] \in Ordered => y.orderers[id] = NewOrderer
            /\ \A channel \in AppChannel : y.inbox[channel] = <<>>
        BY <2>12, <2>15, <3>3
      <4>3. ~y.orderers[MgmtStage].present /\ ~y.received_last /\ y.phase = "Registration"
        BY <2>9, <3>1, <3>3, EmptyIsWindow
      <4> QED
        BY <1>1, <3>4, <4>1, <4>2, <4>3 DEF Handshake
    <3>6. Own(e, y) /\ Link(e, y, q) /\ Grows(c, y)
      BY <2>9, <3>3, <3>5, RegistrationStep
    <3>7. Untouched(f, y) /\ y.seen = c.seen /\ y.phase = "Registration"
      BY <2>9, <3>3, <3>6, RegistrationUntouched
    <3> QED
      BY <2>9, <3>2, <3>3, <3>4, <3>6, <3>7 DEF d
  <2>14. CASE ~(n < R)
    <3> DEFINE v == [x.orderers[MgmtStage] EXCEPT !.window = W]
               y == [x EXCEPT !.orderers[MgmtStage] = v]
    <3>1. n = R
      BY <2>4, <2>5, <2>14
    <3>2. /\ v \in Orderer /\ v.window = W /\ v.present = x.orderers[MgmtStage].present
          /\ y = [x EXCEPT !.orderers[MgmtStage].window = W]
      BY <1>2, <2>3, WindowPut
    <3>3. d = [after EXCEPT !.orderers[MgmtStage].window = W]
      BY <1>4, <1>6, <2>3, <2>4, <2>14 DEF w, W
    <3>4. d = ConvertIfPossible(y)
      <4>1. d = [ConvertIfPossible(x) EXCEPT !.orderers[MgmtStage].window = W]
        BY <2>10, <3>3
      <4>2. [ConvertIfPossible(x) EXCEPT !.orderers[MgmtStage].window = W] =
               ConvertIfPossible([x EXCEPT !.orderers[MgmtStage].window = W])
        BY <1>2, <2>3, ConvertCommutes
      <4> HIDE DEF v
      <4> QED
        BY <3>2, <4>1, <4>2
    <3> HIDE DEF v
    <3>5. /\ y \in Connections
          /\ y.phase = x.phase /\ y.received_last = x.received_last /\ y.last_key = x.last_key
          /\ y.next_key = x.next_key /\ y.resender = x.resender /\ y.seen = x.seen
          /\ y.acks = x.acks /\ y.orders = x.orders /\ y.remote = x.remote
          /\ y.inbox = x.inbox /\ y.alive = x.alive /\ y.count = x.count /\ y.sent = x.sent
          /\ y.orderers[MgmtStage] = v
          /\ \A id \in Ids \ {MgmtStage} : y.orderers[id] = x.orderers[id]
      BY <1>2, <3>2, OrdererPut
    <3> HIDE DEF y
    <3>6. v.present
      BY <1>6, <2>12, <3>2 DEF o
    <3>7. Registering(f, y, W)
      <4>1. Len(y.remote) = IF s + R <= Count(f) THEN s + R ELSE Count(f)
        BY <2>9, <3>1, <3>5
      <4>2. (y.received_last <=> s + R = Count(f) + 1) /\ y.seen = c.seen
        BY <2>9, <3>1, <3>5
      <4>3. W.start = s + R /\ W.start <= Count(f) + 1
        BY <2>3
      <4>4. \A k \in 0..(W.start - 1) : k + 1 \in y.seen
        <5>1. \A k \in 0..(s + R - 1) : k + 1 \in c.seen
          BY <2>3
        <5>2. y.seen = c.seen /\ W.start = s + R
          BY <4>2, <4>3
        <5> QED
          BY <2>2, <2>4, <5>1, <5>2
      <4>5. \A x1 \in DOMAIN W.ahead :
               /\ x1 # 0 /\ W.start + x1 \in 0..Count(f)
               /\ W.ahead[x1] = Registration(f, W.start + x1)
               /\ W.start + x1 + 1 \in y.seen
        BY <2>3, <4>2
      <4> HIDE DEF f, m
      <4> QED
        BY <4>1, <4>2, <4>3, <4>4, <4>5 DEF Registering
    <3>8. Handshake(f, y)
      <4>1. /\ Len(y.remote) <= Count(f) /\ \A k \in DOMAIN y.remote : y.remote[k] = Registry[f][k]
        BY <2>9, <2>11, <3>5
      <4> HIDE DEF f, m
      <4>2. /\ \A id \in Ids \ {MgmtStage} : y.orderers[id] \in {NoOrderer, NewOrderer}
            /\ \A id \in 0..(Len(y.remote) - 1) :
                  y.remote[id + 1] \in Ordered => y.orderers[id] = NewOrderer
            /\ \A channel \in AppChannel : y.inbox[channel] = <<>>
        BY <2>12, <2>15, <3>5
      <4>3. y.orderers[MgmtStage].present /\ y.orderers[MgmtStage].window = W
        BY <3>2, <3>5, <3>6
      <4>4. y.phase = "Registration"
        BY <2>9, <3>5
      <4> QED
        BY <3>7, <4>1, <4>2, <4>3, <4>4 DEF Handshake
    <3>9. Own(e, y) /\ Link(e, y, q) /\ Grows(c, y)
      BY <2>9, <3>5, <3>8, RegistrationStep
    <3>10. /\ Own(e, d) /\ Link(e, d, q) /\ Grows(y, d)
           /\ \/ d = y
              \/ y.phase = "Registration" /\ y.received_last /\ d = Transfer(y)
      BY <3>4, <3>9, ConvertKeeps
    <3>11. /\ d.sent = y.sent /\ d.orders = y.orders /\ d.count = y.count /\ d.inbox = y.inbox
           /\ d.alive = y.alive
      <4>1. /\ Transfer(y).sent = y.sent /\ Transfer(y).orders = y.orders
            /\ Transfer(y).count = y.count /\ Transfer(y).inbox = y.inbox
            /\ Transfer(y).alive = y.alive
        BY ONLY <3>5, TransferFields
      <4> QED
        BY ONLY <3>10, <4>1
    <3>12. Untouched(f, d)
      <4>1. y.phase = "Registration" /\ Own(e, y)
        BY <2>9, <3>5, <3>9
      <4>2. Untouched(f, y) /\ (y.received_last => Untouched(f, Transfer(y)))
        BY ONLY <1>1, <4>1, e \in Endpoint, RegistrationUntouched DEF f
      <4> QED
        BY ONLY <3>10, <4>2
    <3>13. d.seen \subseteq c.seen /\ d.phase # "Absent"
      BY <2>9, <3>5, <3>10, TransferFields
    <3> QED
      BY <2>9, <3>5, <3>9, <3>10, <3>11, <3>12, <3>13, GrowsOnwards DEF d
  <2> QED
    BY <2>13, <2>14
<1> QED
  BY <1>5, <1>6

-----------------------------------------------------------------------------
(* Messages *)

LEMMA ReadsKeeps ==
  ASSUME NEW e \in Endpoint, NEW c, NEW q, Own(e, c), Link(e, c, q), c.phase = "Transfer",
         NEW d \in Connections, Reads(c, d),
         Once(Peer(e), d), Delivery(d, q), Waiting(Peer(e), d, q)
  PROVE  Own(e, d) /\ Link(e, d, q) /\ Grows(c, d)
<1>1. Typed(e, d) /\ Unique(d)
  BY DEF Own, Typed, Unique, Reads
<1>2. Sent(e, d)
  <2>1. \A p \in c.sent : Sendable(e, d, p)
    BY SendableLater DEF Own, Sent, Reads
  <2> QED
    BY <2>1 DEF Own, Sent, Reads
<1>3. Phases(e, d) /\ Handshake(Peer(e), d)
  BY DEF Own, Phases, Handshake, Reads
<1>4. LastArrived(e, d, q) /\ Grows(c, d)
  BY DEF LastArrived, Link, Grows, Reads
<1> QED
  BY <1>1, <1>2, <1>3, <1>4 DEF Own, Link

\* The messages of a run are added to an inbox.
Messages(run) == [i \in DOMAIN run |-> run[i].msg]

Appends(c, d, channel, run) ==
    /\ d \in Connections /\ Reads(c, d) /\ d.alive = c.alive /\ d.orderers = c.orderers
    /\ d.inbox[channel] = c.inbox[channel] \o Messages(run)
    /\ \A other \in AppChannel \ {channel} : d.inbox[other] = c.inbox[other]

LEMMA InboxPut ==
  ASSUME NEW c \in Connections, NEW channel \in AppChannel, NEW run \in Seq(Packet)
  PROVE  Appends(c, [c EXCEPT !.inbox[channel] = @ \o Messages(run)], channel, run)
<1> DEFINE more  == c.inbox[channel] \o Messages(run)
           inbox == [c.inbox EXCEPT ![channel] = more]
           d     == [c EXCEPT !.inbox[channel] = @ \o Messages(run)]
<1>1. c.inbox \in [AppChannel -> Seq(Nat)]
  BY ConnectionFields
<1>2. Messages(run) \in Seq(Nat)
  <2>1. \A i \in DOMAIN run : run[i].msg \in Nat
    <3>1. \A i \in DOMAIN run : run[i] \in Packet
      OBVIOUS
    <3>2. \A p \in Packet : p.msg \in Nat
      BY DEF Packet
    <3> QED
      BY <3>1, <3>2
  <2>2. DOMAIN run = 1..Len(run) /\ Len(run) \in Nat
    OBVIOUS
  <2> QED
    BY <2>1, <2>2 DEF Messages
<1>3. more \in Seq(Nat)
  <2>1. c.inbox[channel] \in Seq(Nat)
    BY <1>1
  <2> QED
    BY <1>2, <2>1
<1>4. d = [c EXCEPT !.inbox = inbox]
  BY DEF Connections
<1> HIDE DEF more
<1>5. inbox \in [AppChannel -> Seq(Nat)] /\ inbox[channel] = more
      /\ \A other \in AppChannel \ {channel} : inbox[other] = c.inbox[other]
  BY <1>1, <1>3
<1> HIDE DEF inbox, d
<1>6. d \in Connections /\ Reads(c, d) /\ d.alive = c.alive /\ d.orderers = c.orderers
      /\ d.inbox = inbox
  BY <1>4, <1>5 DEF Connections, Reads
<1>7. Appends(c, d, channel, run)
  BY <1>5, <1>6 DEF more, Appends
<1> QED
  BY <1>7 DEF d

\* A packet of an ordered channel is put into its window, and the run that it
\* completes is handed over.
HandsOver(c, d, id, channel, w) ==
    /\ Reads(c, d) /\ d.alive = c.alive
    /\ d.inbox[channel] = c.inbox[channel] \o Messages(Run(w))
    /\ \A other \in AppChannel \ {channel} : d.inbox[other] = c.inbox[other]
    /\ d.orderers[id].present /\ d.orderers[id].window = Drained(w)
    /\ \A other \in Ids \ {id} : d.orderers[other] = c.orderers[other]

\* A channel whose orderer refuses a packet loses the orderer.
Drops(c, d, id) ==
    /\ Reads(c, d) /\ d.alive = c.alive /\ d.inbox = c.inbox
    /\ d.orderers[id] = NoOrderer
    /\ \A other \in Ids \ {id} : d.orderers[other] = c.orderers[other]

LEMMA OrderedOutcome ==
  ASSUME NEW e \in Endpoint, NEW c \in Connections, c.phase = "Transfer",
         NEW channel \in AppChannel \cap Ordered, NEW p \in Packet, p.name = Nameless,
         \A x \in DOMAIN c.orderers[p.id].window.ahead :
            c.orderers[p.id].window.ahead[x].name = Nameless
  PROVE  LET o == c.orderers[p.id]
             d == HandleOrdered(e, c, channel, p)
             accepted == Accepts(o.window, p.order, WindowSize[channel]) IN
         /\ d \in Connections
         /\ ~o.present => d = [c EXCEPT !.alive = FALSE]
         /\ o.present /\ ~accepted => Drops(c, d, p.id)
         /\ o.present /\ accepted => HandsOver(c, d, p.id, channel, Put(o.window, p.order, p))
<1> DEFINE o   == c.orderers[p.id]
           F   == Put(o.window, p.order, p)
           run == Run(F)
           n   == Handled(e, run)
           after == HandleRun(c, channel, SubSeq(run, 1, n))
           d   == HandleOrdered(e, c, channel, p)
           accepted == Accepts(o.window, p.order, WindowSize[channel])
<1>1. p.id \in Ids /\ p.order \in Nat
  BY DEF Packet
<1>2. c.orderers \in [Ids -> Orderer]
  BY ConnectionFields
<1>3. o \in Orderer /\ o.window \in Windows
  BY <1>1, <1>2 DEF Orderer
<1>4. d = IF ~o.present THEN [c EXCEPT !.alive = FALSE]
          ELSE IF ~accepted
          THEN [c EXCEPT !.orderers[p.id] = NoOrderer]
          ELSE IF n < Len(run)
          THEN [after EXCEPT !.orderers[p.id] = NoOrderer]
          ELSE [after EXCEPT !.orderers[p.id].window = Drained(F)]
  BY DEF HandleOrdered
<1> HIDE DEF d, accepted
<1>5. CASE ~o.present
  <2>1. d = [c EXCEPT !.alive = FALSE]
    BY <1>4, <1>5
  <2>2. d \in Connections
    BY <2>1 DEF Connections
  <2> QED
    BY <1>5, <2>1, <2>2 DEF d
<1>6. CASE o.present /\ ~accepted
  <2>1. d = [c EXCEPT !.orderers[p.id] = NoOrderer]
    BY <1>4, <1>6
  <2>2. /\ d \in Connections
        /\ d.phase = c.phase /\ d.received_last = c.received_last /\ d.last_key = c.last_key
        /\ d.next_key = c.next_key /\ d.resender = c.resender /\ d.seen = c.seen
        /\ d.acks = c.acks /\ d.orders = c.orders /\ d.remote = c.remote
        /\ d.inbox = c.inbox /\ d.alive = c.alive /\ d.count = c.count /\ d.sent = c.sent
        /\ d.orderers[p.id] = NoOrderer
        /\ \A i \in Ids \ {p.id} : d.orderers[i] = c.orderers[i]
    BY <1>1, <2>1, EmptyIsWindow, OrdererPut
  <2>3. Drops(c, d, p.id)
    BY <2>2 DEF Drops, Reads
  <2> QED
    BY <1>6, <2>2, <2>3 DEF d, accepted
<1>7. CASE o.present /\ accepted
  <2> HIDE DEF o
  <2>1. /\ F \in Windows
        /\ DOMAIN F.ahead = DOMAIN o.window.ahead \cup {Distance(o.window, p.order)}
        /\ F.ahead[Distance(o.window, p.order)] = p
        /\ \A x \in DOMAIN o.window.ahead :
              x # Distance(o.window, p.order) => F.ahead[x] = o.window.ahead[x]
    <3>1. o.window \in Windows /\ p.order \in Nat /\ p \in Packet
      BY <1>1, <1>3
    <3> QED
      BY ONLY <3>1, PutAhead, Zenon DEF F
  <2> HIDE DEF F
  <2>2. \A x \in DOMAIN F.ahead : F.ahead[x].name = Nameless
    BY <2>1 DEF o
  <2>3. /\ run \in Seq(Packet) /\ Len(run) = RunLength(F) /\ DOMAIN run = 1..Len(run)
        /\ \A i \in 1..Len(run) : run[i].name = Nameless
    BY <2>1, <2>2, RunFields
  <2>4. Len(run) \in Nat
    BY <2>3
  <2> HIDE DEF run
  <2>5. n \in 0..Len(run) /\ (n < Len(run) => run[n + 1].name # Nameless)
    BY <2>3, HandledIs
  <2> HIDE DEF n
  <2>6. n = Len(run)
    <3>1. n < Len(run) => n + 1 \in 1..Len(run)
      BY <2>4, <2>5
    <3> QED
      BY <2>3, <2>4, <2>5, <3>1
  <2>7. SubSeq(run, 1, n) = run
    <3>1. /\ SubSeq(run, 1, n) \in Seq(Packet) /\ Len(SubSeq(run, 1, n)) = n
          /\ \A i \in 1..n : SubSeq(run, 1, n)[i] = run[i]
      BY <2>3, <2>5, FirstPart
    <3> QED
      BY <2>3, <2>6, <3>1
  <2>8. after = [c EXCEPT !.inbox[channel] = @ \o Messages(run)]
    <3>1. channel # Ack /\ channel # Mgmt
      BY Names
    <3>2. after = HandleRun(c, channel, run)
      BY <2>7
    <3> QED
      BY <3>1, <3>2 DEF HandleRun, Messages
  <2> HIDE DEF after
  <2>9. /\ after \in Connections /\ Reads(c, after) /\ after.alive = c.alive
        /\ after.orderers = c.orderers
        /\ after.inbox[channel] = c.inbox[channel] \o Messages(run)
        /\ \A other \in AppChannel \ {channel} : after.inbox[other] = c.inbox[other]
    <3>1. c \in Connections /\ channel \in AppChannel /\ run \in Seq(Packet)
      BY <2>3
    <3>2. Appends(c, after, channel, run)
      BY ONLY <2>8, <3>1, InboxPut
    <3> QED
      BY ONLY <3>2 DEF Appends
  <2> DEFINE W == Drained(F)
             v == [after.orderers[p.id] EXCEPT !.window = W]
             y == [after EXCEPT !.orderers[p.id] = v]
  <2>10. W \in Windows
    BY <2>1, DrainedFields
  <2> HIDE DEF W
  <2>11. /\ v \in Orderer /\ v.window = W /\ v.present = o.present
         /\ y = [after EXCEPT !.orderers[p.id].window = W]
    BY <1>1, <2>9, <2>10, WindowPut DEF o
  <2>12. d = y
    BY <1>4, <1>7, <2>4, <2>6, <2>11 DEF W
  <2> HIDE DEF v
  <2>13. /\ y \in Connections
         /\ y.phase = after.phase /\ y.received_last = after.received_last
         /\ y.last_key = after.last_key
         /\ y.next_key = after.next_key /\ y.resender = after.resender /\ y.seen = after.seen
         /\ y.acks = after.acks /\ y.orders = after.orders /\ y.remote = after.remote
         /\ y.inbox = after.inbox /\ y.alive = after.alive /\ y.count = after.count
         /\ y.sent = after.sent
         /\ y.orderers[p.id] = v
         /\ \A i \in Ids \ {p.id} : y.orderers[i] = after.orderers[i]
    BY <1>1, <2>9, <2>11, OrdererPut
  <2> HIDE DEF y
  <2>14. HandsOver(c, d, p.id, channel, F)
    <3>1. Reads(c, d) /\ d.alive = c.alive
      BY ONLY <2>9, <2>12, <2>13 DEF Reads
    <3>2. /\ d.inbox[channel] = c.inbox[channel] \o Messages(Run(F))
          /\ \A other \in AppChannel \ {channel} : d.inbox[other] = c.inbox[other]
      BY ONLY <2>9, <2>12, <2>13 DEF run
    <3>3. /\ d.orderers[p.id].present /\ d.orderers[p.id].window = Drained(F)
          /\ \A other \in Ids \ {p.id} : d.orderers[other] = c.orderers[other]
      BY ONLY <1>7, <2>9, <2>11, <2>12, <2>13 DEF W
    <3> QED
      BY ONLY <3>1, <3>2, <3>3 DEF HandsOver
  <2> QED
    BY <1>7, <2>12, <2>13, <2>14 DEF d, accepted, o, F
<1> QED
  BY <1>5, <1>6, <1>7

\* A packet with a message that has not arrived yet.
Fresh(f, c, p) ==
    /\ \A i \in DOMAIN c.inbox[p.on] : c.inbox[p.on][i] # p.msg
    /\ \A d \in DOMAIN Ahead(f, c, p.on) : Ahead(f, c, p.on)[d].msg # p.msg

\* The duplicate check: the message of a packet that is not recorded is new.
LEMMA UnseenIsFresh ==
  ASSUME NEW e \in Endpoint, NEW c, NEW q, Own(e, c), Link(e, c, q), Own(Peer(e), q),
         NEW p \in q.sent, IsMessage(Peer(e), p), p.on \in Reliable, p.key \notin c.seen
  PROVE  Fresh(Peer(e), c, p)
<1> DEFINE f == Peer(e)
<1>1. p.on \in AppChannel /\ p.on \in Channels(f) /\ p.msg # 0
  BY DEF IsMessage
<1>2. \A r \in q.sent : r.msg = p.msg => r = p
  BY <1>1 DEF Own, Unique
<1>3. \A i \in DOMAIN c.inbox[p.on] : c.inbox[p.on][i] # p.msg
  <2>1. \A i \in DOMAIN c.inbox[p.on] :
           \E r \in q.sent : Taken(c, q, p.on, r) /\ r.msg = c.inbox[p.on][i]
    BY <1>1 DEF Link, Delivery
  <2> QED
    BY <1>2, <2>1 DEF Taken
<1>4. \A d \in DOMAIN Ahead(f, c, p.on) : Ahead(f, c, p.on)[d].msg # p.msg
  <2>1. \A d \in DOMAIN Ahead(f, c, p.on) : Taken(c, q, p.on, Ahead(f, c, p.on)[d])
    BY <1>1 DEF Link, Waiting
  <2> QED
    BY <1>2, <2>1 DEF Taken
<1> QED
  BY <1>3, <1>4 DEF Fresh

LEMMA FreshStays ==
  ASSUME NEW f, NEW c, NEW d, NEW p, Fresh(f, c, p), Quiet(c, d)
  PROVE  Fresh(f, d, p)
  BY DEF Fresh, Quiet, Ahead

\* What an inbox holds after a run.
LEMMA InboxIs ==
  ASSUME NEW inbox \in Seq(Nat), NEW run \in Seq(Packet)
  PROVE  LET more == inbox \o Messages(run) IN
         \A i \in DOMAIN more :
            \/ i \in DOMAIN inbox /\ more[i] = inbox[i]
            \/ i - Len(inbox) \in DOMAIN run /\ more[i] = run[i - Len(inbox)].msg
<1>1. Messages(run) \in Seq(Nat) /\ Len(Messages(run)) = Len(run)
  <2>1. \A i \in DOMAIN run : run[i].msg \in Nat
    <3>1. \A i \in DOMAIN run : run[i] \in Packet
      OBVIOUS
    <3>2. \A p \in Packet : p.msg \in Nat
      BY DEF Packet
    <3> QED
      BY <3>1, <3>2
  <2>2. DOMAIN run = 1..Len(run) /\ Len(run) \in Nat
    OBVIOUS
  <2> QED
    BY <2>1, <2>2 DEF Messages
<1>2. \A i \in 1..Len(run) : Messages(run)[i] = run[i].msg
  BY DEF Messages
<1> DEFINE more == inbox \o Messages(run)
<1>3. /\ more \in Seq(Nat) /\ Len(more) = Len(inbox) + Len(run)
      /\ \A i \in 1..Len(inbox) : more[i] = inbox[i]
      /\ \A i \in 1..Len(run) : more[Len(inbox) + i] = Messages(run)[i]
  <2>1. Messages(run) \in Seq(Nat)
    BY <1>1
  <2>2. /\ inbox \o Messages(run) \in Seq(Nat)
        /\ Len(inbox \o Messages(run)) = Len(inbox) + Len(Messages(run))
        /\ \A i \in 1..Len(inbox) : (inbox \o Messages(run))[i] = inbox[i]
        /\ \A i \in 1..Len(Messages(run)) :
              (inbox \o Messages(run))[Len(inbox) + i] = Messages(run)[i]
    BY <2>1, Joined
  <2> QED
    BY <1>1, <2>2
<1> HIDE DEF more
<1>4. ASSUME NEW i \in DOMAIN more
      PROVE  \/ i \in DOMAIN inbox /\ more[i] = inbox[i]
             \/ i - Len(inbox) \in DOMAIN run /\ more[i] = run[i - Len(inbox)].msg
  <2>1. Len(inbox) \in Nat /\ Len(run) \in Nat /\ i \in 1..(Len(inbox) + Len(run))
    BY <1>3
  <2>2. CASE i <= Len(inbox)
    BY <1>3, <2>1, <2>2
  <2>3. CASE i > Len(inbox)
    <3> DEFINE j == i - Len(inbox)
    <3>1. j \in 1..Len(run) /\ i = Len(inbox) + j
      BY <2>1, <2>3
    <3> HIDE DEF j
    <3>2. more[i] = run[j].msg /\ j \in DOMAIN run
      BY <1>2, <1>3, <3>1
    <3> QED
      BY <3>2 DEF j
  <2> QED
    BY <2>1, <2>2, <2>3
<1> QED
  BY <1>4 DEF more

LEMMA InboxOnce ==
  ASSUME NEW inbox \in Seq(Nat), IsInjective(inbox), NEW run \in Seq(Packet),
         \A i \in DOMAIN run : \A j \in DOMAIN inbox : inbox[j] # run[i].msg,
         \A i, j \in DOMAIN run : run[i].msg = run[j].msg => i = j
  PROVE  IsInjective(inbox \o Messages(run))
<1> DEFINE more == inbox \o Messages(run)
<1>1. \A i \in DOMAIN more :
         \/ i \in DOMAIN inbox /\ more[i] = inbox[i]
         \/ i - Len(inbox) \in DOMAIN run /\ more[i] = run[i - Len(inbox)].msg
  BY InboxIs
<1>2. DOMAIN more \subseteq Int
  <2>1. Messages(run) \in Seq(Nat)
    <3>1. \A i \in DOMAIN run : run[i] \in Packet
      OBVIOUS
    <3>2. \A p \in Packet : p.msg \in Nat
      BY DEF Packet
    <3>3. DOMAIN run = 1..Len(run) /\ Len(run) \in Nat
      OBVIOUS
    <3> QED
      BY <3>1, <3>2, <3>3 DEF Messages
  <2>2. more \in Seq(Nat)
    BY <2>1
  <2> HIDE DEF more
  <2> QED
    BY <2>2
<1> HIDE DEF more
<1>3. ASSUME NEW i \in DOMAIN more, NEW j \in DOMAIN more, more[i] = more[j]
      PROVE  i = j
  <2>1. Len(inbox) \in Int /\ i \in Int /\ j \in Int
    BY <1>2
  <2>2. i - Len(inbox) = j - Len(inbox) => i = j
    BY <2>1
  <2> QED
    BY <1>1, <1>3, <2>2 DEF IsInjective
<1> QED
  BY <1>3 DEF IsInjective, more

\* The messages in a window that gets one more packet.
LEMMA WindowOnce ==
  ASSUME NEW w \in Windows, NEW order \in Nat, NEW p \in Packet, NEW inbox,
         \A i \in DOMAIN inbox : inbox[i] # p.msg,
         \A x \in DOMAIN w.ahead :
            /\ w.ahead[x].msg # p.msg
            /\ \A i \in DOMAIN inbox : inbox[i] # w.ahead[x].msg
            /\ \A y \in DOMAIN w.ahead : w.ahead[x].msg = w.ahead[y].msg => x = y
  PROVE  LET F == Put(w, order, p) IN
         \A x \in DOMAIN F.ahead :
            /\ \A i \in DOMAIN inbox : inbox[i] # F.ahead[x].msg
            /\ \A y \in DOMAIN F.ahead : F.ahead[x].msg = F.ahead[y].msg => x = y
<1> DEFINE F == Put(w, order, p)
           d == Distance(w, order)
<1>1. /\ DOMAIN F.ahead = DOMAIN w.ahead \cup {d} /\ F.ahead[d] = p
      /\ \A x \in DOMAIN w.ahead : x # d => F.ahead[x] = w.ahead[x]
  BY ONLY w \in Windows, order \in Nat, p \in Packet, PutAhead, Zenon DEF F, d
<1> HIDE DEF F, d
<1>2. \A x \in DOMAIN F.ahead : \A i \in DOMAIN inbox : inbox[i] # F.ahead[x].msg
  BY <1>1
<1>3. \A x, y \in DOMAIN F.ahead : F.ahead[x].msg = F.ahead[y].msg => x = y
  BY <1>1
<1> QED
  BY <1>2, <1>3 DEF F

\* What a run of a window hands over is no longer ahead, and nothing is lost.
LEMMA HandedOverOnce ==
  ASSUME NEW F \in Windows, NEW inbox \in Seq(Nat), IsInjective(inbox),
         \A x \in DOMAIN F.ahead :
            /\ \A i \in DOMAIN inbox : inbox[i] # F.ahead[x].msg
            /\ \A y \in DOMAIN F.ahead : F.ahead[x].msg = F.ahead[y].msg => x = y
  PROVE  LET more == inbox \o Messages(Run(F))
             ahead == Drained(F).ahead IN
         /\ IsInjective(more)
         /\ \A x \in DOMAIN ahead :
               /\ \A i \in DOMAIN more : more[i] # ahead[x].msg
               /\ \A y \in DOMAIN ahead : ahead[x].msg = ahead[y].msg => x = y
<1> DEFINE run == Run(F)
           more == inbox \o Messages(run)
           ahead == Drained(F).ahead
           R == RunLength(F)
<1>1. /\ run \in Seq(Packet) /\ DOMAIN run = 1..R
      /\ \A i \in 1..R : i - 1 \in DOMAIN F.ahead /\ run[i] = F.ahead[i - 1]
  BY RunFields
<1>2. R \in Nat
  BY RunLengthIs
<1>3. \A x \in DOMAIN ahead : x \in Nat /\ x + R \in DOMAIN F.ahead /\ ahead[x] = F.ahead[x + R]
  BY DrainedFields
<1> HIDE DEF ahead, R, run
<1>4. IsInjective(more)
  <2>1. \A i \in DOMAIN run : \A j \in DOMAIN inbox : inbox[j] # run[i].msg
    BY <1>1
  <2>2. \A i, j \in DOMAIN run : run[i].msg = run[j].msg => i = j
    <3>1. \A i, j \in DOMAIN run : run[i].msg = run[j].msg => i - 1 = j - 1
      BY <1>1
    <3>2. \A i, j \in DOMAIN run : i - 1 = j - 1 => i = j
      BY <1>1, <1>2
    <3> QED
      BY <3>1, <3>2
  <2> QED
    BY <1>1, <2>1, <2>2, InboxOnce
<1>5. \A i \in DOMAIN more :
         \/ i \in DOMAIN inbox /\ more[i] = inbox[i]
         \/ i - Len(inbox) \in DOMAIN run /\ more[i] = run[i - Len(inbox)].msg
  BY <1>1, InboxIs
<1> HIDE DEF more
<1>6. ASSUME NEW x \in DOMAIN ahead, NEW i \in DOMAIN more
      PROVE  more[i] # ahead[x].msg
  <2>1. CASE i \in DOMAIN inbox /\ more[i] = inbox[i]
    BY <1>3, <2>1
  <2>2. CASE i - Len(inbox) \in DOMAIN run /\ more[i] = run[i - Len(inbox)].msg
    <3> DEFINE j == i - Len(inbox)
    <3>1. j \in 1..R /\ j - 1 \in DOMAIN F.ahead /\ more[i] = F.ahead[j - 1].msg
      BY <1>1, <2>2
    <3> HIDE DEF j
    <3>2. j - 1 # x + R
      BY <1>2, <1>3, <3>1
    <3> QED
      BY <1>3, <3>1, <3>2
  <2> QED
    BY <1>5, <2>1, <2>2
<1>7. ASSUME NEW x \in DOMAIN ahead, NEW y \in DOMAIN ahead, ahead[x].msg = ahead[y].msg
      PROVE  x = y
  <2>1. x + R = y + R
    BY <1>3, <1>7
  <2> QED
    BY <1>2, <1>3, <2>1
<1> QED
  BY <1>4, <1>6, <1>7 DEF ahead, more, run

\* The packets that wait on a channel carry messages of the channel.
LEMMA WaitingMessages ==
  ASSUME NEW e \in Endpoint, NEW c, NEW q, Own(e, c), Link(e, c, q), Own(Peer(e), q),
         NEW channel \in AppChannel \cap Channels(Peer(e)),
         NEW x \in DOMAIN Ahead(Peer(e), c, channel)
  PROVE  LET r == Ahead(Peer(e), c, channel)[x] IN
         r \in q.sent /\ r.on = channel /\ IsMessage(Peer(e), r)
<1> DEFINE r == Ahead(Peer(e), c, channel)[x]
<1>1. r \in q.sent /\ r.on = channel
  BY DEF Link, Waiting, Taken
<1> HIDE DEF r
<1>2. r.on # Nameless
  BY <1>1, Names, Peers
<1>3. Sendable(Peer(e), q, r)
  BY <1>1 DEF Own, Sent
<1>4. ~IsRegistration(Peer(e), r)
  BY <1>2, Peers, RegistrationFields DEF IsRegistration
<1> QED
  BY <1>1, <1>2, <1>3, <1>4 DEF Sendable, IsAck, r

\* The windows of two channels are not the same.
LEMMA OtherWindow ==
  ASSUME NEW f \in Endpoint, NEW channel \in Channels(f), NEW other \in Channels(f),
         LocalId(f, channel) = LocalId(f, other)
  PROVE  channel = other
<1>1. /\ Registry[f][LocalId(f, channel) + 1] = channel
      /\ Registry[f][LocalId(f, other) + 1] = other
  BY LocalIds
<1> QED
  BY <1>1

\* What happens to a message on an ordered channel.
LEMMA OrderedMessage ==
  ASSUME NEW e \in Endpoint, NEW c, NEW q, Own(e, c), Link(e, c, q), Own(Peer(e), q),
         c.phase = "Transfer", NEW p \in q.sent, IsMessage(Peer(e), p), p.on \in Ordered
  PROVE  LET o == c.orderers[p.id]
             d == HandleOrdered(e, c, p.on, p)
             accepted == Accepts(o.window, p.order, WindowSize[p.on]) IN
         /\ d \in Connections /\ o \in Orderer /\ p \in Packet /\ p.id \in Ids
         /\ Ahead(Peer(e), c, p.on) = o.window.ahead
         /\ \/ ~o.present /\ d = [c EXCEPT !.alive = FALSE]
            \/ o.present /\ ~accepted /\ Drops(c, d, p.id)
            \/ o.present /\ accepted /\ HandsOver(c, d, p.id, p.on, Put(o.window, p.order, p))
<1> DEFINE o == c.orderers[p.id]
           d == HandleOrdered(e, c, p.on, p)
           accepted == Accepts(o.window, p.order, WindowSize[p.on])
<1>1. c \in Connections /\ q \in Connections
  BY DEF Own, Typed
<1>2. p \in Packet
  BY <1>1, ConnectionFields
<1>3. p.id \in Ids /\ p.order \in Nat
  BY <1>2 DEF Packet
<1>4. c.orderers \in [Ids -> Orderer]
  BY <1>1, ConnectionFields
<1>5. /\ p.on \in AppChannel /\ p.on \in Channels(Peer(e)) /\ p.on \in AppChannel \cap Ordered
      /\ p.name = Nameless /\ p.id = LocalId(Peer(e), p.on)
  BY DEF IsMessage
<1>6. Ahead(Peer(e), c, p.on) = c.orderers[p.id].window.ahead
  BY <1>5 DEF Ahead
<1>7. \A x \in DOMAIN c.orderers[p.id].window.ahead :
         c.orderers[p.id].window.ahead[x].name = Nameless
  BY <1>5, <1>6, WaitingMessages DEF IsMessage
<1>8. /\ d \in Connections
      /\ ~o.present => d = [c EXCEPT !.alive = FALSE]
      /\ o.present /\ ~accepted => Drops(c, d, p.id)
      /\ o.present /\ accepted => HandsOver(c, d, p.id, p.on, Put(o.window, p.order, p))
  BY <1>1, <1>2, <1>5, <1>7, OrderedOutcome
<1>9. o \in Orderer
  BY <1>3, <1>4
<1> QED
  BY <1>2, <1>3, <1>6, <1>8, <1>9

LEMMA DropsKeeps ==
  ASSUME NEW e \in Endpoint, NEW c, NEW q, Own(e, c), Link(e, c, q), c.phase = "Transfer",
         NEW id \in Ids, NEW d \in Connections, Drops(c, d, id)
  PROVE  Own(e, d) /\ Link(e, d, q) /\ Grows(c, d)
<1> DEFINE f == Peer(e)
<1>1. f \in Endpoint
  BY Peers
<1>2. Reads(c, d) /\ d.inbox = c.inbox
  BY DEF Drops
<1>3. \A channel \in AppChannel \cap Channels(f) :
         Ahead(f, d, channel) = Ahead(f, c, channel) \/ DOMAIN Ahead(f, d, channel) = {}
  <2>1. \A channel \in Channels(f) : LocalId(f, channel) \in Ids
    BY <1>1, LocalIds, Sizes
  <2> QED
    BY <2>1, EmptyIsWindow DEF Drops, Ahead
<1>4. Once(f, d)
  BY <1>2, <1>3 DEF Own, Once
<1>5. \A channel, p : Taken(c, q, channel, p) => Taken(d, q, channel, p)
  BY <1>2 DEF Taken, Reads
<1>6. Delivery(d, q)
  BY <1>2, <1>5 DEF Link, Delivery
<1>7. Waiting(f, d, q)
  BY <1>3, <1>5 DEF Link, Waiting
<1> QED
  BY <1>2, <1>4, <1>6, <1>7, ReadsKeeps

\* A message arrives that is not a duplicate, or on a channel that lets them through.
Arrives(f, c, q, p) ==
    /\ p \in q.sent /\ IsMessage(f, p)
    /\ p.on \in Reliable => p.key \in c.seen /\ Fresh(f, c, p)

LEMMA HandsOverKeeps ==
  ASSUME NEW e \in Endpoint, NEW c, NEW q, Own(e, c), Link(e, c, q), Own(Peer(e), q),
         c.phase = "Transfer", NEW p, Arrives(Peer(e), c, q, p),
         NEW d \in Connections, NEW w \in Windows, Ahead(Peer(e), c, p.on) = w.ahead,
         HandsOver(c, d, p.id, p.on, Put(w, p.order, p))
  PROVE  Own(e, d) /\ Link(e, d, q) /\ Grows(c, d)
<1> DEFINE f == Peer(e)
           F == Put(w, p.order, p)
           run == Run(F)
<1>1. f \in Endpoint /\ c \in Connections /\ q \in Connections
  BY Peers DEF Own, Typed
<1>2. p \in Packet
  BY <1>1, ConnectionFields DEF Arrives
<1>3. /\ p.on \in AppChannel /\ p.on \in Channels(f) /\ p.id = LocalId(f, p.on)
      /\ p \in q.sent /\ p.order \in Nat
  BY <1>2 DEF Arrives, IsMessage, Packet
<1>4. c.inbox \in [AppChannel -> Seq(Nat)]
  BY <1>1, ConnectionFields
<1>5. c.inbox[p.on] \in Seq(Nat)
  BY <1>3, <1>4
<1>6. F \in Windows
  BY <1>2, <1>3, PutFields
<1>7. /\ DOMAIN F.ahead = DOMAIN w.ahead \cup {Distance(w, p.order)}
      /\ F.ahead[Distance(w, p.order)] = p
      /\ \A x \in DOMAIN w.ahead : x # Distance(w, p.order) => F.ahead[x] = w.ahead[x]
  BY ONLY <1>2, <1>3, w \in Windows, PutAhead DEF F
<1> HIDE DEF F
<1>8. \A x \in DOMAIN F.ahead : Taken(c, q, p.on, F.ahead[x])
  <2>1. Taken(c, q, p.on, p)
    BY DEF Taken, Arrives
  <2>2. \A x \in DOMAIN w.ahead : Taken(c, q, p.on, w.ahead[x])
    BY <1>3 DEF Link, Waiting
  <2> QED
    BY <1>7, <2>1, <2>2
<1>9. \A x \in DOMAIN Drained(F).ahead :
         /\ x \in Nat /\ x # 0 /\ x + RunLength(F) \in DOMAIN F.ahead
         /\ Drained(F).ahead[x] = F.ahead[x + RunLength(F)]
  BY <1>6, DrainedFields
<1>10. /\ run \in Seq(Packet)
       /\ \A i \in DOMAIN run : i - 1 \in DOMAIN F.ahead /\ run[i] = F.ahead[i - 1]
  BY <1>6, RunFields
<1> HIDE DEF run
<1>11. /\ Reads(c, d) /\ d.inbox[p.on] = c.inbox[p.on] \o Messages(run)
       /\ \A other \in AppChannel \ {p.on} : d.inbox[other] = c.inbox[other]
       /\ d.orderers[p.id].window = Drained(F)
       /\ \A other \in Ids \ {p.id} : d.orderers[other] = c.orderers[other]
  BY DEF HandsOver, F, run
<1>12. Ahead(f, d, p.on) = Drained(F).ahead
  BY <1>3, <1>11 DEF Ahead
<1>13. \A other \in (AppChannel \ {p.on}) \cap Channels(f) :
          Ahead(f, d, other) = Ahead(f, c, other)
  <2> SUFFICES ASSUME NEW other \in (AppChannel \ {p.on}) \cap Channels(f)
               PROVE  Ahead(f, d, other) = Ahead(f, c, other)
    OBVIOUS
  <2>1. LocalId(f, other) \in Ids
    BY <1>1, LocalIds, Sizes
  <2>2. LocalId(f, other) # p.id
    BY <1>1, <1>3, OtherWindow
  <2> QED
    BY <1>11, <2>1, <2>2 DEF Ahead
<1>14. \A channel, r : Taken(c, q, channel, r) => Taken(d, q, channel, r)
  BY <1>11 DEF Taken, Reads
<1>15. Waiting(f, d, q)
  <2>1. \A x \in DOMAIN Drained(F).ahead : x # 0 /\ Taken(d, q, p.on, Drained(F).ahead[x])
    BY <1>8, <1>9, <1>14
  <2>2. \A other \in (AppChannel \ {p.on}) \cap Channels(f) :
           \A x \in DOMAIN Ahead(f, d, other) :
              x # 0 /\ Taken(d, q, other, Ahead(f, d, other)[x])
    BY <1>13, <1>14 DEF Link, Waiting
  <2> QED
    BY <1>12, <2>1, <2>2 DEF Waiting
<1>16. Delivery(d, q)
  <2>1. \A i \in DOMAIN d.inbox[p.on] :
           \E r \in q.sent : Taken(d, q, p.on, r) /\ r.msg = d.inbox[p.on][i]
    <3>1. \A i \in DOMAIN d.inbox[p.on] :
             \/ i \in DOMAIN c.inbox[p.on] /\ d.inbox[p.on][i] = c.inbox[p.on][i]
             \/ /\ i - Len(c.inbox[p.on]) \in DOMAIN run
                /\ d.inbox[p.on][i] = run[i - Len(c.inbox[p.on])].msg
      <4>1. ASSUME NEW inbox \in Seq(Nat), NEW r \in Seq(Packet)
            PROVE  \A i \in DOMAIN (inbox \o Messages(r)) :
                      \/ i \in DOMAIN inbox /\ (inbox \o Messages(r))[i] = inbox[i]
                      \/ /\ i - Len(inbox) \in DOMAIN r
                         /\ (inbox \o Messages(r))[i] = r[i - Len(inbox)].msg
        BY ONLY inbox \in Seq(Nat), r \in Seq(Packet), InboxIs
      <4> DEFINE old == c.inbox[p.on]
      <4>2. old \in Seq(Nat) /\ run \in Seq(Packet) /\ d.inbox[p.on] = old \o Messages(run)
        BY <1>5, <1>10, <1>11
      <4> HIDE DEF old
      <4>3. \A i \in DOMAIN (old \o Messages(run)) :
               \/ i \in DOMAIN old /\ (old \o Messages(run))[i] = old[i]
               \/ /\ i - Len(old) \in DOMAIN run
                  /\ (old \o Messages(run))[i] = run[i - Len(old)].msg
        BY ONLY <4>1, <4>2, Zenon
      <4> QED
        BY ONLY <4>2, <4>3, Zenon DEF old
    <3>2. \A i \in DOMAIN run : run[i] \in q.sent /\ Taken(d, q, p.on, run[i])
      BY <1>8, <1>10, <1>14 DEF Taken
    <3>3. \A i \in DOMAIN c.inbox[p.on] :
             \E r \in q.sent : Taken(d, q, p.on, r) /\ r.msg = c.inbox[p.on][i]
      BY <1>3, <1>14 DEF Link, Delivery
    <3> QED
      BY <3>1, <3>2, <3>3
  <2>2. \A other \in AppChannel \ {p.on} : \A i \in DOMAIN d.inbox[other] :
           \E r \in q.sent : Taken(d, q, other, r) /\ r.msg = d.inbox[other][i]
    BY <1>11, <1>14 DEF Link, Delivery
  <2> QED
    BY <2>1, <2>2 DEF Delivery
<1>17. Once(f, d)
  <2>1. ASSUME p.on \in Reliable
        PROVE  /\ IsInjective(d.inbox[p.on])
               /\ \A x \in DOMAIN Ahead(f, d, p.on) :
                     /\ \A i \in DOMAIN d.inbox[p.on] :
                           d.inbox[p.on][i] # Ahead(f, d, p.on)[x].msg
                     /\ \A y \in DOMAIN Ahead(f, d, p.on) :
                           Ahead(f, d, p.on)[x].msg = Ahead(f, d, p.on)[y].msg => x = y
    <3>1. /\ IsInjective(c.inbox[p.on])
          /\ \A i \in DOMAIN c.inbox[p.on] : c.inbox[p.on][i] # p.msg
          /\ \A x \in DOMAIN w.ahead :
                /\ w.ahead[x].msg # p.msg
                /\ \A i \in DOMAIN c.inbox[p.on] : c.inbox[p.on][i] # w.ahead[x].msg
                /\ \A y \in DOMAIN w.ahead : w.ahead[x].msg = w.ahead[y].msg => x = y
      BY <1>3, <2>1 DEF Arrives, Fresh, Own, Once
    <3>2. \A x \in DOMAIN F.ahead :
             /\ \A i \in DOMAIN c.inbox[p.on] : c.inbox[p.on][i] # F.ahead[x].msg
             /\ \A y \in DOMAIN F.ahead : F.ahead[x].msg = F.ahead[y].msg => x = y
      BY <1>2, <1>3, <3>1, WindowOnce DEF F
    <3>3. /\ IsInjective(c.inbox[p.on] \o Messages(Run(F)))
          /\ \A x \in DOMAIN Drained(F).ahead :
                /\ \A i \in DOMAIN (c.inbox[p.on] \o Messages(Run(F))) :
                      (c.inbox[p.on] \o Messages(Run(F)))[i] # Drained(F).ahead[x].msg
                /\ \A y \in DOMAIN Drained(F).ahead :
                      Drained(F).ahead[x].msg = Drained(F).ahead[y].msg => x = y
      BY <1>5, <1>6, <3>1, <3>2, HandedOverOnce
    <3> QED
      BY <1>11, <1>12, <3>3 DEF run
  <2>2. \A other \in (AppChannel \ {p.on}) \cap Reliable :
           /\ IsInjective(d.inbox[other])
           /\ other \in Channels(f) =>
                 \A x \in DOMAIN Ahead(f, d, other) :
                    /\ \A i \in DOMAIN d.inbox[other] : d.inbox[other][i] # Ahead(f, d, other)[x].msg
                    /\ \A y \in DOMAIN Ahead(f, d, other) :
                          Ahead(f, d, other)[x].msg = Ahead(f, d, other)[y].msg => x = y
    BY <1>11, <1>13 DEF Own, Once
  <2> QED
    BY <2>1, <2>2 DEF Once
<1> QED
  BY <1>11, <1>15, <1>16, <1>17, ReadsKeeps

\* A message on a channel that is not ordered is handed over as it comes.
LEMMA UnorderedKeeps ==
  ASSUME NEW e \in Endpoint, NEW c, NEW q, Own(e, c), Link(e, c, q), Own(Peer(e), q),
         c.phase = "Transfer", NEW p, Arrives(Peer(e), c, q, p), p.on \notin Ordered
  PROVE  LET d == HandleRun(c, p.on, <<p>>) IN
         /\ Own(e, d) /\ Link(e, d, q) /\ Grows(c, d)
         /\ d.orders = c.orders /\ d.sent = c.sent /\ d.count = c.count /\ d.alive = c.alive
         /\ d.orderers = c.orderers
         /\ \A other \in AppChannel \ {p.on} : d.inbox[other] = c.inbox[other]
         /\ Appends(c, d, p.on, <<p>>)
<1> DEFINE f == Peer(e)
           d == HandleRun(c, p.on, <<p>>)
           run == <<p>>
<1>1. f \in Endpoint /\ c \in Connections /\ q \in Connections
  BY Peers DEF Own, Typed
<1>2. p \in Packet
  BY <1>1, ConnectionFields DEF Arrives
<1>3. /\ p.on \in AppChannel /\ p.on \in Channels(f) /\ p.id = LocalId(f, p.on)
      /\ p \in q.sent /\ p.order \in Nat
  BY <1>2 DEF Arrives, IsMessage, Packet
<1>4. c.inbox \in [AppChannel -> Seq(Nat)]
  BY <1>1, ConnectionFields
<1>5. c.inbox[p.on] \in Seq(Nat)
  BY <1>3, <1>4
<1>6. run \in Seq(Packet) /\ DOMAIN run = {1} /\ run[1] = p
  BY <1>2
<1>7. d = [c EXCEPT !.inbox[p.on] = @ \o Messages(run)]
  <2>1. p.on # Ack /\ p.on # Mgmt
    BY <1>3, Names
  <2> HIDE DEF run
  <2>2. HandleRun(c, p.on, run) =
           [c EXCEPT !.inbox[p.on] = @ \o [i \in DOMAIN run |-> run[i].msg]]
    BY <2>1 DEF HandleRun
  <2> QED
    BY <2>2 DEF Messages, run
<1> HIDE DEF run, d
<1>8. /\ d \in Connections /\ Reads(c, d) /\ d.alive = c.alive /\ d.orderers = c.orderers
      /\ d.inbox[p.on] = c.inbox[p.on] \o Messages(run)
      /\ \A other \in AppChannel \ {p.on} : d.inbox[other] = c.inbox[other]
  <2> DEFINE channel == p.on
  <2>1. c \in Connections /\ channel \in AppChannel /\ run \in Seq(Packet)
    BY <1>1, <1>3, <1>6
  <2>2. d = [c EXCEPT !.inbox[channel] = @ \o Messages(run)]
    BY <1>7
  <2> HIDE DEF channel
  <2>3. Appends(c, d, channel, run)
    BY ONLY <2>1, <2>2, InboxPut
  <2>4. Appends(c, d, p.on, run)
    BY ONLY <2>3 DEF channel
  <2> QED
    BY ONLY <2>4 DEF Appends
<1>9. \A channel, r : Taken(c, q, channel, r) => Taken(d, q, channel, r)
  BY <1>8 DEF Taken, Reads
<1>10. \A channel : Ahead(f, d, channel) = Ahead(f, c, channel)
  BY <1>8 DEF Ahead
<1>11. Waiting(f, d, q)
  BY <1>9, <1>10 DEF Link, Waiting
<1> DEFINE old == c.inbox[p.on]
           new == d.inbox[p.on]
<1>12. old \in Seq(Nat) /\ new = old \o Messages(run)
  BY <1>5, <1>8
<1>13. \A i \in DOMAIN new : (i \in DOMAIN old /\ new[i] = old[i]) \/ new[i] = p.msg
  <2> HIDE DEF old, new
  <2>1. \A i \in DOMAIN new :
           \/ i \in DOMAIN old /\ new[i] = old[i]
           \/ i - Len(old) \in DOMAIN run /\ new[i] = run[i - Len(old)].msg
    <3>1. ASSUME NEW inbox \in Seq(Nat), NEW r \in Seq(Packet)
          PROVE  \A i \in DOMAIN (inbox \o Messages(r)) :
                    \/ i \in DOMAIN inbox /\ (inbox \o Messages(r))[i] = inbox[i]
                    \/ /\ i - Len(inbox) \in DOMAIN r
                       /\ (inbox \o Messages(r))[i] = r[i - Len(inbox)].msg
      BY ONLY inbox \in Seq(Nat), r \in Seq(Packet), InboxIs
    <3> QED
      BY ONLY <1>6, <1>12, <3>1, Zenon
  <2> QED
    BY <1>6, <2>1
<1>14. Delivery(d, q)
  <2>1. \A i \in DOMAIN old : \E r \in q.sent : Taken(d, q, p.on, r) /\ r.msg = old[i]
    BY <1>3, <1>9 DEF Link, Delivery
  <2>2. Taken(d, q, p.on, p) /\ p \in q.sent
    BY <1>9 DEF Taken, Arrives
  <2>3. \A i \in DOMAIN new : \E r \in q.sent : Taken(d, q, p.on, r) /\ r.msg = new[i]
    BY <1>13, <2>1, <2>2
  <2>4. \A other \in AppChannel \ {p.on} : \A i \in DOMAIN d.inbox[other] :
           \E r \in q.sent : Taken(d, q, other, r) /\ r.msg = d.inbox[other][i]
    BY <1>8, <1>9 DEF Link, Delivery
  <2> QED
    BY <2>3, <2>4 DEF Delivery
<1>15. Once(f, d)
  <2>1. ASSUME p.on \in Reliable
        PROVE  /\ IsInjective(new)
               /\ \A x \in DOMAIN Ahead(f, d, p.on) :
                     /\ \A i \in DOMAIN new : new[i] # Ahead(f, d, p.on)[x].msg
                     /\ \A y \in DOMAIN Ahead(f, d, p.on) :
                           Ahead(f, d, p.on)[x].msg = Ahead(f, d, p.on)[y].msg => x = y
    <3>1. /\ IsInjective(old) /\ \A i \in DOMAIN old : old[i] # p.msg
          /\ \A x \in DOMAIN Ahead(f, c, p.on) :
                /\ Ahead(f, c, p.on)[x].msg # p.msg
                /\ \A i \in DOMAIN old : old[i] # Ahead(f, c, p.on)[x].msg
                /\ \A y \in DOMAIN Ahead(f, c, p.on) :
                      Ahead(f, c, p.on)[x].msg = Ahead(f, c, p.on)[y].msg => x = y
      BY <1>3, <2>1 DEF Arrives, Fresh, Own, Once
    <3> HIDE DEF old, new
    <3>2. IsInjective(new)
      <4>1. \A i \in DOMAIN run : \A j \in DOMAIN old : old[j] # run[i].msg
        BY <1>6, <3>1
      <4>2. \A i, j \in DOMAIN run : run[i].msg = run[j].msg => i = j
        BY <1>6
      <4>3. IsInjective(old \o Messages(run))
        BY <1>6, <1>12, <3>1, <4>1, <4>2, InboxOnce
      <4> QED
        BY <1>12, <4>3
    <3> QED
      BY <1>10, <1>13, <3>1, <3>2
  <2>2. \A other \in (AppChannel \ {p.on}) \cap Reliable :
           /\ IsInjective(d.inbox[other])
           /\ other \in Channels(f) =>
                 \A x \in DOMAIN Ahead(f, d, other) :
                    /\ \A i \in DOMAIN d.inbox[other] : d.inbox[other][i] # Ahead(f, d, other)[x].msg
                    /\ \A y \in DOMAIN Ahead(f, d, other) :
                          Ahead(f, d, other)[x].msg = Ahead(f, d, other)[y].msg => x = y
    BY <1>8, <1>10 DEF Own, Once
  <2> QED
    BY <2>1, <2>2 DEF Once
<1>16. Own(e, d) /\ Link(e, d, q) /\ Grows(c, d)
  BY <1>8, <1>11, <1>14, <1>15, ReadsKeeps
<1> QED
  BY <1>8, <1>16 DEF d, run, Reads, Appends

LEMMA MessageKeeps ==
  ASSUME NEW e \in Endpoint, NEW c, NEW q, Own(e, c), Link(e, c, q), Own(Peer(e), q),
         c.phase = "Transfer", NEW p, Arrives(Peer(e), c, q, p)
  PROVE  LET d == Handle(e, c, p.on, p) IN
         /\ Own(e, d) /\ Link(e, d, q) /\ Grows(c, d)
         /\ Reads(c, d)
         /\ d.sent = c.sent /\ d.orders = c.orders /\ d.count = c.count
<1> DEFINE d == Handle(e, c, p.on, p)
           o == c.orderers[p.id]
<1>1. CASE p.on \notin Ordered
  <2>1. d = HandleRun(c, p.on, <<p>>)
    BY <1>1 DEF Handle
  <2> HIDE DEF d
  <2> QED
    BY <1>1, <2>1, UnorderedKeeps DEF d, Appends
<1>2. CASE p.on \in Ordered
  <2>1. d = HandleOrdered(e, c, p.on, p)
    BY <1>2 DEF Handle
  <2>2. p \in q.sent /\ IsMessage(Peer(e), p)
    BY DEF Arrives
  <2> HIDE DEF d
  <2>3. /\ d \in Connections /\ o \in Orderer /\ p \in Packet /\ p.id \in Ids
        /\ Ahead(Peer(e), c, p.on) = o.window.ahead
        /\ \/ d = [c EXCEPT !.alive = FALSE]
           \/ Drops(c, d, p.id)
           \/ HandsOver(c, d, p.id, p.on, Put(o.window, p.order, p))
    BY <1>2, <2>1, <2>2, OrderedMessage
  <2>4. o.window \in Windows
    BY <2>3 DEF Orderer
  <2> HIDE DEF o
  <2>5. CASE d = [c EXCEPT !.alive = FALSE]
    BY <2>5, PanicKeeps DEF d
  <2>6. CASE Drops(c, d, p.id)
    <3>1. Own(e, d) /\ Link(e, d, q) /\ Grows(c, d)
      BY <2>3, <2>6, DropsKeeps
    <3> QED
      BY <2>6, <3>1 DEF Drops, Reads, d
  <2>7. CASE HandsOver(c, d, p.id, p.on, Put(o.window, p.order, p))
    <3>1. Own(e, d) /\ Link(e, d, q) /\ Grows(c, d)
      BY <2>3, <2>4, <2>7, HandsOverKeeps
    <3> QED
      BY <2>7, <3>1 DEF HandsOver, Reads, d
  <2> QED
    BY <2>3, <2>5, <2>6, <2>7
<1> QED
  BY <1>1, <1>2
-----------------------------------------------------------------------------
(* A packet arrives *)

\* Both sides read an id as the same channel.
LEMMA ChannelOfIs ==
  ASSUME NEW e \in Endpoint, NEW c, NEW q, Own(e, c), Own(Peer(e), q), c.phase # "Absent",
         NEW p \in q.sent, Known(c, p.id)
  PROVE  \/ c.phase = "Registration" /\ p.id = AckStage /\ ChannelOf(c, p.id) = Ack
         \/ c.phase = "Registration" /\ IsRegistration(Peer(e), p) /\ ChannelOf(c, p.id) = Mgmt
         \/ /\ c.phase = "Transfer" /\ p.id = LocalId(Peer(e), Ack)
            /\ IsAck(LocalId(Peer(e), Ack), p) /\ ChannelOf(c, p.id) = Ack
         \/ c.phase = "Transfer" /\ IsMessage(Peer(e), p) /\ ChannelOf(c, p.id) = p.on
<1> DEFINE f == Peer(e)
<1>1. f \in Endpoint /\ c \in Connections /\ q \in Connections
  BY Peers DEF Own, Typed
<1>2. c.phase \in {"Absent", "Registration", "Transfer"}
  BY <1>1, ConnectionFields
<1>3. Sendable(f, q, p)
  BY DEF Own, Sent
<1>4. /\ AckStage = NullChannelId - 1 /\ MgmtStage = NullChannelId - 2
      /\ NullChannelId \in Nat /\ Count(f) \in Nat /\ Count(f) < MgmtStage
  BY <1>1, Sizes
<1>5. CASE c.phase = "Registration"
  <2>1. p.id = AckStage \/ p.id = MgmtStage
    BY <1>5 DEF Known, StageIds
  <2>2. CASE p.id = AckStage
    <3>1. p.id # MgmtStage
      BY <1>4, <2>2
    <3> QED
      BY <1>5, <2>2, <3>1 DEF ChannelOf
  <2>3. CASE p.id = MgmtStage
    <3>1. p.id # AckStage
      BY <1>4, <2>3
    <3>2. IsRegistration(f, p)
      BY <1>1, <1>3, <2>3, SendableById
    <3> QED
      BY <1>5, <2>3, <3>1, <3>2 DEF ChannelOf
  <2> QED
    BY <2>1, <2>2, <2>3
<1>6. CASE c.phase = "Transfer"
  <2>1. c.remote = Registry[f]
    BY <1>6 DEF Own, Handshake
  <2>2. p.id < Count(f)
    BY <1>6, <2>1 DEF Known, Count
  <2>3. p.id \in StageIds \cup 0..(Count(f) - 1)
    BY <1>1, <1>3, SendableById
  <2>4. p.id \notin StageIds
    BY <1>4, <2>2 DEF StageIds
  <2>5. ChannelOf(c, p.id) = Registry[f][p.id + 1]
    BY <2>1, <2>4 DEF ChannelOf, StageIds
  <2>6. IsAck(LocalId(f, Ack), p) \/ IsMessage(f, p)
    BY <1>1, <1>3, <2>4, SendableById
  <2>7. CASE IsAck(LocalId(f, Ack), p)
    <3>1. Registry[f][LocalId(f, Ack) + 1] = Ack /\ p.id = LocalId(f, Ack)
      BY <1>1, <2>7, Names, LocalIds DEF IsAck
    <3> QED
      BY <1>6, <2>5, <2>7, <3>1
  <2>8. CASE IsMessage(f, p)
    <3>1. Registry[f][LocalId(f, p.on) + 1] = p.on /\ p.id = LocalId(f, p.on)
      BY <1>1, <2>8, LocalIds DEF IsMessage
    <3> QED
      BY <1>6, <2>5, <2>8, <3>1
  <2> QED
    BY <2>6, <2>7, <2>8
<1> QED
  BY <1>2, <1>5, <1>6

\* What was not recorded as seen has not been taken in.
Unread(f, c, p) ==
    /\ p.on \in Reliable /\ IsMessage(f, p) => Fresh(f, c, p)
    /\ c.phase = "Registration" /\ IsRegistration(f, p) /\ c.orderers[MgmtStage].present =>
          c.orderers[MgmtStage].window.start <= p.order

LEMMA UnseenIsUnread ==
  ASSUME NEW e \in Endpoint, NEW c, NEW q, Own(e, c), Link(e, c, q), Own(Peer(e), q),
         NEW p \in q.sent, p.key \notin c.seen
  PROVE  Unread(Peer(e), c, p)
<1> DEFINE f == Peer(e)
           w == c.orderers[MgmtStage].window
<1>1. f \in Endpoint /\ c \in Connections
  BY Peers DEF Own, Typed
<1>2. p.on \in Reliable /\ IsMessage(f, p) => Fresh(f, c, p)
  BY UnseenIsFresh
<1>3. ASSUME c.phase = "Registration", IsRegistration(f, p), c.orderers[MgmtStage].present
      PROVE  w.start <= p.order
  <2>1. PICK i \in 0..Count(f) : p = Registration(f, i)
    BY <1>3 DEF IsRegistration
  <2>2. p.order = i /\ p.key = i + 1 /\ i \in Nat
    <3>1. Count(f) \in Nat
      BY <1>1, Sizes
    <3> QED
      BY ONLY <1>1, <2>1, <3>1, RegistrationFields
  <2>3. \A k \in 0..(w.start - 1) : k + 1 \in c.seen
    BY <1>3 DEF Own, Handshake, Registering
  <2>4. w.start \in Nat
    <3>1. c.orderers[MgmtStage] \in Orderer
      BY <1>1, ConnectionFields, Sizes
    <3>2. w \in Windows
      BY <3>1 DEF Orderer
    <3> HIDE DEF w
    <3> QED
      BY <3>2, WindowFields
  <2> HIDE DEF w
  <2> QED
    BY <2>2, <2>3, <2>4
<1> QED
  BY <1>2, <1>3 DEF Unread

LEMMA UnreadStays ==
  ASSUME NEW f, NEW c, NEW d, NEW p, Unread(f, c, p), Quiet(c, d)
  PROVE  Unread(f, d, p)
  BY FreshStays DEF Unread, Quiet

\* Whatever is handled, once it is recorded and acknowledged where it must be.
LEMMA HandleKeeps ==
  ASSUME NEW e \in Endpoint, NEW c, NEW q, Own(e, c), Link(e, c, q), Own(Peer(e), q),
         c.phase # "Absent", NEW p \in q.sent, Known(c, p.id), Unread(Peer(e), c, p),
         ChannelOf(c, p.id) \in Reliable => p.key \in c.seen
  PROVE  LET d == Handle(e, c, ChannelOf(c, p.id), p) IN
         Own(e, d) /\ Link(e, d, q) /\ Grows(c, d)
<1> DEFINE f == Peer(e)
           channel == ChannelOf(c, p.id)
           d == Handle(e, c, channel, p)
<1>1. f \in Endpoint
  BY Peers
<1>2. ASSUME channel = Ack, c.phase = "Registration" => p.id = AckStage,
             c.phase = "Transfer" => p.id = LocalId(f, Ack)
      PROVE  Own(e, d) /\ Link(e, d, q) /\ Grows(c, d)
  <2>1. channel \notin Ordered
    BY <1>1, <1>2, Names
  <2> HIDE DEF channel
  <2>2. d = HandleAck(c, p)
    <3>1. Ack # Mgmt
      BY <1>1, Names
    <3>2. HandleRun(c, Ack, <<p>>) = HandleAck(c, p)
      BY <3>1 DEF HandleRun
    <3> QED
      BY <1>2, <2>1, <3>2 DEF Handle
  <2> HIDE DEF d
  <2> QED
    BY <1>2, <2>2, HandleAckKeeps
<1>3. ASSUME c.phase = "Registration", IsRegistration(f, p), channel = Mgmt
      PROVE  Own(e, d) /\ Link(e, d, q) /\ Grows(c, d)
  <2>1. channel \in Ordered /\ channel \in Reliable
    BY <1>1, <1>3, Names
  <2>2. PICK i \in 0..Count(f) : p = Registration(f, i)
    BY <1>3 DEF IsRegistration
  <2>3. p.order = i /\ p.key = i + 1
    BY <1>1, <2>2, RegistrationFields
  <2>4. i + 1 \in c.seen
    BY <2>1, <2>3
  <2>5. c.orderers[MgmtStage].present => c.orderers[MgmtStage].window.start <= i
    BY <1>3, <2>3 DEF Unread
  <2> HIDE DEF channel
  <2>6. d = HandleOrdered(e, c, Mgmt, Registration(f, i))
    BY <1>3, <2>1, <2>2 DEF Handle
  <2> HIDE DEF d
  <2> QED
    BY <1>3, <2>4, <2>5, <2>6, RegistrationsKeep
<1>4. ASSUME c.phase = "Transfer", IsMessage(f, p), channel = p.on
      PROVE  Own(e, d) /\ Link(e, d, q) /\ Grows(c, d)
  <2>1. Arrives(f, c, q, p)
    BY <1>4 DEF Arrives, Unread
  <2> HIDE DEF channel
  <2>2. d = Handle(e, c, p.on, p)
    BY <1>4
  <2> HIDE DEF d
  <2> QED
    BY <1>4, <2>1, <2>2, MessageKeeps
<1>5. \/ c.phase = "Registration" /\ p.id = AckStage /\ channel = Ack
      \/ c.phase = "Registration" /\ IsRegistration(f, p) /\ channel = Mgmt
      \/ c.phase = "Transfer" /\ p.id = LocalId(f, Ack) /\ channel = Ack
      \/ c.phase = "Transfer" /\ IsMessage(f, p) /\ channel = p.on
  BY ChannelOfIs
<1> HIDE DEF channel
<1> QED
  BY <1>2, <1>3, <1>4, <1>5 DEF channel

LEMMA HandleMessageKeeps ==
  ASSUME NEW e \in Endpoint, NEW c0, NEW q, Own(e, c0), Link(e, c0, q), Own(Peer(e), q),
         c0.phase # "Absent", NEW p \in q.sent
  PROVE  LET d == HandleMessage(e, c0, p) IN
         Own(e, d) /\ Link(e, d, q) /\ Grows(c0, d)
<1> DEFINE c == Speculate(c0, p)
           channel == ChannelOf(c, p.id)
           marked == [c EXCEPT !.seen = @ \cup {p.key}]
           acked == Acknowledge(e, marked, p.key)
           d == HandleMessage(e, c0, p)
<1>1. d = IF ~Known(c, p.id) THEN c
          ELSE IF channel \notin Reliable THEN Handle(e, c, channel, p)
          ELSE IF p.key \in c.seen THEN c
          ELSE IF ~CanAcknowledge(c) THEN marked
          ELSE Handle(e, acked, channel, p)
  BY DEF HandleMessage
<1>2. Own(e, c) /\ Link(e, c, q) /\ Grows(c0, c) /\ c.phase # "Absent"
  BY SpeculateKeeps
<1>3. p.key \in Nat
  <2>1. q \in Connections
    BY DEF Own, Typed
  <2>2. p \in Packet
    BY <2>1, ConnectionFields
  <2> QED
    BY <2>2 DEF Packet
<1> HIDE DEF c, d
<1>4. /\ Own(e, marked) /\ Link(e, marked, q) /\ Grows(c, marked) /\ Answers(c, marked)
      /\ marked.seen = c.seen \cup {p.key} /\ marked.resender = c.resender
      /\ marked.acks = c.acks
  BY <1>2, <1>3, MarkKeeps
<1> HIDE DEF marked
<1>5. marked.phase # "Absent"
  BY <1>2, <1>4 DEF Answers, Quiet
<1>6. CanAcknowledge(c) =>
         /\ Own(e, acked) /\ Link(e, acked, q) /\ Grows(marked, acked)
         /\ Answers(marked, acked) /\ acked.seen = marked.seen
  <2>1. p.key \in marked.seen
    BY <1>4
  <2>2. CanAcknowledge(c) => CanAcknowledge(marked)
    BY <1>4 DEF CanAcknowledge, Full
  <2> QED
    BY <1>4, <1>5, <2>1, <2>2, AcknowledgeKeeps
<1> HIDE DEF acked
<1>7. CASE ~Known(c, p.id)
  BY <1>1, <1>2, <1>7 DEF d
<1>8. CASE Known(c, p.id) /\ channel \notin Reliable
  <2>1. Unread(Peer(e), c, p)
    <3>1. \/ channel = Ack \/ channel = Mgmt
          \/ c.phase = "Transfer" /\ IsMessage(Peer(e), p) /\ channel = p.on
      BY <1>2, <1>8, ChannelOfIs
    <3>2. Ack \in Reliable /\ Mgmt \in Reliable
      BY Names
    <3> HIDE DEF channel
    <3>3. c.phase = "Transfer" /\ p.on \notin Reliable
      BY <1>8, <3>1, <3>2
    <3> QED
      BY <3>3 DEF Unread
  <2>2. d = Handle(e, c, channel, p)
    BY <1>1, <1>8
  <2>3. Own(e, d) /\ Link(e, d, q) /\ Grows(c, d)
    BY <1>2, <1>8, <2>1, <2>2, HandleKeeps
  <2> QED
    BY <1>2, <2>3, GrowsOnwards DEF d
<1>9. CASE Known(c, p.id) /\ channel \in Reliable /\ p.key \in c.seen
  BY <1>1, <1>2, <1>9 DEF d
<1>10. CASE Known(c, p.id) /\ channel \in Reliable /\ p.key \notin c.seen /\ ~CanAcknowledge(c)
  BY <1>1, <1>2, <1>4, <1>10, GrowsOnwards DEF d
<1>11. CASE Known(c, p.id) /\ channel \in Reliable /\ p.key \notin c.seen /\ CanAcknowledge(c)
  <2>1. Answers(c, acked)
    BY <1>4, <1>6, <1>11, AnswersOnwards
  <2>2. Unread(Peer(e), acked, p)
    BY <1>2, <1>11, <2>1, UnseenIsUnread, UnreadStays DEF Answers
  <2>3. Known(acked, p.id) /\ ChannelOf(acked, p.id) = channel /\ acked.phase # "Absent"
    BY <1>2, <1>11, <2>1 DEF Answers, Quiet, Known, ChannelOf
  <2>4. p.key \in acked.seen
    BY <1>4, <1>6, <1>11
  <2>5. Own(e, acked) /\ Link(e, acked, q) /\ Grows(marked, acked)
    BY <1>6, <1>11
  <2>6. d = Handle(e, acked, ChannelOf(acked, p.id), p)
    BY <1>1, <1>11, <2>3
  <2>7. Own(e, d) /\ Link(e, d, q) /\ Grows(acked, d)
    BY <2>2, <2>3, <2>4, <2>5, <2>6, HandleKeeps
  <2> QED
    BY <1>2, <1>4, <2>5, <2>7, GrowsOnwards DEF d
<1> QED
  BY <1>7, <1>8, <1>9, <1>10, <1>11

-----------------------------------------------------------------------------
(* Sending *)

\* A message that the resender refuses has used up its order and its number.
LEMMA RefusedKeeps ==
  ASSUME NEW e \in Endpoint, NEW c, NEW q, Own(e, c), Link(e, c, q), c.phase # "Absent",
         NEW d \in Connections, Quiet(c, d), d.seen = c.seen, d.last_key = c.last_key,
         d.next_key = c.next_key, d.resender = c.resender, d.acks = c.acks, d.sent = c.sent,
         c.count <= d.count, d.count <= MaxMessages[e]
  PROVE  Own(e, d) /\ Link(e, d, q) /\ Grows(c, d)
<1>1. c \in Connections /\ d.phase = c.phase
  BY DEF Own, Typed, Quiet
<1>2. Typed(e, d) /\ Unique(d)
  BY DEF Own, Typed, Unique
<1>3. Sent(e, d)
  <2>1. \A p \in c.sent : Sendable(e, d, p)
    BY <1>1, SendableLater DEF Own, Sent
  <2>2. \A p \in c.sent : p.msg <= d.count
    <3>1. \A p \in c.sent : p.msg \in Nat
      <4>1. c.sent \in SUBSET Packet
        BY <1>1, ConnectionFields
      <4> QED
        BY <4>1 DEF Packet
    <3>2. c.count \in Nat /\ d.count \in Nat
      BY <1>1, ConnectionFields
    <3>3. \A p \in c.sent : p.msg <= c.count
      BY DEF Own, Sent
    <3> QED
      BY <3>1, <3>2, <3>3
  <2> QED
    BY <1>1, <2>1, <2>2 DEF Own, Sent
<1>4. Phases(e, d)
  BY <1>1 DEF Own, Phases, Quiet
<1>5. Handshake(Peer(e), d) /\ Once(Peer(e), d) /\ Delivery(d, q) /\ Waiting(Peer(e), d, q)
  BY QuietKeeps DEF Own, Link
<1>6. LastArrived(e, d, q) /\ Grows(c, d)
  BY <1>1 DEF Link, LastArrived, Grows
<1> QED
  BY <1>2, <1>3, <1>4, <1>5, <1>6 DEF Own, Link

\* UdpEvent::Send, with what it sends if the resender takes it.
SendNumber(e, c, channel) ==
    LET n == c.count + 1 IN
    SendPacket([c EXCEPT !.count = n], LocalId(e, channel), channel,
               [Blank EXCEPT !.msg = n, !.on = channel])

\* A message p is put out on a channel.
PutOut(e, channel, c, d, p) ==
    /\ IsMessage(e, p) /\ p.on = channel /\ p.msg = c.count + 1 /\ p.acked = {}
    /\ p.order = IF channel \in Ordered THEN c.orders[LocalId(e, channel)] ELSE 0
    /\ d.sent = c.sent \cup {p}
    /\ \/ /\ channel \in Reliable /\ ~Full(c)
          /\ p.key = c.next_key + 1 /\ d.next_key = p.key
          /\ d.resender = c.resender \cup {p.key}
       \/ /\ channel \notin Reliable /\ p.key = NoKey
          /\ d.next_key = c.next_key /\ d.resender = c.resender

LEMMA SendFields ==
  ASSUME NEW e \in Endpoint, NEW c \in Connections,
         NEW channel \in Channels(e) \cap AppChannel
  PROVE  LET d == SendNumber(e, c, channel)
             id == LocalId(e, channel) IN
         /\ d \in Connections /\ Quiet(c, d) /\ d.seen = c.seen /\ d.last_key = c.last_key
         /\ d.acks = c.acks /\ d.count = c.count + 1 /\ id \in Ids
         /\ \A i \in Ids : d.orders[i] = IF channel \in Ordered /\ i = id
                                         THEN (c.orders[i] + 1) % WireOrders ELSE c.orders[i]
         /\ \/ /\ channel \in Reliable /\ Full(c)
               /\ d.sent = c.sent /\ d.resender = c.resender /\ d.next_key = c.next_key
            \/ \E p \in Packet : PutOut(e, channel, c, d, p)
<1> DEFINE n == c.count + 1
           id == LocalId(e, channel)
           b == [c EXCEPT !.count = n]
           body == [Blank EXCEPT !.msg = n, !.on = channel]
           d == SendPacket(b, id, channel, body)
<1>1. c.count \in Nat /\ n \in Nat /\ n # 0 /\ c.next_key \in Nat
  BY ConnectionFields
<1>2. id \in Ids
  BY LocalIds, Sizes
<1>3. /\ b \in Connections /\ Quiet(c, b) /\ b.seen = c.seen /\ b.last_key = c.last_key
      /\ b.acks = c.acks /\ b.count = n /\ b.orders = c.orders /\ b.sent = c.sent
      /\ b.resender = c.resender /\ b.next_key = c.next_key
  <2> HIDE DEF n
  <2> QED
    BY <1>1 DEF Connections, Quiet
<1>4. /\ body \in Packet /\ body.msg = n /\ body.on = channel /\ body.name = Nameless
      /\ body.acked = {} /\ body.key = NoKey
  <2>1. channel \in Channel
    BY Names
  <2> HIDE DEF n
  <2> QED
    BY <1>1, <2>1, BlankFields DEF Packet
<1>5. Full(b) <=> Full(c)
  BY <1>3 DEF Full
<1>6. SendNumber(e, c, channel) = d
  BY DEF SendNumber
<1> HIDE DEF b, body, n
<1>7. /\ d \in Connections /\ Quiet(b, d) /\ d.seen = b.seen /\ d.last_key = b.last_key
      /\ d.acks = b.acks /\ d.count = b.count
      /\ \A i \in Ids : d.orders[i] = IF channel \in Ordered /\ i = id
                                      THEN (b.orders[i] + 1) % WireOrders ELSE b.orders[i]
      /\ \/ /\ channel \in Reliable /\ Full(b)
            /\ d.sent = b.sent /\ d.resender = b.resender /\ d.next_key = b.next_key
         \/ \E p \in Packet :
               /\ Carries(p, id, body)
               /\ p.order = IF channel \in Ordered THEN b.orders[id] ELSE 0
               /\ d.sent = b.sent \cup {p}
               /\ \/ /\ channel \in Reliable /\ ~Full(b)
                     /\ p.key = b.next_key + 1 /\ d.next_key = p.key
                     /\ d.resender = b.resender \cup {p.key}
                  \/ /\ channel \notin Reliable /\ p.key = body.key
                     /\ d.next_key = b.next_key /\ d.resender = b.resender
  <2>1. b \in Connections /\ id \in Ids /\ body \in Packet
    BY <1>2, <1>3, <1>4
  <2>2. Posts(b, d, id, channel, body)
    BY ONLY <2>1, SendPacketFields DEF d
  <2> QED
    BY ONLY <2>2 DEF Posts
<1> HIDE DEF d
<1>8. Quiet(c, d)
  BY <1>3, <1>7 DEF Quiet
<1>9. ASSUME NEW p \in Packet, Carries(p, id, body),
             channel \in Reliable => p.key = c.next_key + 1
      PROVE  IsMessage(e, p) /\ p.on = channel /\ p.msg = n /\ p.acked = {}
  <2>1. p.key # NoKey \/ channel \notin Reliable
    BY <1>1, <1>9 DEF NoKey
  <2> QED
    BY <1>1, <1>4, <1>9, <2>1 DEF Carries, IsMessage
<1>10. \/ /\ channel \in Reliable /\ Full(c)
          /\ d.sent = c.sent /\ d.resender = c.resender /\ d.next_key = c.next_key
       \/ \E p \in Packet : PutOut(e, channel, c, d, p)
  <2>1. CASE /\ channel \in Reliable /\ Full(b)
             /\ d.sent = b.sent /\ d.resender = b.resender /\ d.next_key = b.next_key
    BY <1>3, <1>5, <2>1
  <2>2. CASE \E p \in Packet :
               /\ Carries(p, id, body)
               /\ p.order = IF channel \in Ordered THEN b.orders[id] ELSE 0
               /\ d.sent = b.sent \cup {p}
               /\ \/ /\ channel \in Reliable /\ ~Full(b)
                     /\ p.key = b.next_key + 1 /\ d.next_key = p.key
                     /\ d.resender = b.resender \cup {p.key}
                  \/ /\ channel \notin Reliable /\ p.key = body.key
                     /\ d.next_key = b.next_key /\ d.resender = b.resender
    <3>1. PICK p \in Packet :
               /\ Carries(p, id, body)
               /\ p.order = IF channel \in Ordered THEN b.orders[id] ELSE 0
               /\ d.sent = b.sent \cup {p}
               /\ \/ /\ channel \in Reliable /\ ~Full(b)
                     /\ p.key = b.next_key + 1 /\ d.next_key = p.key
                     /\ d.resender = b.resender \cup {p.key}
                  \/ /\ channel \notin Reliable /\ p.key = body.key
                     /\ d.next_key = b.next_key /\ d.resender = b.resender
      BY <2>2
    <3>2. IsMessage(e, p) /\ p.on = channel /\ p.msg = n /\ p.acked = {}
      BY <1>3, <1>9, <3>1
    <3>3. /\ p.order = IF channel \in Ordered THEN c.orders[id] ELSE 0
          /\ d.sent = c.sent \cup {p}
          /\ \/ /\ channel \in Reliable /\ ~Full(c)
                /\ p.key = c.next_key + 1 /\ d.next_key = p.key
                /\ d.resender = c.resender \cup {p.key}
             \/ /\ channel \notin Reliable /\ p.key = NoKey
                /\ d.next_key = c.next_key /\ d.resender = c.resender
      BY <1>3, <1>4, <1>5, <3>1
    <3> QED
      BY <3>2, <3>3 DEF PutOut, n, id
  <2> QED
    BY <1>7, <2>1, <2>2
<1> QED
  BY <1>2, <1>3, <1>6, <1>7, <1>8, <1>10 DEF n

LEMMA SendKeeps ==
  ASSUME NEW e \in Endpoint, NEW c, NEW q, Own(e, c), Link(e, c, q), c.phase = "Transfer",
         c.count < MaxMessages[e], NEW channel \in Channels(e) \cap AppChannel
  PROVE  LET d == SendNumber(e, c, channel) IN
         Own(e, d) /\ Link(e, d, q) /\ Grows(c, d)
<1> DEFINE d == SendNumber(e, c, channel)
<1>1. c \in Connections
  BY DEF Own, Typed
<1>2. c.count \in Nat /\ c.count + 1 <= MaxMessages[e] /\ c.count <= c.count + 1
  BY <1>1, ConnectionFields, Sizes
<1>3. /\ d \in Connections /\ Quiet(c, d) /\ d.seen = c.seen /\ d.last_key = c.last_key
      /\ d.acks = c.acks /\ d.count = c.count + 1
      /\ \/ d.sent = c.sent /\ d.resender = c.resender /\ d.next_key = c.next_key
         \/ \E p \in Packet : PutOut(e, channel, c, d, p)
  BY ONLY <1>1, e \in Endpoint, channel \in Channels(e) \cap AppChannel, SendFields
<1> HIDE DEF d
<1>4. CASE d.sent = c.sent /\ d.resender = c.resender /\ d.next_key = c.next_key
  <2>1. Own(e, d) /\ Link(e, d, q) /\ Grows(c, d)
    BY <1>2, <1>3, <1>4, RefusedKeeps
  <2> QED
    BY <2>1 DEF d
<1>5. CASE \E p \in Packet : PutOut(e, channel, c, d, p)
  <2>1. PICK p \in Packet :
               /\ IsMessage(e, p) /\ p.msg = c.count + 1 /\ p.acked = {}
               /\ d.sent = c.sent \cup {p}
               /\ \/ /\ ~Full(c)
                     /\ p.key = c.next_key + 1 /\ d.next_key = p.key
                     /\ d.resender = c.resender \cup {p.key}
                  \/ /\ p.key = NoKey
                     /\ d.next_key = c.next_key /\ d.resender = c.resender
    BY <1>5 DEF PutOut
  <2>2. Sendable(e, d, p)
    BY <1>3, <2>1 DEF Sendable, Quiet
  <2>3. c.phase # "Absent" /\ d.acks \subseteq c.acks /\ p.acked \subseteq c.seen
    BY <1>3, <2>1
  <2>4. p.msg = c.count + 1 /\ d.count = p.msg /\ d.count <= MaxMessages[e]
    BY <1>2, <1>3, <2>1
  <2>5. \/ /\ p.key = c.next_key + 1 /\ d.next_key = p.key
           /\ d.resender = c.resender \cup {p.key} /\ ~Full(c)
        \/ p.key = NoKey /\ d.next_key = c.next_key /\ d.resender = c.resender
    BY <2>1
  <2>6. Own(e, d) /\ Link(e, d, q) /\ Grows(c, d)
    BY <1>3, <2>1, <2>2, <2>3, <2>4, <2>5, PostKeeps
  <2> QED
    BY <2>6 DEF d
<1> QED
  BY <1>3, <1>4, <1>5

-----------------------------------------------------------------------------
(* Steps *)

LEMMA StepKeeps ==
  ASSUME ConnectionInvariant, NEW e \in Endpoint, NEW d, Own(e, d),
         Link(e, d, conn[Peer(e)]), Grows(conn[e], d), conn' = [conn EXCEPT ![e] = d]
  PROVE  ConnectionInvariant'
<1> DEFINE f == Peer(e)
<1>1. f \in Endpoint /\ f # e /\ Peer(f) = e /\ Endpoint = {e, f}
  BY Peers
<1>2. d \in Connections /\ conn \in [Endpoint -> Connections]
  BY DEF Own, Typed, ConnectionInvariant
<1>3. conn' \in [Endpoint -> Connections] /\ conn'[e] = d /\ conn'[f] = conn[f]
  BY <1>1, <1>2
<1>4. Own(f, conn[f]) /\ Link(f, conn[f], conn[e])
  BY <1>1 DEF ConnectionInvariant
<1>5. Link(f, conn[f], d)
  BY <1>1, <1>4, GrowsKeeps
<1>6. \A g \in Endpoint : Own(g, conn'[g]) /\ Link(g, conn'[g], conn'[Peer(g)])
  BY <1>1, <1>3, <1>4, <1>5
<1> QED
  BY <1>3, <1>6 DEF ConnectionInvariant

LEMMA InitKeeps ==
  ASSUME conn = [e \in Endpoint |-> Absent]
  PROVE  ConnectionInvariant
<1>1. conn \in [Endpoint -> Connections]
  BY AbsentFields
<1>2. \A e \in Endpoint : conn[e] = Absent /\ conn[Peer(e)] = Absent
  BY Peers
<1> QED
  BY <1>1, <1>2, AbsentIsOwn DEF ConnectionInvariant

LEMMA NextKeeps ==
  ASSUME ConnectionInvariant, [Next]_vars
  PROVE  ConnectionInvariant'
<1>1. CASE UNCHANGED vars
  BY <1>1 DEF vars, ConnectionInvariant
<1>2. ASSUME NEW e \in Endpoint,
             \/ Connect(e)
             \/ \E p \in conn[Peer(e)].sent : Receive(e, p)
             \/ Update(e)
             \/ \E channel \in Channels(e) \cap AppChannel : Send(e, channel)
      PROVE  ConnectionInvariant'
  <2> DEFINE c == conn[e]
             q == conn[Peer(e)]
  <2>1. Own(e, c) /\ Link(e, c, q) /\ Own(Peer(e), q)
    BY Peers DEF ConnectionInvariant
  <2>2. c.phase = "Absent" => c = Absent
    BY <2>1 DEF Own, Phases
  <2>3. CASE Connect(e)
    <3> DEFINE d == Initialize(e)
    <3>1. c = Absent /\ conn' = [conn EXCEPT ![e] = d]
      BY <2>2, <2>3 DEF Connect, Becomes
    <3>2. Own(e, d) /\ Link(e, d, q) /\ Grows(c, d)
      BY <3>1, InitializeKeeps
    <3> HIDE DEF d
    <3> QED
      BY <3>1, <3>2, StepKeeps
  <2>4. ASSUME NEW p \in q.sent, Receive(e, p)
        PROVE  ConnectionInvariant'
    <3> DEFINE b == IF c.phase = "Absent" THEN Initialize(e) ELSE c
               d == HandleMessage(e, b, p)
    <3>1. conn' = [conn EXCEPT ![e] = d]
      BY <2>4 DEF Receive, Becomes
    <3>2. Own(e, b) /\ Link(e, b, q) /\ Grows(c, b) /\ b.phase # "Absent"
      <4>1. CASE c.phase = "Absent"
        <5>1. b = Initialize(e) /\ c = Absent
          BY <2>2, <4>1
        <5> HIDE DEF b, c
        <5> QED
          BY <5>1, InitializeKeeps, InitializeFields
      <4>2. CASE c.phase # "Absent"
        BY <2>1, <4>2, GrowsSame
      <4> QED
        BY <4>1, <4>2
    <3> HIDE DEF b
    <3>3. Own(e, d) /\ Link(e, d, q) /\ Grows(b, d)
      BY <2>1, <3>2, HandleMessageKeeps
    <3> HIDE DEF d
    <3>4. Grows(c, d)
      BY <3>2, <3>3, GrowsOnwards
    <3> QED
      BY <3>1, <3>3, <3>4, StepKeeps
  <2>5. CASE Update(e)
    <3> DEFINE d == Flush(e, c)
    <3>1. c.phase # "Absent" /\ conn' = [conn EXCEPT ![e] = d]
      BY <2>5 DEF Update, Becomes
    <3>2. Own(e, d) /\ Link(e, d, q) /\ Grows(c, d)
      BY <2>1, <3>1, FlushKeeps
    <3> HIDE DEF d
    <3> QED
      BY <3>1, <3>2, StepKeeps
  <2>6. ASSUME NEW channel \in Channels(e) \cap AppChannel, Send(e, channel)
        PROVE  ConnectionInvariant'
    <3> DEFINE d == SendNumber(e, c, channel)
    <3>1. c.phase = "Transfer" /\ c.count < MaxMessages[e] /\ conn' = [conn EXCEPT ![e] = d]
      BY <2>6 DEF Send, Becomes, SendNumber
    <3>2. Own(e, d) /\ Link(e, d, q) /\ Grows(c, d)
      BY <2>1, <3>1, SendKeeps
    <3> HIDE DEF d
    <3> QED
      BY <3>1, <3>2, StepKeeps
  <2> QED
    BY <1>2, <2>3, <2>4, <2>5, <2>6
<1> QED
  BY <1>1, <1>2 DEF Next

-----------------------------------------------------------------------------
(* After the handshake *)

LEMMA SettledFields ==
  ASSUME NEW e \in Endpoint
  PROVE  LET d == Settled(e)
             n == Count(e)
             f == Peer(e)
             m == Count(f)
             last == [Blank EXCEPT !.id = AckStage, !.key = n + 2, !.acked = 1..(m + 1)] IN
         /\ d \in Connections /\ d.phase = "Transfer" /\ d.received_last = FALSE
         /\ d.last_key = NoKey /\ d.acks = {} /\ d.seen = {} /\ d.resender = {}
         /\ d.next_key = n + 2 /\ d.remote = Registry[f] /\ d.count = 0 /\ d.alive = TRUE
         /\ d.inbox = Absent.inbox
         /\ last \in Packet /\ IsAck(AckStage, last) /\ last.key = n + 2
         /\ d.sent = {Registration(e, i) : i \in 0..n} \cup {last}
         /\ \A id \in Ids \ {MgmtStage} : d.orders[id] = 0
         /\ \A id \in Ids \ {MgmtStage} :
               d.orderers[id] = IF id < m /\ Registry[f][id + 1] \in Ordered
                                THEN NewOrderer ELSE NoOrderer
<1> DEFINE n == Count(e)
           f == Peer(e)
           m == Count(f)
           t == Transfer(Initialize(e))
           last == [Blank EXCEPT !.id = AckStage, !.key = n + 2, !.acked = 1..(m + 1)]
           mgmt == [present |-> TRUE, window  |-> [EmptyWindow EXCEPT !.start = m + 1]]
           orderers == [id \in Ids |->
                          CASE id = MgmtStage -> mgmt
                            [] id < m /\ Registry[f][id + 1] \in Ordered -> NewOrderer
                            [] OTHER -> NoOrderer]
           sent == t.sent \cup {last}
           d == Settled(e)
<1>1. f \in Endpoint
  BY Peers
<1>2. /\ n \in Nat /\ m \in Nat /\ m + 1 < OrderCount /\ OrderCount \in Nat \ {0}
      /\ Registry[f] \in Seq(Channel) /\ AckStage \in Ids /\ Ids \subseteq Nat
      /\ m < MgmtStage /\ MgmtStage \in Ids
  BY <1>1, Sizes
<1>3. /\ t \in Connections /\ t.phase = "Transfer" /\ t.received_last = FALSE
      /\ t.last_key = NoKey /\ t.acks = {} /\ t.seen = {} /\ t.resender = {}
      /\ t.count = 0 /\ t.alive = TRUE /\ t.inbox = Absent.inbox
      /\ t.sent = {Registration(e, i) : i \in 0..n}
      /\ \A id \in Ids \ {MgmtStage} : t.orders[id] = 0
  <2> DEFINE b == Initialize(e)
  <2>1. /\ b \in Connections /\ b.inbox = Absent.inbox /\ b.count = 0 /\ b.alive = TRUE
        /\ \A id \in Ids \ {MgmtStage} : b.orders[id] = 0
        /\ b.sent = {Registration(e, i) : i \in 0..n}
    BY InitializeFields
  <2>2. t = Transfer(b)
    OBVIOUS
  <2> HIDE DEF b, t
  <2>3. /\ t \in Connections /\ t.phase = "Transfer" /\ t.received_last = FALSE
        /\ t.last_key = NoKey /\ t.acks = {} /\ t.seen = {} /\ t.resender = {}
        /\ t.orders = b.orders /\ t.inbox = b.inbox /\ t.alive = b.alive
        /\ t.count = b.count /\ t.sent = b.sent
    BY <2>1, <2>2, TransferFields
  <2> QED
    BY <2>1, <2>3
<1> HIDE DEF t
<1>4. last \in Packet /\ IsAck(AckStage, last) /\ last.key = n + 2
  <2>1. n + 2 \in Nat /\ 1..(m + 1) \in SUBSET Nat
    BY <1>2
  <2> QED
    BY <1>2, <2>1, BlankFields DEF Packet, IsAck
<1> HIDE DEF last
<1>5. mgmt \in Orderer
  <2> DEFINE w == [EmptyWindow EXCEPT !.start = m + 1]
  <2>1. w = [start |-> m + 1, ahead |-> EmptyWindow.ahead]
    BY DEF EmptyWindow
  <2>2. EmptyWindow \in Windows
    BY EmptyIsWindow
  <2>3. EmptyWindow.ahead \in [DOMAIN EmptyWindow.ahead -> Packet]
        /\ DOMAIN EmptyWindow.ahead \in SUBSET Nat /\ IsFiniteSet(DOMAIN EmptyWindow.ahead)
    BY <2>2, WindowFields
  <2>4. m + 1 \in 0..(OrderCount - 1)
    BY <1>2
  <2> HIDE DEF w, m
  <2>5. w \in Windows
    BY <2>1, <2>3, <2>4, WindowIs
  <2> QED
    BY <2>5 DEF Orderer, w
<1> HIDE DEF mgmt
<1>6. orderers \in [Ids -> Orderer]
  BY <1>5, EmptyIsWindow
<1>7. \A id \in Ids \ {MgmtStage} :
         orderers[id] = IF id < m /\ Registry[f][id + 1] \in Ordered
                        THEN NewOrderer ELSE NoOrderer
  OBVIOUS
<1>8. d = [t EXCEPT !.next_key = n + 2, !.remote = Registry[f], !.orderers = orderers,
                    !.sent = sent]
  BY DEF Settled, t, last, mgmt, Count
<1> HIDE DEF orderers
<1>9. sent \in SUBSET Packet /\ sent = {Registration(e, i) : i \in 0..n} \cup {last}
  <2>1. t.sent \in SUBSET Packet
    BY <1>3, ConnectionFields
  <2> QED
    BY <1>3, <1>4, <2>1
<1> HIDE DEF sent
<1>10. n + 2 \in Nat
  BY <1>2
<1> HIDE DEF d, n, m
<1>11. /\ d \in Connections /\ d.phase = t.phase /\ d.received_last = t.received_last
       /\ d.last_key = t.last_key /\ d.acks = t.acks /\ d.seen = t.seen
       /\ d.resender = t.resender /\ d.next_key = n + 2 /\ d.remote = Registry[f]
       /\ d.count = t.count /\ d.alive = t.alive /\ d.inbox = t.inbox
       /\ d.sent = sent /\ d.orders = t.orders /\ d.orderers = orderers
  BY <1>2, <1>3, <1>6, <1>8, <1>9, <1>10 DEF Connections
<1> QED
  BY <1>3, <1>4, <1>7, <1>9, <1>11 DEF d, last, n, m

LEMMA SettledIsOwn ==
  ASSUME NEW e \in Endpoint, NEW q, q.phase = "Transfer"
  PROVE  Own(e, Settled(e)) /\ Link(e, Settled(e), q)
<1> DEFINE d == Settled(e)
           n == Count(e)
           f == Peer(e)
           m == Count(f)
           last == [Blank EXCEPT !.id = AckStage, !.key = n + 2, !.acked = 1..(m + 1)]
<1>1. f \in Endpoint
  BY Peers
<1>2. /\ n \in Nat /\ m \in Nat /\ AckStage \in Nat /\ n < AckStage /\ m < MgmtStage
      /\ Registry[f] \in Seq(Channel) /\ Capacity \in Nat /\ AckLimit \in Nat
      /\ MaxMessages[e] \in Nat /\ m = Len(Registry[f])
  <2>1. AckStage = NullChannelId - 1 /\ MgmtStage = NullChannelId - 2 /\ NullChannelId \in Nat
    BY Sizes
  <2>2. /\ n \in Nat /\ n < MgmtStage /\ Capacity \in Nat /\ AckLimit \in Nat
        /\ MaxMessages[e] \in Nat
    BY Sizes
  <2>3. m \in Nat /\ m < MgmtStage /\ Registry[f] \in Seq(Channel)
    BY <1>1, Sizes
  <2>4. m = Len(Registry[f])
    BY DEF Count
  <2> HIDE DEF m, n
  <2> QED
    BY ONLY <2>1, <2>2, <2>3, <2>4
<1>3. /\ d \in Connections /\ d.phase = "Transfer" /\ d.received_last = FALSE
      /\ d.last_key = NoKey /\ d.acks = {} /\ d.seen = {} /\ d.resender = {}
      /\ d.next_key = n + 2 /\ d.remote = Registry[f] /\ d.count = 0 /\ d.alive = TRUE
      /\ d.inbox = Absent.inbox
      /\ last \in Packet /\ IsAck(AckStage, last) /\ last.key = n + 2
      /\ d.sent = {Registration(e, i) : i \in 0..n} \cup {last}
      /\ \A id \in Ids \ {MgmtStage} :
            d.orderers[id] = IF id < m /\ Registry[f][id + 1] \in Ordered
                             THEN NewOrderer ELSE NoOrderer
  BY SettledFields
<1> HIDE DEF d, last
<1>4. \A i \in 0..n : /\ Registration(e, i).key = i + 1 /\ Registration(e, i).msg = 0
                      /\ Registration(e, i).acked = {} /\ Registration(e, i).id = MgmtStage
                      /\ IsRegistration(e, Registration(e, i))
  BY RegistrationFields DEF IsRegistration
<1>5. Typed(e, d)
  <2>1. IsFiniteSet(d.acks) /\ Cardinality(d.acks) = 0 /\ Cardinality(d.resender) = 0
    BY <1>3, FS_EmptySet
  <2>2. d.last_key <= d.next_key /\ d.resender \subseteq 1..d.next_key
    BY <1>2, <1>3 DEF NoKey
  <2>3. 0 <= Capacity /\ 0 <= AckLimit /\ d.count <= MaxMessages[e]
    BY <1>2, <1>3
  <2> QED
    BY <1>3, <2>1, <2>2, <2>3 DEF Typed
<1>6. Sent(e, d)
  <2> SUFFICES ASSUME NEW p \in d.sent
               PROVE  /\ Sendable(e, d, p) /\ p.key <= d.next_key /\ p.msg <= d.count
                      /\ p.id # LocalId(e, Ack)
    BY <1>3 DEF Sent
  <2>1. LocalId(e, Ack) \in 0..(n - 1)
    BY Names, LocalIds
  <2>2. MgmtStage \notin 0..(n - 1) /\ AckStage \notin 0..(n - 1)
    BY Sizes
  <2>3. CASE p = last
    <3>1. p.id = AckStage /\ p.msg = 0 /\ p.key = n + 2
      BY <1>3, <2>3 DEF IsAck
    <3> QED
      BY <1>2, <1>3, <2>1, <2>2, <2>3, <3>1 DEF Sendable
  <2>4. ASSUME NEW i \in 0..n, p = Registration(e, i)
        PROVE  /\ Sendable(e, d, p) /\ p.key <= d.next_key /\ p.msg <= d.count
               /\ p.id # LocalId(e, Ack)
    <3>1. p.id = MgmtStage /\ p.msg = 0 /\ p.key = i + 1 /\ IsRegistration(e, p)
      BY <1>4, <2>4
    <3> QED
      BY <1>2, <1>3, <2>1, <2>2, <3>1 DEF Sendable
  <2> QED
    BY <1>3, <2>3, <2>4
<1>7. Unique(d)
  <2>1. \A p \in d.sent : p.msg = 0
    BY <1>3, <1>4 DEF IsAck
  <2>2. \A p, r \in d.sent : p.key = r.key => p = r
    <3>1. \A i, j \in 0..n : i + 1 = j + 1 => i = j
      BY <1>2
    <3>2. \A i \in 0..n : i + 1 # n + 2
      BY <1>2
    <3> QED
      BY <1>3, <1>4, <3>1, <3>2
  <2> QED
    BY <2>1, <2>2 DEF Unique
<1>8. Phases(e, d) /\ Handshake(f, d)
  <2>1. DOMAIN d.remote = 1..m /\ Len(d.remote) = m
    BY <1>2, <1>3
  <2> QED
    BY <1>2, <1>3, <2>1 DEF Phases, Handshake, Count
<1>9. \A channel \in AppChannel : d.inbox[channel] = <<>>
  BY <1>3, AbsentFields
<1>10. \A channel \in Channels(f) : DOMAIN Ahead(f, d, channel) = {}
  <2> SUFFICES ASSUME NEW channel \in Channels(f)
               PROVE  DOMAIN Ahead(f, d, channel) = {}
    OBVIOUS
  <2>1. LocalId(f, channel) \in Ids \ {MgmtStage}
    BY <1>1, LocalIds, Sizes
  <2>2. d.orderers[LocalId(f, channel)] \in {NoOrderer, NewOrderer}
    BY <1>3, <2>1
  <2> QED
    BY <2>2, EmptyIsWindow DEF Ahead
<1>11. Once(f, d) /\ Delivery(d, q) /\ Waiting(f, d, q)
  BY <1>9, <1>10 DEF Once, Delivery, Waiting, IsInjective
<1>12. LastArrived(e, d, q)
  BY DEF LastArrived
<1> QED
  BY <1>5, <1>6, <1>7, <1>8, <1>11, <1>12 DEF Own, Link, d

LEMMA SettledKeeps ==
  ASSUME conn = [e \in Endpoint |-> Settled(e)]
  PROVE  ConnectionInvariant
<1>1. \A e \in Endpoint : Settled(e) \in Connections /\ Settled(e).phase = "Transfer"
  BY SettledFields
<1>2. conn \in [Endpoint -> Connections]
  BY <1>1
<1>3. \A e \in Endpoint : conn[e] = Settled(e) /\ conn[Peer(e)].phase = "Transfer"
  BY <1>1, Peers
<1> QED
  BY <1>2, <1>3, SettledIsOwn DEF ConnectionInvariant
-----------------------------------------------------------------------------
(* Theorems *)

\* Whatever the network does to the packets, the two connections keep the
\* invariant above, from the first packet on or after a handshake: what is in
\* the network, what was recorded as seen and what was handed over fit.
THEOREM ConnectionCorrect == Spec \/ SettledSpec => []ConnectionInvariant
<1>1. Init => ConnectionInvariant
  BY InitKeeps DEF Init
<1>2. conn = [e \in Endpoint |-> Settled(e)] => ConnectionInvariant
  BY SettledKeeps
<1>3. ConnectionInvariant /\ [Next]_vars => ConnectionInvariant'
  BY NextKeeps
<1> QED
  BY <1>1, <1>2, <1>3, PTL DEF Spec, SettledSpec

\* The types, the resender within its capacity, and acknowledgements that fit
\* one packet (SendPacket, Acknowledge and Flush in Connection).
THEOREM TypeCorrect == Spec \/ SettledSpec => []TypeOK
<1>1. ConnectionInvariant => TypeOK
  <2> SUFFICES ASSUME ConnectionInvariant, NEW e \in Endpoint
               PROVE  LET c == conn[e] IN
                      /\ c.phase \in {"Absent", "Registration", "Transfer"}
                      /\ c.received_last \in BOOLEAN /\ c.alive \in BOOLEAN
                      /\ c.next_key \in Nat /\ c.last_key \in 0..c.next_key
                      /\ c.resender \subseteq 1..c.next_key
                      /\ Cardinality(c.resender) <= Capacity
                      /\ c.seen \in SUBSET Nat /\ c.acks \in SUBSET Nat
                      /\ Cardinality(c.acks) <= AckLimit
                      /\ c.orders \in [Ids -> 0..(WireOrders - 1)]
                      /\ c.remote \in Seq(Channel)
                      /\ c.inbox \in [AppChannel -> Seq(Nat)]
                      /\ c.count \in 0..MaxMessages[e]
                      /\ \A p \in c.sent : p.id \in Ids /\ p.key \in 0..c.next_key
    BY DEF TypeOK
  <2> DEFINE c == conn[e]
  <2>1. Typed(e, c) /\ Sent(e, c)
    BY DEF ConnectionInvariant, Own
  <2> HIDE DEF c
  <2>2. c \in Connections
    BY <2>1 DEF Typed
  <2>3. /\ c.phase \in {"Absent", "Registration", "Transfer"}
        /\ c.received_last \in BOOLEAN /\ c.alive \in BOOLEAN
        /\ c.last_key \in Nat /\ c.next_key \in Nat /\ c.count \in Nat
        /\ c.resender \in SUBSET Nat /\ c.seen \in SUBSET Nat /\ c.acks \in SUBSET Nat
        /\ c.orders \in [Ids -> 0..(WireOrders - 1)]
        /\ c.remote \in Seq(Channel) /\ c.inbox \in [AppChannel -> Seq(Nat)]
        /\ c.sent \in SUBSET Packet
    BY <2>2, ConnectionFields
  <2>4. c.last_key \in 0..c.next_key /\ c.count \in 0..MaxMessages[e]
    BY <2>1, <2>3, Sizes DEF Typed
  <2>5. \A p \in c.sent : p.id \in Ids /\ p.key \in Nat
    BY <2>3 DEF Packet
  <2>6. \A p \in c.sent : p.id \in Ids /\ p.key \in 0..c.next_key
    BY <2>1, <2>3, <2>5 DEF Sent
  <2> QED
    BY <2>1, <2>3, <2>4, <2>6 DEF Typed, c
<1> QED
  BY <1>1, ConnectionCorrect, PTL

\* The two sides never read a channel id differently: what one knows of the
\* other's channels is a part of them, from the first on, and in the transfer
\* phase all of them (handle_channel_management and not_local_inner).
THEOREM ChannelsAreAgreed == Spec \/ SettledSpec => []ChannelsAgree
<1>1. ConnectionInvariant => ChannelsAgree
  <2> SUFFICES ASSUME ConnectionInvariant, NEW e \in Endpoint
               PROVE  /\ IsPrefix(conn[e].remote, Registry[Peer(e)])
                      /\ conn[e].phase = "Transfer" => conn[e].remote = Registry[Peer(e)]
    BY DEF ChannelsAgree
  <2> DEFINE s == conn[e].remote
             t == Registry[Peer(e)]
  <2>1. Own(e, conn[e]) /\ conn[e] \in Connections
    BY DEF ConnectionInvariant, Own, Typed
  <2>2. s \in Seq(Channel) /\ t \in Seq(Channel)
    BY <2>1, ConnectionFields, Peers, Sizes
  <2>3. Len(s) <= Len(t) /\ \A i \in DOMAIN s : s[i] = t[i]
    BY <2>1 DEF Own, Handshake, Count
  <2>4. conn[e].phase = "Transfer" => s = t
    BY <2>1 DEF Own, Handshake
  <2> HIDE DEF s, t
  <2>5. SubSeq(s, 1, Len(s)) = SubSeq(t, 1, Len(s))
    BY <2>2, <2>3
  <2> QED
    BY <2>3, <2>4, <2>5 DEF IsPrefix, s, t
<1> QED
  BY <1>1, ConnectionCorrect, PTL

\* The side that is first in the transfer phase knows that its last
\* registration has arrived (before speculatively_transfer in handle_message).
THEOREM FirstTransferIsAcked == Spec \/ SettledSpec => []FirstTransferAcked
<1>1. ConnectionInvariant => FirstTransferAcked
  BY DEF ConnectionInvariant, Own, Link, Phases, LastArrived, Count, FirstTransferAcked
<1> QED
  BY <1>1, ConnectionCorrect, PTL

\* A message arrives on the channel it was sent on (handle_message).
THEOREM MessagesOnRightChannel == Spec \/ SettledSpec => []RightChannel
<1>1. ConnectionInvariant => RightChannel
  BY DEF ConnectionInvariant, Link, Delivery, Taken, RightChannel
<1> QED
  BY <1>1, ConnectionCorrect, PTL

\* A message of a reliable channel is handed over once, however often its
\* packet arrives (resend_key_duplicate_checker).
THEOREM MessagesHandledOnce == Spec \/ SettledSpec => []HandledOnce
<1>1. ConnectionInvariant => HandledOnce
  BY DEF ConnectionInvariant, Own, Once, HandledOnce
<1> QED
  BY <1>1, ConnectionCorrect, PTL

-----------------------------------------------------------------------------
(* What steps do to messages *)

\* A step that sends no messages.
Same(c, d) ==
    /\ d.orders = c.orders /\ d.count = c.count /\ c.sent \subseteq d.sent
    /\ \A p \in d.sent \ c.sent : p.on = Nameless

\* What is recorded as seen when p arrives: nothing, or its key.
Records(c, d, p) == d.seen \subseteq c.seen \cup {p.key}

\* A packet arrives before the transfer phase.
Begins(f, c, d, p) ==
    /\ Same(c, d) /\ Untouched(f, d) /\ d.phase # "Absent"
    /\ Channels(f) \subseteq Channels(Peer(f)) => d.alive = c.alive
    /\ \/ d.seen \subseteq c.seen
       \/ p.on = Nameless /\ Records(c, d, p)

LEMMA SameOnwards ==
  ASSUME NEW c, NEW d, NEW g, Same(c, d), Same(d, g)
  PROVE  Same(c, g)
  BY DEF Same

LEMMA AnswersSame ==
  ASSUME NEW c, NEW d, Answers(c, d)
  PROVE  Same(c, d)
  BY DEF Answers, Same

\* What is handled in the registration phase touches none of the channels.
LEMMA RegistrationHandled ==
  ASSUME NEW e \in Endpoint, NEW c, NEW q, Own(e, c), Link(e, c, q), Own(Peer(e), q),
         c.phase = "Registration", NEW p \in q.sent, Known(c, p.id), Unread(Peer(e), c, p),
         ChannelOf(c, p.id) \in Reliable => p.key \in c.seen
  PROVE  LET d == Handle(e, c, ChannelOf(c, p.id), p) IN
         /\ Same(c, d) /\ Untouched(Peer(e), d) /\ d.phase # "Absent" /\ d.seen \subseteq c.seen
         /\ Channels(Peer(e)) \subseteq Channels(e) => d.alive = c.alive
<1> DEFINE f == Peer(e)
           channel == ChannelOf(c, p.id)
           d == Handle(e, c, channel, p)
<1>1. f \in Endpoint
  BY Peers
<1>2. ASSUME channel = Ack, p.id = AckStage
      PROVE  /\ Same(c, d) /\ Untouched(f, d) /\ d.phase # "Absent" /\ d.seen \subseteq c.seen
             /\ d.alive = c.alive
  <2>1. channel \notin Ordered
    BY <1>1, <1>2, Names
  <2> HIDE DEF channel
  <2>2. d = HandleAck(c, p)
    <3>1. Ack # Mgmt
      BY <1>1, Names
    <3>2. HandleRun(c, Ack, <<p>>) = HandleAck(c, p)
      BY <3>1 DEF HandleRun
    <3> QED
      BY <1>2, <2>1, <3>2 DEF Handle
  <2> HIDE DEF d
  <2>3. Own(e, d)
    BY <1>2, <2>2, HandleAckKeeps
  <2>4. PICK g \in Connections :
           /\ Quiet(c, g) /\ g.seen = c.seen /\ g.sent = c.sent /\ g.orders = c.orders
           /\ g.count = c.count
           /\ \/ d = g
              \/ c.phase = "Registration" /\ c.received_last /\ d = Transfer(g)
    BY <1>2, <2>2, HandleAckKeeps
  <2>5. /\ d.sent = c.sent /\ d.orders = c.orders /\ d.count = c.count /\ d.phase # "Absent"
        /\ d.seen \subseteq c.seen /\ d.alive = c.alive /\ d.orderers = c.orderers
        /\ d.inbox = c.inbox
    <3>1. /\ g.orderers = c.orderers /\ g.inbox = c.inbox /\ g.alive = c.alive
          /\ g.phase = c.phase /\ g.seen = c.seen /\ g.sent = c.sent
          /\ g.orders = c.orders /\ g.count = c.count
      BY ONLY <2>4 DEF Quiet
    <3>2. CASE d = g
      BY <3>1, <3>2
    <3>3. CASE d = Transfer(g)
      <4>1. /\ d.sent = g.sent /\ d.orders = g.orders /\ d.count = g.count
            /\ d.phase = "Transfer" /\ d.seen = {} /\ d.alive = g.alive
            /\ d.orderers = g.orderers /\ d.inbox = g.inbox
        BY ONLY <3>3, g \in Connections, TransferFields
      <4> QED
        BY ONLY <3>1, <4>1
    <3> QED
      BY <2>4, <3>2, <3>3
  <2>6. Untouched(f, d)
    <3>1. CASE d = g
      <4>1. d.phase = "Registration"
        BY <2>4, <3>1 DEF Quiet
      <4> QED
        BY <2>3, <4>1, RegistrationUntouched
    <3>2. CASE c.received_last
      <4>1. Untouched(f, Transfer(c))
        BY <3>2, RegistrationUntouched
      <4>2. /\ Transfer(c).inbox = c.inbox /\ Transfer(c).orderers = c.orderers
            /\ Transfer(c).phase = "Transfer"
        BY TransferFields DEF Own, Typed
      <4> QED
        BY <2>5, <4>1, <4>2 DEF Untouched
    <3> QED
      BY <2>4, <3>1, <3>2
  <2> QED
    BY <2>5, <2>6 DEF Same
<1>3. ASSUME IsRegistration(f, p), channel = Mgmt
      PROVE  /\ Same(c, d) /\ Untouched(f, d) /\ d.phase # "Absent" /\ d.seen \subseteq c.seen
             /\ Channels(Peer(e)) \subseteq Channels(e) => d.alive = c.alive
  <2>1. channel \in Ordered /\ channel \in Reliable
    BY <1>1, <1>3, Names
  <2>2. PICK i \in 0..Count(f) : p = Registration(f, i)
    BY <1>3 DEF IsRegistration
  <2>3. p.order = i /\ p.key = i + 1
    BY <1>1, <2>2, RegistrationFields
  <2>4. i + 1 \in c.seen
    BY <2>1, <2>3
  <2>5. c.orderers[MgmtStage].present => c.orderers[MgmtStage].window.start <= i
    BY <1>3, <2>3 DEF Unread
  <2> HIDE DEF channel
  <2>6. d = HandleOrdered(e, c, Mgmt, Registration(f, i))
    BY <1>3, <2>1, <2>2 DEF Handle
  <2> HIDE DEF d
  <2>7. /\ d.sent = c.sent /\ d.orders = c.orders /\ d.count = c.count
        /\ Channels(Peer(e)) \subseteq Channels(e) => d.alive = c.alive
        /\ d.phase # "Absent" /\ Untouched(Peer(e), d) /\ d.seen \subseteq c.seen
    BY <1>3, <2>4, <2>5, <2>6, RegistrationsKeep
  <2> QED
    BY <2>7 DEF Same
<1>4. \/ p.id = AckStage /\ channel = Ack
      \/ IsRegistration(f, p) /\ channel = Mgmt
  BY ChannelOfIs
<1> HIDE DEF channel
<1> QED
  BY <1>2, <1>3, <1>4 DEF channel

\* A step that leaves the channels and the messages as they are.
Idle(c, d) == Quiet(c, d) /\ Same(c, d)

\* What the arrival of p does in the transfer phase when it hands over nothing:
\* only an acknowledgement takes keys from the resender, and the key of a
\* message is recorded as seen only if it cannot be acknowledged.
Passes(f, c, d, p) ==
    /\ Idle(c, d)
    /\ \A key \in c.resender \ d.resender : p.id = LocalId(f, Ack) /\ key \in p.acked
    /\ \/ d.seen = c.seen
       \/ Records(c, d, p) /\ (p.on = Nameless \/ ~CanAcknowledge(c))

\* What the arrival of a message p does, which is not a duplicate.
Takes(e, c, d, q, p) ==
    \E b \in Connections :
       /\ Idle(c, b) /\ Own(e, b) /\ Link(e, b, q) /\ b.phase = "Transfer"
       /\ Arrives(Peer(e), b, q, p) /\ c.resender \subseteq b.resender
       /\ p.on \in Reliable => p.key \notin c.seen
       /\ b.seen = IF p.on \in Reliable THEN c.seen \cup {p.key} ELSE c.seen
       /\ d = Handle(e, b, p.on, p)

LEMMA AnswersIdle ==
  ASSUME NEW c, NEW d, Answers(c, d)
  PROVE  Idle(c, d) /\ c.resender \subseteq d.resender
  BY AnswersSame DEF Answers, Idle

LEMMA IdleOnwards ==
  ASSUME NEW c, NEW d, NEW g, Idle(c, d), Idle(d, g)
  PROVE  Idle(c, g)
  BY DEF Idle, Quiet, Same

\* What is handled in the transfer phase.
LEMMA TransferHandled ==
  ASSUME NEW e \in Endpoint, NEW c, NEW q, Own(e, c), Link(e, c, q), Own(Peer(e), q),
         c.phase = "Transfer", NEW p \in q.sent, Known(c, p.id), ChannelOf(c, p.id) = Ack
  PROVE  LET d == Handle(e, c, Ack, p) IN
         /\ Idle(c, d) /\ d.seen = c.seen /\ d.resender = c.resender \ p.acked
         /\ p.id = LocalId(Peer(e), Ack) /\ p.on = Nameless
<1> DEFINE f == Peer(e)
           d == Handle(e, c, Ack, p)
<1>1. f \in Endpoint
  BY Peers
<1>2. Ack \notin Ordered /\ Ack # Mgmt /\ Ack \notin AppChannel
  BY Names
<1>3. p.id = LocalId(f, Ack) /\ IsAck(LocalId(f, Ack), p)
  <2>1. IsMessage(f, p) => p.on # Ack
    BY <1>2 DEF IsMessage
  <2>2. \/ p.id = LocalId(f, Ack) /\ IsAck(LocalId(f, Ack), p)
        \/ IsMessage(f, p) /\ Ack = p.on
    BY ChannelOfIs
  <2> QED
    BY <2>1, <2>2
<1>4. d = HandleAck(c, p)
  BY <1>2 DEF Handle, HandleRun
<1> HIDE DEF d
<1>5. PICK g \in Connections :
         /\ Quiet(c, g) /\ g.seen = c.seen /\ g.resender = c.resender \ p.acked
         /\ g.sent = c.sent /\ g.orders = c.orders /\ g.count = c.count /\ d = g
  BY <1>3, <1>4, HandleAckKeeps
<1>6. Idle(c, d)
  BY <1>5 DEF Idle, Same
<1> QED
  BY <1>3, <1>5, <1>6 DEF d, IsAck

\* What the arrival of a packet does, by the phase in which it is handled.
LEMMA HandleMessageIs ==
  ASSUME NEW e \in Endpoint, NEW c0, NEW q, Own(e, c0), Link(e, c0, q), Own(Peer(e), q),
         c0.phase # "Absent", NEW p \in q.sent
  PROVE  LET c == Speculate(c0, p)
             d == HandleMessage(e, c0, p) IN
         \/ c.phase = "Registration" /\ Begins(Peer(e), c, d, p)
         \/ c.phase = "Transfer" /\ Passes(Peer(e), c, d, p)
         \/ c.phase = "Transfer" /\ Takes(e, c, d, q, p)
<1> DEFINE f == Peer(e)
           c == Speculate(c0, p)
           channel == ChannelOf(c, p.id)
           marked == [c EXCEPT !.seen = @ \cup {p.key}]
           acked == Acknowledge(e, marked, p.key)
           d == HandleMessage(e, c0, p)
<1>1. d = IF ~Known(c, p.id) THEN c
          ELSE IF channel \notin Reliable THEN Handle(e, c, channel, p)
          ELSE IF p.key \in c.seen THEN c
          ELSE IF ~CanAcknowledge(c) THEN marked
          ELSE Handle(e, acked, channel, p)
  BY DEF HandleMessage
<1>2. /\ Own(e, c) /\ Link(e, c, q) /\ c.phase # "Absent" /\ c \in Connections
      /\ f \in Endpoint /\ Peer(f) = e
  BY SpeculateKeeps, Peers DEF Own, Typed
<1>3. p.key \in Nat /\ p \in Packet
  <2>1. q \in Connections
    BY DEF Own, Typed
  <2>2. p \in Packet
    BY <2>1, ConnectionFields
  <2> QED
    BY <2>2 DEF Packet
<1>4. c.phase \in {"Registration", "Transfer"}
  BY <1>2, ConnectionFields
<1> HIDE DEF c, d
<1>5. /\ Own(e, marked) /\ Link(e, marked, q) /\ Answers(c, marked)
      /\ marked.seen = c.seen \cup {p.key} /\ marked.resender = c.resender
      /\ marked.acks = c.acks
  BY <1>2, <1>3, MarkKeeps
<1> HIDE DEF marked
<1>6. marked.phase = c.phase
  BY <1>5 DEF Answers, Quiet
<1>7. CanAcknowledge(c) =>
         /\ Own(e, acked) /\ Link(e, acked, q) /\ Answers(c, acked)
         /\ acked.seen = c.seen \cup {p.key}
  <2>1. p.key \in marked.seen /\ marked.phase # "Absent"
    BY <1>2, <1>5, <1>6
  <2>2. CanAcknowledge(c) => CanAcknowledge(marked)
    BY <1>5 DEF CanAcknowledge, Full
  <2>3. CanAcknowledge(c) =>
           /\ Own(e, acked) /\ Link(e, acked, q) /\ Answers(marked, acked)
           /\ acked.seen = marked.seen
    BY <1>5, <2>1, <2>2, AcknowledgeKeeps
  <2> QED
    BY <1>5, <2>3, AnswersOnwards
<1> HIDE DEF acked, channel
<1>8. ASSUME Known(c, p.id)
      PROVE  \/ c.phase = "Registration" /\ p.id = AckStage /\ channel = Ack
             \/ c.phase = "Registration" /\ IsRegistration(f, p) /\ channel = Mgmt
             \/ c.phase = "Transfer" /\ p.id = LocalId(f, Ack) /\ IsAck(LocalId(f, Ack), p) /\ channel = Ack
             \/ c.phase = "Transfer" /\ IsMessage(f, p) /\ channel = p.on
  BY <1>2, <1>8, ChannelOfIs DEF channel
<1>9. {Ack, Mgmt} \subseteq Reliable /\ Ack # Mgmt
  BY <1>2, Names
<1>10. Idle(c, c) /\ Same(c, c)
  BY DEF Idle, Quiet, Same
<1>11. ASSUME c.phase = "Registration" PROVE Begins(f, c, d, p)
  <2>1. Untouched(f, c)
    BY <1>2, <1>11, RegistrationUntouched
  <2>2. Begins(f, c, c, p)
    BY <1>2, <1>10, <2>1 DEF Begins
  <2>3. Known(c, p.id) => p.on = Nameless /\ channel \in Reliable
    <3>1. Known(c, p.id) => p.id \in StageIds
      BY <1>11 DEF Known
    <3>2. p.id \in StageIds => p.on = Nameless
      BY <1>2, SendableById DEF Own, Sent
    <3> QED
      BY <1>8, <1>9, <1>11, <3>1, <3>2
  <2>4. ASSUME Known(c, p.id), p.key \notin c.seen, ~CanAcknowledge(c)
        PROVE  Begins(f, c, marked, p)
    <3>1. Same(c, marked) /\ marked.alive = c.alive /\ marked.phase = "Registration"
      BY <1>5, <1>6, <1>11, AnswersSame DEF Answers, Quiet
    <3>2. Untouched(f, marked)
      BY <1>5, <3>1, RegistrationUntouched
    <3> QED
      BY <1>5, <2>3, <2>4, <3>1, <3>2 DEF Begins, Records
  <2>5. ASSUME Known(c, p.id), p.key \notin c.seen, CanAcknowledge(c)
        PROVE  Begins(f, c, Handle(e, acked, channel, p), p)
    <3> DEFINE g == Handle(e, acked, channel, p)
    <3>1. /\ Own(e, acked) /\ Link(e, acked, q) /\ Answers(c, acked)
          /\ acked.seen = c.seen \cup {p.key}
      BY <1>7, <2>5
    <3>2. Unread(f, acked, p)
      BY <1>2, <2>5, <3>1, UnseenIsUnread, UnreadStays DEF Answers
    <3>3. /\ Known(acked, p.id) /\ ChannelOf(acked, p.id) = channel
          /\ acked.phase = "Registration" /\ acked.alive = c.alive
      BY <1>2, <1>11, <2>5, <3>1 DEF Answers, Quiet, Known, ChannelOf, channel
    <3>4. /\ Same(acked, g) /\ Untouched(f, g) /\ g.phase # "Absent" /\ g.seen \subseteq acked.seen
          /\ Channels(f) \subseteq Channels(e) => g.alive = acked.alive
      BY <3>1, <3>2, <3>3, RegistrationHandled
    <3> HIDE DEF g
    <3>5. Same(c, g)
      BY <3>1, <3>4, AnswersSame, SameOnwards
    <3> QED
      BY <1>2, <2>3, <2>5, <3>1, <3>3, <3>4, <3>5 DEF Begins, Records, g
  <2> QED
    BY <1>1, <1>11, <2>2, <2>3, <2>4, <2>5
<1>12. ASSUME c.phase = "Transfer" PROVE Passes(f, c, d, p) \/ Takes(e, c, d, q, p)
  <2>1. Passes(f, c, c, p)
    BY <1>10 DEF Passes
  <2>2. ASSUME Known(c, p.id), channel \in Reliable, p.key \notin c.seen, ~CanAcknowledge(c)
        PROVE  Passes(f, c, marked, p)
    <3>1. Idle(c, marked)
      BY <1>5, AnswersIdle
    <3> QED
      BY <1>5, <2>2, <3>1 DEF Passes, Records
  <2>3. ASSUME Known(c, p.id), channel = Ack, p.key \notin c.seen, CanAcknowledge(c)
        PROVE  Passes(f, c, Handle(e, acked, channel, p), p)
    <3> DEFINE g == Handle(e, acked, Ack, p)
    <3>1. /\ Own(e, acked) /\ Link(e, acked, q) /\ Answers(c, acked)
          /\ acked.seen = c.seen \cup {p.key}
      BY <1>7, <2>3
    <3>2. Known(acked, p.id) /\ ChannelOf(acked, p.id) = Ack /\ acked.phase = "Transfer"
      BY <1>2, <1>12, <2>3, <3>1 DEF Answers, Quiet, Known, ChannelOf, channel
    <3>3. /\ Idle(acked, g) /\ g.seen = acked.seen /\ g.resender = acked.resender \ p.acked
          /\ p.id = LocalId(f, Ack) /\ p.on = Nameless
      BY <3>1, <3>2, TransferHandled
    <3> HIDE DEF g
    <3>4. Idle(c, g) /\ c.resender \subseteq acked.resender
      BY <3>1, <3>3, AnswersIdle, IdleOnwards
    <3>5. Passes(f, c, g, p)
      BY <3>1, <3>3, <3>4 DEF Passes, Records
    <3> QED
      BY <2>3, <3>5 DEF g
  <2>4. ASSUME Known(c, p.id), IsMessage(f, p), channel = p.on, channel \in Reliable,
               p.key \notin c.seen, CanAcknowledge(c)
        PROVE  Takes(e, c, Handle(e, acked, channel, p), q, p)
    <3>1. /\ Own(e, acked) /\ Link(e, acked, q) /\ Answers(c, acked)
          /\ acked.seen = c.seen \cup {p.key}
      BY <1>7, <2>4
    <3>2. Unread(f, acked, p)
      BY <1>2, <2>4, <3>1, UnseenIsUnread, UnreadStays DEF Answers
    <3>3. Arrives(f, acked, q, p)
      BY <2>4, <3>1, <3>2 DEF Arrives, Unread
    <3>4. Idle(c, acked) /\ c.resender \subseteq acked.resender
      BY <3>1, AnswersIdle
    <3>5. acked \in Connections /\ acked.phase = "Transfer"
      BY <1>12, <3>1, <3>4 DEF Own, Typed, Idle, Quiet
    <3> QED
      BY <2>4, <3>1, <3>3, <3>4, <3>5 DEF Takes
  <2>5. ASSUME Known(c, p.id), IsMessage(f, p), channel = p.on, channel \notin Reliable
        PROVE  Takes(e, c, Handle(e, c, channel, p), q, p)
    <3>1. Arrives(f, c, q, p)
      BY <2>5 DEF Arrives
    <3> QED
      BY <1>2, <1>10, <1>12, <2>5, <3>1 DEF Takes
  <2>6. Known(c, p.id) => (channel = Ack \/ (IsMessage(f, p) /\ channel = p.on))
    BY <1>8, <1>12
  <2>7. CASE ~Known(c, p.id)
    BY <1>1, <1>12, <2>1, <2>7
  <2>8. CASE Known(c, p.id) /\ channel \notin Reliable
    BY <1>1, <1>9, <1>12, <2>5, <2>6, <2>8
  <2>9. CASE Known(c, p.id) /\ channel \in Reliable /\ p.key \in c.seen
    BY <1>1, <1>12, <2>1, <2>9
  <2>10. CASE Known(c, p.id) /\ channel \in Reliable /\ p.key \notin c.seen /\ ~CanAcknowledge(c)
    BY <1>1, <1>12, <2>2, <2>10
  <2>11. CASE Known(c, p.id) /\ channel \in Reliable /\ p.key \notin c.seen /\ CanAcknowledge(c)
    BY <1>1, <1>12, <2>3, <2>4, <2>6, <2>11
  <2> QED
    BY <2>7, <2>8, <2>9, <2>10, <2>11
<1> QED
  BY <1>4, <1>11, <1>12 DEF c, d

-----------------------------------------------------------------------------
(* The order of messages *)

\* The channels that hand over everything in order.
InSequence(f) == Channels(f) \cap AppChannel \cap Ordered \cap Reliable

\* The messages of a channel are numbered in the order they are sent.
Numbered(e, c) ==
    \A channel \in InSequence(e) :
        LET next == c.orders[LocalId(e, channel)] IN
        /\ next <= c.count
        /\ \A p \in c.sent : p.on = channel =>
              /\ p.order < next
              /\ \A r \in c.sent : r.on = channel /\ r.msg < p.msg => r.order < p.order

\* What a channel has handed over are the packets with the first orders, and
\* its window goes on from there.
Sequenced(q, channel, inbox, o) ==
    /\ \A i \in DOMAIN inbox :
          \E p \in q.sent : p.on = channel /\ p.msg = inbox[i] /\ p.order = i - 1
    /\ o.present =>
          /\ o.window.start = Len(inbox)
          /\ \A d \in DOMAIN o.window.ahead : o.window.ahead[d].order = Len(inbox) + d

Sorted(f, c, q) ==
    \A channel \in InSequence(f) :
        Sequenced(q, channel, c.inbox[channel], c.orderers[LocalId(f, channel)])

OrderInvariant ==
    \A e \in Endpoint : Numbered(e, conn[e]) /\ Sorted(Peer(e), conn[e], conn[Peer(e)])

LEMMA NumberedSame ==
  ASSUME NEW e \in Endpoint, NEW c, NEW d, Numbered(e, c), Same(c, d)
  PROVE  Numbered(e, d)
<1>1. \A channel \in InSequence(e) : channel # Nameless
  BY Names DEF InSequence
<1>2. \A p \in d.sent : p \in c.sent \/ p.on = Nameless
  BY DEF Same
<1>3. d.orders = c.orders /\ d.count = c.count
  BY DEF Same
<1> QED
  BY ONLY <1>1, <1>2, <1>3, Numbered(e, c) DEF Numbered

LEMMA SortedGrows ==
  ASSUME NEW f, NEW c, NEW q, NEW r, Sorted(f, c, q), q.sent \subseteq r.sent
  PROVE  Sorted(f, c, r)
  BY DEF Sorted, Sequenced

LEMMA SortedQuiet ==
  ASSUME NEW f, NEW c, NEW d, NEW q, Sorted(f, c, q), Quiet(c, d)
  PROVE  Sorted(f, d, q)
  BY DEF Sorted, Quiet

LEMMA SortedUntouched ==
  ASSUME NEW f, NEW d, NEW q, Untouched(f, d)
  PROVE  Sorted(f, d, q)
<1> SUFFICES ASSUME NEW channel \in InSequence(f)
             PROVE  Sequenced(q, channel, d.inbox[channel], d.orderers[LocalId(f, channel)])
  BY DEF Sorted
<1>1. d.inbox[channel] = <<>> /\ d.orderers[LocalId(f, channel)] \in {NoOrderer, NewOrderer}
  BY DEF InSequence, Untouched
<1>2. /\ NoOrderer.present = FALSE /\ NewOrderer.window.start = 0
      /\ DOMAIN NewOrderer.window.ahead = {}
  BY EmptyIsWindow DEF NoOrderer, NewOrderer
<1> QED
  BY <1>1, <1>2 DEF Sequenced

\* The packets of a channel that is in sequence differ in their orders.
LEMMA OrdersDiffer ==
  ASSUME NEW e \in Endpoint, NEW c, Own(e, c), Numbered(e, c), NEW channel \in InSequence(e),
         NEW p \in c.sent, p.on = channel, NEW r \in c.sent, r.on = channel
  PROVE  /\ r.order < p.order <=> r.msg < p.msg
         /\ r.order = p.order => r = p
         /\ p.msg \in Nat /\ p.order \in Nat /\ p.order + 1 <= MaxMessages[e]
<1>1. c \in Connections /\ c.count \in Nat /\ c.count <= MaxMessages[e] /\ MaxMessages[e] \in Nat
  BY Sizes, ConnectionFields DEF Own, Typed
<1>2. p \in Packet /\ r \in Packet
  BY <1>1, ConnectionFields
<1>3. p.msg \in Nat /\ r.msg \in Nat /\ p.order \in Nat /\ r.order \in Nat
  BY <1>2 DEF Packet
<1>4. /\ r.msg < p.msg => r.order < p.order
      /\ p.msg < r.msg => p.order < r.order
  BY DEF Numbered
<1>5. p.msg = r.msg => p = r
  <2>1. IsMessage(e, p)
    <3>1. Sendable(e, c, p)
      BY DEF Own, Sent
    <3>2. channel # Nameless
      BY Names DEF InSequence
    <3>3. ~IsRegistration(e, p)
      BY <3>2, RegistrationFields DEF IsRegistration
    <3> QED
      BY <3>1, <3>2, <3>3 DEF Sendable, IsAck
  <2> QED
    BY <2>1 DEF IsMessage, Own, Unique
<1>6. p.order + 1 <= MaxMessages[e]
  <2> DEFINE next == c.orders[LocalId(e, channel)]
  <2>1. p.order < next /\ next <= c.count
    BY DEF Numbered
  <2>2. next \in Nat
    <3>1. LocalId(e, channel) \in Ids
      BY LocalIds, Sizes DEF InSequence
    <3>2. c.orders \in [Ids -> 0..(WireOrders - 1)]
      BY <1>1, ConnectionFields
    <3> QED
      BY <3>1, <3>2
  <2> HIDE DEF next
  <2> QED
    BY <1>1, <1>3, <2>1, <2>2
<1> QED
  BY <1>3, <1>4, <1>5, <1>6

\* A packet that is put where its order says belongs there, and what is handed
\* over goes on where the inbox ends.
LEMMA SequenceGoesOn ==
  ASSUME NEW inbox \in Seq(Nat), NEW w \in Windows, w.start = Len(inbox),
         \A d \in DOMAIN w.ahead : w.ahead[d].order = Len(inbox) + d,
         NEW p \in Packet, Len(inbox) <= p.order, p.order < OrderCount
  PROVE  LET F == Put(w, p.order, p)
             R == RunLength(F)
             more == inbox \o Messages(Run(F)) IN
         /\ Len(more) = Len(inbox) + R /\ R \in Nat
         /\ \A i \in DOMAIN more :
               \/ i \in DOMAIN inbox /\ more[i] = inbox[i]
               \/ \E x \in DOMAIN F.ahead :
                     more[i] = F.ahead[x].msg /\ F.ahead[x].order = i - 1
         /\ R > 0 => \E x \in DOMAIN F.ahead : F.ahead[x].order = Len(more) - 1
         /\ Drained(F).start = Len(more) % OrderCount
         /\ \A d \in DOMAIN Drained(F).ahead : Drained(F).ahead[d].order = Len(more) + d
<1> DEFINE F == Put(w, p.order, p)
           R == RunLength(F)
           n == Len(inbox)
           run == Run(F)
           more == inbox \o Messages(run)
<1>1. n \in Nat /\ w.start \in Nat /\ p.order \in Nat /\ OrderCount \in Nat
  BY WindowFields, OrderCountAssumption DEF Packet
<1>2. Distance(w, p.order) = p.order - n
  BY <1>1, DistanceAhead
<1>3. F \in Windows /\ F.start = n
  BY <1>1, PutFields
<1>4. /\ DOMAIN F.ahead = DOMAIN w.ahead \cup {Distance(w, p.order)}
      /\ F.ahead[Distance(w, p.order)] = p
      /\ \A x \in DOMAIN w.ahead : x # Distance(w, p.order) => F.ahead[x] = w.ahead[x]
  BY <1>1, PutAhead
<1> HIDE DEF F
<1>5. \A x \in DOMAIN F.ahead : x \in Nat /\ F.ahead[x].order = n + x
  <2>1. DOMAIN F.ahead \in SUBSET Nat
    BY <1>3, WindowFields
  <2>2. p.order = n + (p.order - n)
    BY <1>1
  <2> HIDE DEF n
  <2> QED
    BY <1>2, <1>4, <2>1, <2>2 DEF n
<1>6. /\ R \in Nat /\ run \in Seq(Packet) /\ Len(run) = R /\ DOMAIN run = 1..R
      /\ \A i \in 1..R : i - 1 \in DOMAIN F.ahead /\ run[i] = F.ahead[i - 1]
  BY <1>3, RunFields, RunLengthIs
<1>7. /\ Drained(F).start = (F.start + R) % OrderCount
      /\ \A d \in DOMAIN Drained(F).ahead :
            /\ d \in Nat /\ d + R \in DOMAIN F.ahead
            /\ Drained(F).ahead[d] = F.ahead[d + R]
  BY <1>3, DrainedFields
<1> HIDE DEF R, run
<1>8. \A i \in DOMAIN more :
         \/ i \in DOMAIN inbox /\ more[i] = inbox[i]
         \/ i - n \in DOMAIN run /\ more[i] = run[i - n].msg
  BY <1>6, InboxIs
<1>9. Messages(run) \in Seq(Nat) /\ Len(Messages(run)) = R
  <2>1. \A i \in DOMAIN run : run[i].msg \in Nat
    <3>1. \A i \in DOMAIN run : run[i] \in Packet
      BY <1>6
    <3> QED
      BY <3>1 DEF Packet
  <2>2. Messages(run) = [i \in 1..R |-> run[i].msg]
    BY <1>6 DEF Messages
  <2>3. \A i \in 1..R : run[i].msg \in Nat
    BY <1>6, <2>1
  <2> QED
    BY ONLY <1>6, <2>2, <2>3
<1>10. more \in Seq(Nat) /\ Len(more) = n + R /\ DOMAIN more = 1..(n + R)
  <2>1. \A s, t \in Seq(Nat) : s \o t \in Seq(Nat) /\ Len(s \o t) = Len(s) + Len(t)
    OBVIOUS
  <2>2. more \in Seq(Nat) /\ Len(more) = n + R
    BY <1>9, <2>1
  <2> HIDE DEF more
  <2> QED
    BY <2>2
<1> HIDE DEF more, n
<1>11. ASSUME NEW i \in DOMAIN more
       PROVE  \/ i \in DOMAIN inbox /\ more[i] = inbox[i]
              \/ \E x \in DOMAIN F.ahead : more[i] = F.ahead[x].msg /\ F.ahead[x].order = i - 1
  <2>1. CASE i - n \in DOMAIN run /\ more[i] = run[i - n].msg
    <3>1. i - n \in 1..R /\ i \in Nat
      BY <1>1, <1>6, <1>10, <2>1
    <3>2. (i - n) - 1 \in DOMAIN F.ahead /\ run[i - n] = F.ahead[(i - n) - 1]
      BY <1>6, <3>1
    <3>3. F.ahead[(i - n) - 1].order = i - 1
      BY <1>1, <1>5, <3>1, <3>2
    <3> QED
      BY <2>1, <3>2, <3>3
  <2> QED
    BY <1>8, <2>1
<1>12. R > 0 => \E x \in DOMAIN F.ahead : F.ahead[x].order = Len(more) - 1
  <2> SUFFICES ASSUME R > 0
               PROVE  \E x \in DOMAIN F.ahead : F.ahead[x].order = Len(more) - 1
    OBVIOUS
  <2>1. R \in 1..R
    BY <1>6
  <2>2. R - 1 \in DOMAIN F.ahead
    BY <1>6, <2>1
  <2>3. F.ahead[R - 1].order = n + (R - 1)
    BY <1>5, <2>2
  <2>4. n + (R - 1) = Len(more) - 1
    BY <1>1, <1>6, <1>10
  <2> QED
    BY <2>2, <2>3, <2>4
<1>13. Drained(F).start = Len(more) % OrderCount
  BY <1>3, <1>7, <1>10
<1>14. \A d \in DOMAIN Drained(F).ahead : Drained(F).ahead[d].order = Len(more) + d
  <2> SUFFICES ASSUME NEW d \in DOMAIN Drained(F).ahead
               PROVE  Drained(F).ahead[d].order = Len(more) + d
    OBVIOUS
  <2>1. d \in Nat /\ d + R \in DOMAIN F.ahead /\ Drained(F).ahead[d] = F.ahead[d + R]
    BY <1>7
  <2>2. F.ahead[d + R].order = n + (d + R)
    BY <1>5, <2>1
  <2> QED
    BY <1>1, <1>6, <1>10, <2>1, <2>2
<1> QED
  BY <1>6, <1>10, <1>11, <1>12, <1>13, <1>14 DEF F, R, run, more, n

\* A message that was not recorded is behind what its channel handed over.
LEMMA OrderIsNext ==
  ASSUME NEW f \in Endpoint, NEW c, NEW q, Own(f, q), Numbered(f, q), Sorted(f, c, q),
         NEW p \in q.sent, p.on \in InSequence(f), Fresh(f, c, p), c \in Connections
  PROVE  Len(c.inbox[p.on]) <= p.order
<1> DEFINE inbox == c.inbox[p.on]
<1>1. inbox \in Seq(Nat)
  BY ConnectionFields DEF InSequence
<1>2. p.order \in Nat
  BY OrdersDiffer
<1>3. ASSUME p.order < Len(inbox) PROVE FALSE
  <2>1. p.order + 1 \in DOMAIN inbox /\ (p.order + 1) - 1 = p.order
    BY <1>1, <1>2, <1>3
  <2>2. PICK r \in q.sent : r.on = p.on /\ r.msg = inbox[p.order + 1] /\ r.order = p.order
    BY <2>1 DEF Sorted, Sequenced
  <2>3. r = p
    BY <2>2, OrdersDiffer
  <2> QED
    BY <2>1, <2>2, <2>3 DEF Fresh
<1>4. Len(inbox) \in Nat
  BY <1>1
<1> QED
  BY <1>2, <1>3, <1>4

\* The channel of a message that is handed over stays in sequence.
LEMMA SequencedHandsOver ==
  ASSUME NEW e \in Endpoint, NEW c, NEW q, Own(e, c), Link(e, c, q), Own(Peer(e), q),
         NEW p, Arrives(Peer(e), c, q, p), Numbered(Peer(e), q), Sorted(Peer(e), c, q),
         p.on \in InSequence(Peer(e)), MaxMessages[Peer(e)] < WireOrders,
         c.orderers[p.id].present, c.orderers[p.id].window \in Windows,
         NEW d, HandsOver(c, d, p.id, p.on, Put(c.orderers[p.id].window, p.order, p))
  PROVE  Sequenced(q, p.on, d.inbox[p.on], d.orderers[p.id])
<1> DEFINE f == Peer(e)
           w == c.orderers[p.id].window
           F == Put(w, p.order, p)
           inbox == c.inbox[p.on]
           more == inbox \o Messages(Run(F))
<1>1. f \in Endpoint /\ c \in Connections /\ q \in Connections
  BY Peers DEF Own, Typed
<1>2. p \in q.sent /\ p \in Packet /\ p.on \in Reliable /\ p.id = LocalId(f, p.on) /\ Fresh(f, c, p)
  BY <1>1, ConnectionFields DEF Arrives, InSequence, IsMessage
<1>3. /\ inbox \in Seq(Nat) /\ Len(inbox) \in Nat
      /\ p.order \in Nat /\ MaxMessages[f] \in Nat /\ WireOrders \in Nat
      /\ OrderCount \in Nat \ {0} /\ WireOrders <= OrderCount
  <2>1. c.inbox \in [AppChannel -> Seq(Nat)]
    BY <1>1, ConnectionFields
  <2>2. inbox \in Seq(Nat)
    BY <2>1 DEF InSequence
  <2>3. Len(inbox) \in Nat
    BY <2>2
  <2>4. p.order \in Nat
    BY <1>2 DEF Packet
  <2>5. MaxMessages[f] \in Nat
    BY <1>1, Sizes
  <2>6. WireOrders \in Nat /\ OrderCount \in Nat \ {0} /\ WireOrders <= OrderCount
    BY ConnectionAssumption, OrderCountAssumption
  <2> QED
    BY ONLY <2>2, <2>3, <2>4, <2>5, <2>6
<1>4. Len(inbox) <= p.order
  BY <1>1, <1>2, OrderIsNext
<1>5. p.order < OrderCount
  <2>1. p.order + 1 <= MaxMessages[f]
    BY <1>1, <1>2, OrdersDiffer
  <2> QED
    BY <1>3, <2>1
<1>6. /\ w.start = Len(inbox)
      /\ \A x \in DOMAIN w.ahead : w.ahead[x].order = Len(inbox) + x
  BY <1>2 DEF Sorted, Sequenced
<1> HIDE DEF w, inbox
<1>7. /\ Len(more) = Len(inbox) + RunLength(F) /\ RunLength(F) \in Nat
      /\ \A i \in DOMAIN more :
            \/ i \in DOMAIN inbox /\ more[i] = inbox[i]
            \/ \E x \in DOMAIN F.ahead : more[i] = F.ahead[x].msg /\ F.ahead[x].order = i - 1
      /\ RunLength(F) > 0 => \E x \in DOMAIN F.ahead : F.ahead[x].order = Len(more) - 1
      /\ Drained(F).start = Len(more) % OrderCount
      /\ \A x \in DOMAIN Drained(F).ahead : Drained(F).ahead[x].order = Len(more) + x
  <2>1. w \in Windows
    BY DEF w
  <2> QED
    BY ONLY <1>2, <1>3, <1>4, <1>5, <1>6, <2>1, SequenceGoesOn
<1>8. /\ DOMAIN F.ahead = DOMAIN w.ahead \cup {Distance(w, p.order)}
      /\ F.ahead[Distance(w, p.order)] = p
      /\ \A x \in DOMAIN w.ahead : x # Distance(w, p.order) => F.ahead[x] = w.ahead[x]
  <2>1. w \in Windows
    BY DEF w
  <2> QED
    BY ONLY <1>2, <1>3, <2>1, PutAhead
<1> HIDE DEF F
<1>9. \A x \in DOMAIN F.ahead : F.ahead[x] \in q.sent /\ F.ahead[x].on = p.on
  <2>1. w.ahead = Ahead(f, c, p.on)
    BY <1>2 DEF w, Ahead
  <2>2. \A x \in DOMAIN w.ahead : w.ahead[x] \in q.sent /\ w.ahead[x].on = p.on
    BY <2>1, WaitingMessages DEF InSequence
  <2> QED
    BY <1>2, <1>8, <2>2
<1> HIDE DEF more
<1>10. \A i \in DOMAIN more : \E r \in q.sent : r.on = p.on /\ r.msg = more[i] /\ r.order = i - 1
  <2>1. \A i \in DOMAIN inbox :
           \E r \in q.sent : r.on = p.on /\ r.msg = inbox[i] /\ r.order = i - 1
    BY DEF Sorted, Sequenced, inbox
  <2>2. \A i \in DOMAIN more :
           \/ i \in DOMAIN inbox /\ more[i] = inbox[i]
           \/ \E x \in DOMAIN F.ahead : more[i] = F.ahead[x].msg /\ F.ahead[x].order = i - 1
    BY <1>7
  <2> QED
    BY ONLY <1>9, <2>1, <2>2
<1>11. Len(more) < OrderCount /\ Len(more) \in Nat
  <2>1. CASE RunLength(F) = 0
    <3>1. w.start \in 0..(OrderCount - 1)
      BY WindowFields DEF w
    <3> QED
      BY <1>3, <1>6, <1>7, <2>1, <3>1
  <2>2. CASE RunLength(F) > 0
    <3>1. PICK x \in DOMAIN F.ahead : F.ahead[x].order = Len(more) - 1
      BY <1>7, <2>2
    <3>2. F.ahead[x].order + 1 <= MaxMessages[f]
      BY <1>1, <1>9, OrdersDiffer
    <3> QED
      BY <1>3, <1>7, <3>1, <3>2
  <2> QED
    BY <1>7, <2>1, <2>2
<1>12. Len(more) % OrderCount = Len(more)
  BY <1>3, <1>11, ModSmall
<1>13. /\ d.inbox[p.on] = more /\ d.orderers[p.id].present /\ d.orderers[p.id].window = Drained(F)
  BY DEF HandsOver, more, inbox, F, w
<1> QED
  BY <1>7, <1>10, <1>12, <1>13 DEF Sequenced

\* A message that arrives leaves the channels of its sender in sequence.
LEMMA SortedMessage ==
  ASSUME NEW e \in Endpoint, NEW c, NEW q, Own(e, c), Link(e, c, q), Own(Peer(e), q),
         c.phase = "Transfer", NEW p, Arrives(Peer(e), c, q, p),
         Numbered(Peer(e), q), Sorted(Peer(e), c, q), MaxMessages[Peer(e)] < WireOrders
  PROVE  Sorted(Peer(e), Handle(e, c, p.on, p), q)
<1> DEFINE f == Peer(e)
           d == Handle(e, c, p.on, p)
           o == c.orderers[p.id]
<1>1. f \in Endpoint /\ p \in q.sent /\ IsMessage(f, p) /\ p.id = LocalId(f, p.on)
      /\ p.on \in Channels(f)
  BY Peers DEF Arrives, IsMessage
<1> SUFFICES ASSUME NEW channel \in InSequence(f)
             PROVE  Sequenced(q, channel, d.inbox[channel], d.orderers[LocalId(f, channel)])
  BY DEF Sorted
<1> DEFINE id == LocalId(f, channel)
<1>2. Sequenced(q, channel, c.inbox[channel], c.orderers[id])
  BY DEF Sorted
<1>3. id \in Ids /\ channel \in AppChannel /\ (channel # p.on => id # p.id)
  <2>1. channel \in Channels(f) /\ channel \in AppChannel
    BY DEF InSequence
  <2>2. id \in Ids
    BY ONLY <1>1, <2>1, LocalIds, Sizes DEF id
  <2>3. channel # p.on => id # p.id
    BY ONLY <1>1, <2>1, OtherWindow DEF id
  <2> QED
    BY ONLY <2>1, <2>2, <2>3
<1>4. CASE p.on \notin Ordered
  <2>1. d = HandleRun(c, p.on, <<p>>) /\ channel # p.on
    BY <1>4 DEF Handle, InSequence
  <2> HIDE DEF d
  <2>2. d.orderers = c.orderers /\ \A other \in AppChannel \ {p.on} : d.inbox[other] = c.inbox[other]
    BY <1>4, <2>1, UnorderedKeeps
  <2> QED
    BY <1>2, <1>3, <2>1, <2>2
<1>5. CASE p.on \in Ordered
  <2>1. d = HandleOrdered(e, c, p.on, p)
    BY <1>5 DEF Handle
  <2> HIDE DEF d
  <2>2. /\ o \in Orderer
        /\ \/ d = [c EXCEPT !.alive = FALSE]
           \/ Drops(c, d, p.id)
           \/ o.present /\ HandsOver(c, d, p.id, p.on, Put(o.window, p.order, p))
    BY <1>1, <1>5, <2>1, OrderedMessage
  <2>3. CASE d = [c EXCEPT !.alive = FALSE]
    <3>1. d.inbox = c.inbox /\ d.orderers = c.orderers
      BY <2>3 DEF Own, Typed, Connections
    <3> QED
      BY <1>2, <3>1
  <2>4. CASE Drops(c, d, p.id)
    <3>1. /\ d.inbox = c.inbox /\ ~d.orderers[p.id].present
          /\ id # p.id => d.orderers[id] = c.orderers[id]
      BY <1>3, <2>4, EmptyIsWindow DEF Drops
    <3>2. d.orderers[id] = c.orderers[id] \/ ~d.orderers[id].present
      BY <3>1
    <3>3. Sequenced(q, channel, d.inbox[channel], d.orderers[id])
      BY <1>2, <3>1, <3>2 DEF Sequenced
    <3> QED
      BY <3>3
  <2>5. CASE o.present /\ HandsOver(c, d, p.id, p.on, Put(o.window, p.order, p))
    <3>1. CASE channel = p.on
      <4>1. o.window \in Windows
        BY <2>2 DEF Orderer
      <4>2. Sequenced(q, p.on, d.inbox[p.on], d.orderers[p.id])
        BY <2>5, <3>1, <4>1, SequencedHandsOver
      <4> QED
        BY <1>1, <3>1, <4>2
    <3>2. CASE channel # p.on
      <4>1. d.inbox[channel] = c.inbox[channel] /\ d.orderers[id] = c.orderers[id]
        BY <1>3, <2>5, <3>2 DEF HandsOver
      <4> QED
        BY <1>2, <4>1
    <3> QED
      BY <3>1, <3>2
  <2> QED
    BY <2>2, <2>3, <2>4, <2>5
<1> QED
  BY <1>4, <1>5

-----------------------------------------------------------------------------
LEMMA NumberedInitialize ==
  ASSUME NEW e \in Endpoint
  PROVE  Numbered(e, Initialize(e))
<1> DEFINE d == Initialize(e)
<1>1. /\ \A id \in Ids \ {MgmtStage} : d.orders[id] = 0
      /\ d.count = 0 /\ d.sent = {Registration(e, i) : i \in 0..Count(e)}
  BY InitializeFields
<1> HIDE DEF d
<1>2. \A channel \in InSequence(e) : LocalId(e, channel) \in Ids \ {MgmtStage} /\ channel # Nameless
  <2>1. \A id \in 0..(Count(e) - 1) : id \in Ids \ {MgmtStage}
    BY Sizes
  <2>2. \A channel \in InSequence(e) : channel \in Channels(e) /\ channel # Nameless
    BY Names DEF InSequence
  <2> QED
    BY <2>1, <2>2, LocalIds
<1>3. \A p \in d.sent : p.on = Nameless
  BY <1>1, RegistrationFields
<1>4. \A channel \in InSequence(e) : d.orders[LocalId(e, channel)] <= d.count
  BY <1>1, <1>2
<1> QED
  BY <1>2, <1>3, <1>4 DEF Numbered, d

\* The next message on a channel has the next order.
LEMMA NumberedSend ==
  ASSUME NEW e \in Endpoint, NEW c, Own(e, c), Numbered(e, c), c.count < MaxMessages[e],
         MaxMessages[e] < WireOrders, NEW channel \in Channels(e) \cap AppChannel
  PROVE  Numbered(e, SendNumber(e, c, channel))
<1> DEFINE d == SendNumber(e, c, channel)
           id == LocalId(e, channel)
<1>1. c \in Connections /\ c.count \in Nat /\ c.orders \in [Ids -> 0..(WireOrders - 1)]
      /\ c.sent \in SUBSET Packet
  BY ConnectionFields DEF Own, Typed
<1>2. MaxMessages[e] \in Nat /\ WireOrders \in Nat \ {0}
  BY Sizes
<1>3. /\ d.count = c.count + 1
      /\ \A i \in Ids : d.orders[i] = IF channel \in Ordered /\ i = id
                                      THEN (c.orders[i] + 1) % WireOrders ELSE c.orders[i]
      /\ \/ d.sent = c.sent
         \/ \E p \in Packet : PutOut(e, channel, c, d, p)
  <2>1. c \in Connections
    BY <1>1
  <2> QED
    BY ONLY <2>1, e \in Endpoint, channel \in Channels(e) \cap AppChannel, SendFields
<1> HIDE DEF d
<1> SUFFICES ASSUME NEW other \in InSequence(e)
             PROVE  /\ d.orders[LocalId(e, other)] <= d.count
                    /\ \A p \in d.sent : p.on = other =>
                          /\ p.order < d.orders[LocalId(e, other)]
                          /\ \A r \in d.sent : r.on = other /\ r.msg < p.msg => r.order < p.order
  BY DEF Numbered, d
<1> DEFINE i == LocalId(e, other)
           next == c.orders[i]
<1>4. i \in Ids /\ next \in 0..(WireOrders - 1) /\ next \in Nat
  <2>1. i \in Ids
    BY LocalIds, Sizes DEF InSequence
  <2> QED
    BY <1>1, <1>2, <2>1
<1>5. /\ next <= c.count
      /\ \A p \in c.sent : p.on = other =>
            /\ p.order < next
            /\ \A r \in c.sent : r.on = other /\ r.msg < p.msg => r.order < p.order
  BY DEF Numbered
<1>6. \A p \in c.sent : p.order \in Nat /\ p.msg \in Nat /\ p.msg <= c.count
  BY <1>1 DEF Own, Sent, Packet
<1>7. CASE other = channel
  <2>1. next + 1 < WireOrders /\ next + 1 \in 0..(WireOrders - 1)
    BY <1>1, <1>2, <1>4, <1>5
  <2>2. (next + 1) % WireOrders = next + 1
    BY <1>2, <2>1, ModSmall
  <2>3. d.orders[i] = next + 1
    BY <1>3, <1>4, <1>7, <2>2 DEF InSequence
  <2> HIDE DEF i, next
  <2>4. next + 1 <= c.count + 1 /\ next < next + 1
    BY <1>1, <1>4, <1>5
  <2>5. \A n \in Nat : n < next => n < next + 1
    BY <1>4
  <2>6. CASE d.sent = c.sent
    BY <1>3, <1>5, <1>6, <2>3, <2>4, <2>5, <2>6 DEF i
  <2>7. CASE \E p \in Packet : PutOut(e, channel, c, d, p)
    <3>1. PICK p \in Packet : /\ p.msg = c.count + 1 /\ p.order = next
                              /\ d.sent = c.sent \cup {p}
      BY <1>7, <2>7 DEF PutOut, InSequence, next, i
    <3>2. ~(p.msg < p.msg) /\ \A r \in c.sent : ~(p.msg < r.msg)
      BY <1>1, <1>6, <3>1
    <3>3. ASSUME NEW s \in d.sent, s.on = other
          PROVE  /\ s.order < next + 1
                 /\ \A r \in d.sent : r.on = other /\ r.msg < s.msg => r.order < s.order
      <4>1. CASE s = p
        BY <1>5, <2>4, <3>1, <3>2, <4>1
      <4>2. CASE s \in c.sent
        BY <1>5, <1>6, <2>5, <3>1, <3>2, <3>3, <4>2
      <4> QED
        BY <3>1, <4>1, <4>2
    <3> QED
      BY <1>3, <2>3, <2>4, <3>3 DEF i
  <2> QED
    BY <1>3, <2>6, <2>7
<1>8. CASE other # channel
  <2>1. i # id
    BY <1>8, OtherWindow DEF InSequence
  <2>2. d.orders[i] = next
    BY <1>3, <1>4, <2>1
  <2>3. \A p \in d.sent : p.on = other => p \in c.sent
    <3>1. \A p : PutOut(e, channel, c, d, p) => p.on = channel /\ d.sent = c.sent \cup {p}
      BY DEF PutOut
    <3> QED
      BY <1>3, <1>8, <3>1
  <2> HIDE DEF i, next
  <2>4. next <= c.count + 1
    BY <1>1, <1>4, <1>5
  <2> QED
    BY <1>3, <1>5, <2>2, <2>3, <2>4 DEF i
<1> QED
  BY <1>7, <1>8

LEMMA OrderStep ==
  ASSUME OrderInvariant, conn \in [Endpoint -> Connections], NEW e \in Endpoint, NEW d,
         conn' = [conn EXCEPT ![e] = d], conn[e].sent \subseteq d.sent,
         Numbered(e, d), Sorted(Peer(e), d, conn[Peer(e)])
  PROVE  OrderInvariant'
<1> DEFINE f == Peer(e)
<1>1. f \in Endpoint /\ f # e /\ Peer(f) = e /\ Endpoint = {e, f}
  BY Peers
<1>2. conn'[e] = d /\ conn'[f] = conn[f]
  BY <1>1
<1>3. Numbered(f, conn[f]) /\ Sorted(e, conn[f], conn[e])
  BY <1>1 DEF OrderInvariant
<1>4. Sorted(e, conn[f], d)
  BY <1>3, SortedGrows
<1>5. \A g \in Endpoint : Numbered(g, conn'[g]) /\ Sorted(Peer(g), conn'[g], conn'[Peer(g)])
  BY <1>1, <1>2, <1>3, <1>4
<1> QED
  BY <1>5 DEF OrderInvariant

LEMMA OrderNext ==
  ASSUME ConnectionInvariant, OrderInvariant, [Next]_vars,
         \A e \in Endpoint : MaxMessages[e] < WireOrders
  PROVE  OrderInvariant'
<1>1. CASE UNCHANGED vars
  BY <1>1 DEF vars, OrderInvariant
<1>2. ASSUME NEW e \in Endpoint,
             \/ Connect(e)
             \/ \E p \in conn[Peer(e)].sent : Receive(e, p)
             \/ Update(e)
             \/ \E channel \in Channels(e) \cap AppChannel : Send(e, channel)
      PROVE  OrderInvariant'
  <2> DEFINE f == Peer(e)
             c == conn[e]
             q == conn[f]
  <2>1. /\ f \in Endpoint /\ Own(e, c) /\ Link(e, c, q) /\ Own(f, q)
        /\ Numbered(e, c) /\ Sorted(f, c, q) /\ Numbered(f, q)
        /\ conn \in [Endpoint -> Connections] /\ c \in Connections
    BY Peers DEF ConnectionInvariant, OrderInvariant
  <2>2. c.phase = "Absent" => c = Absent
    BY <2>1 DEF Own, Phases
  <2>3. /\ Own(e, Initialize(e)) /\ Link(e, Initialize(e), q) /\ Absent.sent = {}
        /\ Initialize(e).phase = "Registration"
    BY InitializeKeeps, InitializeFields DEF Absent
  <2>4. Numbered(e, Initialize(e)) /\ Sorted(f, Initialize(e), q)
    BY <2>3, NumberedInitialize, RegistrationUntouched, SortedUntouched
  <2>5. CASE Connect(e)
    <3> DEFINE d == Initialize(e)
    <3>1. c = Absent /\ conn' = [conn EXCEPT ![e] = d]
      BY <2>2, <2>5 DEF Connect, Becomes
    <3> HIDE DEF d
    <3> QED
      BY <2>1, <2>3, <2>4, <3>1, OrderStep DEF d
  <2>6. ASSUME NEW p \in q.sent, Receive(e, p)
        PROVE  OrderInvariant'
    <3> DEFINE b == IF c.phase = "Absent" THEN Initialize(e) ELSE c
               t == Speculate(b, p)
               d == HandleMessage(e, b, p)
    <3>1. conn' = [conn EXCEPT ![e] = d]
      BY <2>6 DEF Receive, Becomes
    <3>2. /\ Own(e, b) /\ Link(e, b, q) /\ b.phase # "Absent" /\ c.sent \subseteq b.sent
          /\ Numbered(e, b) /\ Sorted(f, b, q)
      <4>1. CASE c.phase = "Absent"
        <5>1. b = Initialize(e) /\ c.sent = {}
          BY <2>2, <2>3, <4>1
        <5> HIDE DEF b, c
        <5> QED
          BY <2>3, <2>4, <5>1
      <4>2. CASE c.phase # "Absent"
        BY <2>1, <4>2
      <4> QED
        BY <4>1, <4>2
    <3> HIDE DEF b
    <3>3. /\ Own(e, t) /\ Link(e, t, q) /\ t.phase # "Absent" /\ b \in Connections
          /\ \/ t = b
             \/ b.phase = "Registration" /\ b.received_last /\ t = Transfer(b)
      BY <2>1, <3>2, SpeculateKeeps DEF Own, Typed
    <3>4. Numbered(e, t) /\ Sorted(f, t, q) /\ b.sent \subseteq t.sent
      <4>1. CASE t = b
        BY <3>2, <4>1
      <4>2. CASE b.phase = "Registration" /\ b.received_last /\ t = Transfer(b)
        <5>1. Untouched(f, t)
          BY <3>2, <4>2, RegistrationUntouched
        <5>2. Same(b, t) /\ b.sent \subseteq t.sent
          BY <3>3, <4>2, TransferFields DEF Same
        <5> QED
          BY <3>2, <5>1, <5>2, SortedUntouched, NumberedSame
      <4> QED
        BY <3>3, <4>1, <4>2
    <3>5. \/ t.phase = "Registration" /\ Begins(f, t, d, p)
          \/ t.phase = "Transfer" /\ Passes(f, t, d, p)
          \/ t.phase = "Transfer" /\ Takes(e, t, d, q, p)
      BY <2>1, <3>2, HandleMessageIs
    <3> HIDE DEF t, d
    <3>6. CASE Begins(f, t, d, p)
      <4>1. Sorted(f, d, q) /\ Same(t, d)
        BY <3>6, SortedUntouched DEF Begins
      <4>2. Numbered(e, d) /\ c.sent \subseteq d.sent
        BY <3>2, <3>4, <4>1, NumberedSame DEF Same
      <4> QED
        BY <2>1, <3>1, <4>1, <4>2, OrderStep
    <3>7. CASE Passes(f, t, d, p)
      <4>1. Quiet(t, d) /\ Same(t, d)
        BY <3>7 DEF Passes, Idle
      <4>2. Sorted(f, d, q) /\ Numbered(e, d) /\ c.sent \subseteq d.sent
        BY <3>2, <3>4, <4>1, SortedQuiet, NumberedSame DEF Same
      <4> QED
        BY <2>1, <3>1, <4>2, OrderStep
    <3>8. CASE t.phase = "Transfer" /\ Takes(e, t, d, q, p)
      <4>1. PICK a \in Connections :
               /\ Quiet(t, a) /\ Same(t, a) /\ Own(e, a) /\ Link(e, a, q) /\ a.phase = "Transfer"
               /\ Arrives(f, a, q, p) /\ d = Handle(e, a, p.on, p)
        BY <3>8 DEF Takes, Idle
      <4>2. Numbered(e, a) /\ Sorted(f, a, q)
        BY <3>4, <4>1, SortedQuiet, NumberedSame
      <4>3. d.sent = a.sent /\ d.orders = a.orders /\ d.count = a.count
        BY <2>1, <4>1, MessageKeeps
      <4>4. Same(a, d)
        BY <4>3 DEF Same
      <4>5. Numbered(e, d) /\ c.sent \subseteq d.sent
        BY <3>2, <3>4, <4>1, <4>2, <4>4, NumberedSame DEF Same
      <4>6. Sorted(f, d, q)
        BY <2>1, <4>1, <4>2, SortedMessage
      <4> QED
        BY <2>1, <3>1, <4>5, <4>6, OrderStep
    <3> QED
      BY <3>5, <3>6, <3>7, <3>8
  <2>7. CASE Update(e)
    <3> DEFINE d == Flush(e, c)
    <3>1. c.phase # "Absent" /\ conn' = [conn EXCEPT ![e] = d]
      BY <2>7 DEF Update, Becomes
    <3>2. Answers(c, d)
      BY <2>1, <3>1, FlushKeeps
    <3> HIDE DEF d
    <3>3. Quiet(c, d) /\ Same(c, d) /\ c.sent \subseteq d.sent
      BY <3>2, AnswersSame DEF Answers
    <3>4. Sorted(f, d, q) /\ Numbered(e, d)
      BY <2>1, <3>3, SortedQuiet, NumberedSame
    <3> QED
      BY <2>1, <3>1, <3>3, <3>4, OrderStep
  <2>8. ASSUME NEW channel \in Channels(e) \cap AppChannel, Send(e, channel)
        PROVE  OrderInvariant'
    <3> DEFINE d == SendNumber(e, c, channel)
    <3>1. c.phase = "Transfer" /\ c.count < MaxMessages[e] /\ conn' = [conn EXCEPT ![e] = d]
      BY <2>8 DEF Send, Becomes, SendNumber
    <3>2. Numbered(e, d)
      BY <2>1, <3>1, NumberedSend
    <3>3. Quiet(c, d) /\ c.sent \subseteq d.sent
      <4>1. Quiet(c, d)
        BY ONLY <2>1, e \in Endpoint, channel \in Channels(e) \cap AppChannel, SendFields
      <4>2. Grows(c, d)
        BY <2>1, <3>1, SendKeeps
      <4> QED
        BY <4>1, <4>2 DEF Grows
    <3> HIDE DEF d
    <3>4. Sorted(f, d, q)
      BY <2>1, <3>3, SortedQuiet
    <3> QED
      BY <2>1, <3>1, <3>2, <3>3, <3>4, OrderStep
  <2> QED
    BY <1>2, <2>5, <2>6, <2>7, <2>8
<1> QED
  BY <1>1, <1>2 DEF Next

LEMMA NumberedNothing ==
  ASSUME NEW e \in Endpoint, NEW c, c.count = 0, \A p \in c.sent : p.on = Nameless,
         \A id \in Ids \ {MgmtStage} : c.orders[id] = 0
  PROVE  Numbered(e, c)
<1> SUFFICES ASSUME NEW channel \in InSequence(e)
             PROVE  c.orders[LocalId(e, channel)] = 0 /\ channel # Nameless
  BY DEF Numbered
<1>1. channel \in Channels(e) /\ channel # Nameless
  BY Names DEF InSequence
<1>2. \A id \in 0..(Count(e) - 1) : id \in Ids \ {MgmtStage}
  BY Sizes
<1>3. LocalId(e, channel) \in Ids \ {MgmtStage}
  BY <1>1, <1>2, LocalIds
<1> QED
  BY <1>1, <1>3

LEMMA SettledUntouched ==
  ASSUME NEW e \in Endpoint
  PROVE  /\ Untouched(Peer(e), Settled(e)) /\ Numbered(e, Settled(e))
         /\ \A p \in Settled(e).sent : p.on = Nameless
<1> DEFINE d == Settled(e)
           f == Peer(e)
<1>1. /\ d.inbox = Absent.inbox /\ d.count = 0 /\ d.phase = "Transfer"
      /\ \A p \in d.sent : p.on = Nameless
      /\ \A id \in Ids \ {MgmtStage} :
            /\ d.orders[id] = 0
            /\ d.orderers[id] = IF id < Count(f) /\ Registry[f][id + 1] \in Ordered
                                THEN NewOrderer ELSE NoOrderer
  <2> DEFINE last == [Blank EXCEPT !.id = AckStage, !.key = Count(e) + 2,
                                   !.acked = 1..(Count(f) + 1)]
  <2>1. /\ d.phase = "Transfer" /\ d.count = 0 /\ d.inbox = Absent.inbox
        /\ IsAck(AckStage, last)
        /\ d.sent = {Registration(e, i) : i \in 0..Count(e)} \cup {last}
        /\ \A id \in Ids \ {MgmtStage} : d.orders[id] = 0
        /\ \A id \in Ids \ {MgmtStage} :
              d.orderers[id] = IF id < Count(f) /\ Registry[f][id + 1] \in Ordered
                               THEN NewOrderer ELSE NoOrderer
    BY SettledFields
  <2> HIDE DEF d, last
  <2>2. \A p \in d.sent : p.on = Nameless
    BY <2>1, RegistrationFields DEF IsAck
  <2> QED
    BY <2>1, <2>2
<1> HIDE DEF d
<1>2. Numbered(e, d)
  BY <1>1, NumberedNothing
<1>3. \A channel \in AppChannel : d.inbox[channel] = <<>>
  BY <1>1, AbsentFields
<1>4. \A channel \in Channels(f) :
         /\ LocalId(f, channel) \in 0..(Count(f) - 1)
         /\ Registry[f][LocalId(f, channel) + 1] = channel
  BY Peers, LocalIds
<1>5. \A id \in 0..(Count(f) - 1) : id \in Ids \ {MgmtStage} /\ id < Count(f)
  BY Peers, Sizes
<1>6. Untouched(f, d)
  BY <1>1, <1>3, <1>4, <1>5 DEF Untouched
<1> QED
  BY <1>1, <1>2, <1>6 DEF d

LEMMA OrderInit ==
  ASSUME \/ conn = [e \in Endpoint |-> Absent]
         \/ conn = [e \in Endpoint |-> Settled(e)]
  PROVE  OrderInvariant
<1>1. ASSUME NEW e \in Endpoint, NEW q
      PROVE  Numbered(e, Absent) /\ Sorted(Peer(e), Absent, q)
  <2>1. \A id \in Ids : Absent.orders[id] = 0
    BY AbsentFields
  <2>2. Numbered(e, Absent)
    BY <2>1, AbsentFields, NumberedNothing
  <2>3. Untouched(Peer(e), Absent)
    <3>1. \A channel \in AppChannel : Absent.inbox[channel] = <<>>
      BY AbsentFields
    <3>2. \A channel \in Channels(Peer(e)) : LocalId(Peer(e), channel) \in Ids
      BY Peers, LocalIds, Sizes
    <3> QED
      BY <3>1, <3>2, AbsentFields DEF Untouched
  <2> QED
    BY <2>2, <2>3, SortedUntouched
<1>2. ASSUME NEW e \in Endpoint, NEW q
      PROVE  Numbered(e, Settled(e)) /\ Sorted(Peer(e), Settled(e), q)
  BY SettledUntouched, SortedUntouched
<1>3. \A e \in Endpoint : \/ conn[e] = Absent
                          \/ conn[e] = Settled(e)
  OBVIOUS
<1> QED
  BY <1>1, <1>2, <1>3 DEF OrderInvariant

\* The orders of what was sent before number i - 1 are 0 to i - 2.
LEMMA HandedOverInOrder ==
  ASSUME NEW e \in Endpoint, NEW c, NEW q, Own(e, c), Link(e, c, q), Own(Peer(e), q),
         Numbered(Peer(e), q), Sorted(Peer(e), c, q),
         NEW channel \in AppChannel \cap Ordered \cap Reliable,
         NEW i \in DOMAIN c.inbox[channel]
  PROVE  LET sent == {p \in q.sent : p.on = channel} IN
         \E p \in sent : /\ p.msg = c.inbox[channel][i]
                         /\ Cardinality({r \in sent : r.msg < p.msg}) = i - 1
<1> DEFINE f == Peer(e)
           inbox == c.inbox[channel]
           sent == {p \in q.sent : p.on = channel}
<1>1. f \in Endpoint /\ c \in Connections /\ inbox \in Seq(Nat)
  BY Peers, ConnectionFields DEF Own, Typed
<1>2. channel \in InSequence(f)
  <2>1. PICK p \in q.sent : p.on = channel
    BY DEF Link, Delivery, Taken
  <2>2. channel # Nameless
    BY Names DEF AppChannel, Channel
  <2>3. IsMessage(f, p)
    BY <1>1, <2>1, <2>2, RegistrationFields DEF Own, Sent, Sendable, IsRegistration, IsAck
  <2> QED
    BY <2>1, <2>3 DEF IsMessage, InSequence
<1>3. \A j \in DOMAIN inbox : \E p \in sent : p.msg = inbox[j] /\ p.order = j - 1
  BY <1>2 DEF Sorted, Sequenced
<1>4. \A p, r \in sent : /\ r.order < p.order <=> r.msg < p.msg
                         /\ r.order = p.order => r = p
                         /\ p.order \in Nat
  BY <1>1, <1>2, OrdersDiffer
<1>5. PICK p \in sent : p.msg = inbox[i] /\ p.order = i - 1
  BY <1>3
<1> DEFINE before == {r \in sent : r.msg < p.msg}
<1>6. i \in Nat /\ DOMAIN inbox = 1..Len(inbox) /\ Len(inbox) \in Nat /\ i <= Len(inbox) /\ i >= 1
  BY <1>1
<1>7. Cardinality(before) = i - 1
  <2> DEFINE At(k) == CHOOSE r \in sent : r.order = k - 1
             at == [k \in 1..(i - 1) |-> At(k)]
  <2> HIDE DEF sent, inbox
  <2>1. ASSUME NEW k \in 1..(i - 1) PROVE At(k) \in sent /\ At(k).order = k - 1
    <3>1. k \in DOMAIN inbox
      BY <1>6
    <3> QED
      BY <1>3, <3>1
  <2>2. \A r \in before : r.order \in Nat /\ r.order + 1 \in 1..(i - 1) /\ (r.order + 1) - 1 = r.order
    BY <1>4, <1>5, <1>6
  <2>3. \A k \in 1..(i - 1) : At(k) \in before
    <3>1. \A k \in 1..(i - 1) : k - 1 < i - 1
      BY <1>6
    <3> QED
      BY <1>4, <1>5, <2>1, <3>1
  <2> HIDE DEF At
  <2>4. at \in [1..(i - 1) -> before]
    BY <2>3
  <2>5. at \in Injection(1..(i - 1), before)
    <3>1. ASSUME NEW j \in 1..(i - 1), NEW k \in 1..(i - 1), at[j] = at[k] PROVE j = k
      <4>1. j - 1 = k - 1
        BY <2>1, <3>1
      <4> QED
        BY <1>6, <4>1
    <3> QED
      BY <2>4, <3>1 DEF Injection, IsInjective
  <2>6. at \in Surjection(1..(i - 1), before)
    <3>1. ASSUME NEW r \in before PROVE \E k \in 1..(i - 1) : at[k] = r
      <4>1. r.order + 1 \in 1..(i - 1) /\ (r.order + 1) - 1 = r.order
        BY <2>2
      <4>2. At(r.order + 1) \in sent /\ At(r.order + 1).order = r.order
        BY <2>1, <4>1
      <4>3. At(r.order + 1) = r
        BY <1>4, <4>2
      <4> QED
        BY <4>1, <4>3
    <3> QED
      BY <2>4, <3>1 DEF Surjection
  <2>7. ExistsBijection(1..(i - 1), before)
    BY <2>5, <2>6 DEF ExistsBijection, Bijection
  <2>8. i - 1 \in Nat
    BY <1>6
  <2> QED
    BY ONLY <2>7, <2>8, FS_CountingElements
<1> QED
  BY <1>5, <1>7

\* Orders are given out one by one, and a channel takes them up one by one,
\* as long as a side sends fewer messages than there are orders: after 2^32 a
\* sender begins again (send_packet), and a receiver does not.
THEOREM OrderCorrect ==
  ASSUME \A e \in Endpoint : MaxMessages[e] < WireOrders
  PROVE  Spec \/ SettledSpec => []OrderInvariant
<1>1. Init => OrderInvariant
  BY OrderInit DEF Init
<1>2. conn = [e \in Endpoint |-> Settled(e)] => OrderInvariant
  BY OrderInit
<1>3. ConnectionInvariant /\ OrderInvariant /\ [Next]_vars => OrderInvariant'
  BY OrderNext
<1> QED
  BY <1>1, <1>2, <1>3, ConnectionCorrect, PTL DEF Spec, SettledSpec

\* What an ordered and reliable channel hands over is what was sent on it, in
\* order and without a gap (push and next in ordering.rs, handle_message).
THEOREM MessagesInOrder ==
  ASSUME \A e \in Endpoint : MaxMessages[e] < WireOrders
  PROVE  Spec \/ SettledSpec => []InOrder
<1>1. ConnectionInvariant /\ OrderInvariant => InOrder
  <2> SUFFICES ASSUME ConnectionInvariant, OrderInvariant, NEW e \in Endpoint,
                      NEW channel \in AppChannel \cap Ordered \cap Reliable,
                      NEW i \in DOMAIN conn[e].inbox[channel]
               PROVE  LET sent == {p \in conn[Peer(e)].sent : p.on = channel} IN
                      \E p \in sent : /\ p.msg = conn[e].inbox[channel][i]
                                      /\ Cardinality({r \in sent : r.msg < p.msg}) = i - 1
    BY DEF InOrder
  <2>1. Own(e, conn[e]) /\ Link(e, conn[e], conn[Peer(e)]) /\ Own(Peer(e), conn[Peer(e)])
    BY Peers DEF ConnectionInvariant
  <2>2. Numbered(Peer(e), conn[Peer(e)]) /\ Sorted(Peer(e), conn[e], conn[Peer(e)])
    BY Peers DEF OrderInvariant
  <2> QED
    BY <2>1, <2>2, HandedOverInOrder
<1> QED
  BY <1>1, ConnectionCorrect, OrderCorrect, PTL

-----------------------------------------------------------------------------
(* The event loop goes on *)

\* The applications agree on their channels, and none that is ordered lets
\* packets get lost.
Matching ==
    /\ \A e \in Endpoint : Channels(Peer(e)) \subseteq Channels(e)
    /\ AppChannel \cap Ordered \subseteq Reliable

\* A sender is never further ahead of its receiver than the window reaches.
Room(f, c, q) ==
    \A channel \in InSequence(f) :
        q.orders[LocalId(f, channel)] <= Len(c.inbox[channel]) + WindowSize[channel]

RoomAhead == \A e \in Endpoint : Room(Peer(e), conn[e], conn[Peer(e)])

\* No orderer was dropped.
Live(f, c) ==
    /\ c.alive = TRUE
    /\ c.phase = "Transfer" =>
          \A channel \in InSequence(f) : c.orderers[LocalId(f, channel)].present

LiveInvariant == \A e \in Endpoint : Live(Peer(e), conn[e])

LEMMA LiveQuiet ==
  ASSUME NEW f, NEW c, NEW d, Live(f, c), Quiet(c, d)
  PROVE  Live(f, d)
  BY DEF Live, Quiet

LEMMA LiveUntouched ==
  ASSUME NEW f, NEW d, Untouched(f, d), d.alive = TRUE
  PROVE  Live(f, d)
<1>1. NewOrderer.present
  BY DEF NewOrderer
<1> QED
  BY <1>1 DEF Live, Untouched, InSequence

\* A message on an ordered channel finds an orderer that takes it.
LEMMA MessageAccepted ==
  ASSUME NEW e \in Endpoint, NEW c, NEW q, Own(e, c), Link(e, c, q), Own(Peer(e), q),
         c.phase = "Transfer", NEW p, Arrives(Peer(e), c, q, p),
         Numbered(Peer(e), q), Sorted(Peer(e), c, q), MaxMessages[Peer(e)] < WireOrders,
         Matching, Room(Peer(e), c, q), Live(Peer(e), c),
         p.on \in Ordered
  PROVE  LET d == Handle(e, c, p.on, p)
             o == c.orderers[p.id] IN
         /\ HandsOver(c, d, p.id, p.on, Put(o.window, p.order, p))
         /\ o.present /\ o.window \in Windows
         /\ Distance(o.window, p.order) = p.order - Len(c.inbox[p.on])
<1> DEFINE f == Peer(e)
           d == Handle(e, c, p.on, p)
           o == c.orderers[p.id]
           n == Len(c.inbox[p.on])
<1>1. f \in Endpoint /\ p \in q.sent /\ IsMessage(f, p) /\ p.id = LocalId(f, p.on)
      /\ p.on \in Channels(f) /\ c \in Connections /\ q \in Connections
  BY Peers DEF Arrives, IsMessage, Own, Typed
<1>2. d = HandleOrdered(e, c, p.on, p)
  BY DEF Handle
<1> HIDE DEF d
<1>3. p.on \in InSequence(f) /\ p.on \in Reliable
  BY <1>1 DEF InSequence, Matching, IsMessage
<1>4. /\ o \in Orderer /\ p \in Packet
      /\ \/ ~o.present
         \/ ~Accepts(o.window, p.order, WindowSize[p.on])
         \/ HandsOver(c, d, p.id, p.on, Put(o.window, p.order, p))
  BY <1>1, <1>2, OrderedMessage
<1>5. o.present /\ o.window \in Windows
  BY <1>1, <1>3, <1>4 DEF Live, Orderer
<1>6. o.window.start = n
  BY <1>1, <1>3, <1>5 DEF Sorted, Sequenced
<1>7. n \in Nat
  <2>1. c.inbox[p.on] \in Seq(Nat)
    BY <1>1, <1>3, ConnectionFields DEF InSequence
  <2> QED
    BY <2>1
<1>8. p.order \in Nat /\ n <= p.order
  BY <1>1, <1>3, <1>4, OrderIsNext DEF Arrives, Packet
<1>9. p.order < OrderCount
  <2>1. p.order + 1 <= MaxMessages[f]
    BY <1>1, <1>3, OrdersDiffer
  <2>2. MaxMessages[f] \in Nat /\ WireOrders \in Nat /\ OrderCount \in Nat /\ WireOrders <= OrderCount
    BY <1>1, Sizes, ConnectionAssumption, OrderCountAssumption
  <2> QED
    BY <1>8, <2>1, <2>2
<1>10. Distance(o.window, p.order) = p.order - n
  BY <1>5, <1>6, <1>8, <1>9, DistanceAhead
<1>11. Accepts(o.window, p.order, WindowSize[p.on])
  <2>1. p.order < q.orders[p.id] /\ q.orders[p.id] <= n + WindowSize[p.on]
    BY <1>1, <1>3 DEF Numbered, Room
  <2>2. q.orders[p.id] \in Nat /\ WindowSize[p.on] \in Nat
    <3>1. q.orders[p.id] \in 0..(WireOrders - 1) /\ WireOrders \in Nat
      BY <1>1, <1>4, ConnectionFields, ConnectionAssumption DEF Packet
    <3> QED
      BY <3>1, ConnectionAssumption
  <2> HIDE DEF n
  <2> QED
    BY <1>7, <1>8, <1>10, <2>1, <2>2 DEF Accepts
<1> QED
  BY <1>4, <1>5, <1>10, <1>11 DEF d

LEMMA LiveMessage ==
  ASSUME NEW e \in Endpoint, NEW c, NEW q, Own(e, c), Link(e, c, q), Own(Peer(e), q),
         c.phase = "Transfer", NEW p, Arrives(Peer(e), c, q, p),
         Numbered(Peer(e), q), Sorted(Peer(e), c, q), MaxMessages[Peer(e)] < WireOrders,
         Matching, Room(Peer(e), c, q), Live(Peer(e), c)
  PROVE  Live(Peer(e), Handle(e, c, p.on, p))
<1> DEFINE f == Peer(e)
           d == Handle(e, c, p.on, p)
<1>1. f \in Endpoint /\ p \in q.sent /\ IsMessage(f, p) /\ p.id = LocalId(f, p.on)
      /\ p.on \in Channels(f) /\ c \in Connections /\ q \in Connections
  BY Peers DEF Arrives, IsMessage, Own, Typed
<1>2. CASE p.on \notin Ordered
  <2>1. d = HandleRun(c, p.on, <<p>>)
    BY <1>2 DEF Handle
  <2> HIDE DEF d
  <2>2. d.alive = c.alive /\ d.orderers = c.orderers
    BY <1>2, <2>1, UnorderedKeeps
  <2> QED
    BY <2>2 DEF Live, d
<1>3. CASE p.on \in Ordered
  <2>1. \A w : HandsOver(c, d, p.id, p.on, w) => Live(f, d)
    <3>1. \A channel \in InSequence(f) : LocalId(f, channel) \in Ids
      BY <1>1, LocalIds, Sizes DEF InSequence
    <3> QED
      BY <3>1 DEF HandsOver, Reads, Live
  <2> QED
    BY <1>3, <2>1, MessageAccepted
<1> QED
  BY <1>2, <1>3

LEMMA LiveStep ==
  ASSUME LiveInvariant, conn \in [Endpoint -> Connections], NEW e \in Endpoint, NEW d,
         conn' = [conn EXCEPT ![e] = d], Live(Peer(e), d)
  PROVE  LiveInvariant'
<1>1. \A f \in Endpoint : conn'[f] = IF f = e THEN d ELSE conn[f]
  OBVIOUS
<1>2. \A f \in Endpoint : Live(Peer(f), conn'[f])
  BY <1>1 DEF LiveInvariant
<1> QED
  BY <1>2 DEF LiveInvariant

LEMMA LiveNext ==
  ASSUME ConnectionInvariant, OrderInvariant, RoomAhead, LiveInvariant, [Next]_vars,
         Matching, \A e \in Endpoint : MaxMessages[e] < WireOrders
  PROVE  LiveInvariant'
<1>1. CASE UNCHANGED vars
  BY <1>1 DEF vars, LiveInvariant
<1>2. ASSUME NEW e \in Endpoint,
             \/ Connect(e)
             \/ \E p \in conn[Peer(e)].sent : Receive(e, p)
             \/ Update(e)
             \/ \E channel \in Channels(e) \cap AppChannel : Send(e, channel)
      PROVE  LiveInvariant'
  <2> DEFINE f == Peer(e)
             c == conn[e]
             q == conn[f]
  <2>1. /\ f \in Endpoint /\ Peer(f) = e /\ Own(e, c) /\ Link(e, c, q) /\ Own(f, q)
        /\ Numbered(f, q) /\ Sorted(f, c, q)
        /\ conn \in [Endpoint -> Connections] /\ c \in Connections
        /\ Room(f, c, q) /\ Live(f, c) /\ Channels(f) \subseteq Channels(e)
    BY Peers DEF ConnectionInvariant, OrderInvariant, RoomAhead, LiveInvariant, Matching
  <2>2. c.phase = "Absent" => c = Absent
    BY <2>1 DEF Own, Phases
  <2>3. /\ Own(e, Initialize(e)) /\ Link(e, Initialize(e), q)
        /\ Initialize(e).phase = "Registration" /\ Initialize(e).alive = TRUE
        /\ Initialize(e).inbox = Absent.inbox
    BY InitializeKeeps, InitializeFields
  <2>4. Live(f, Initialize(e))
    BY <2>3 DEF Live
  <2>5. CASE Connect(e)
    <3> DEFINE d == Initialize(e)
    <3>1. conn' = [conn EXCEPT ![e] = d]
      BY <2>5 DEF Connect, Becomes
    <3> HIDE DEF d
    <3> QED
      BY <2>1, <2>4, <3>1, LiveStep DEF d
  <2>6. ASSUME NEW p \in q.sent, Receive(e, p)
        PROVE  LiveInvariant'
    <3> DEFINE b == IF c.phase = "Absent" THEN Initialize(e) ELSE c
               t == Speculate(b, p)
               d == HandleMessage(e, b, p)
    <3>1. conn' = [conn EXCEPT ![e] = d]
      BY <2>6 DEF Receive, Becomes
    <3>2. /\ Own(e, b) /\ Link(e, b, q) /\ b.phase # "Absent"
          /\ Live(f, b) /\ b.inbox = c.inbox
          /\ b.phase = "Transfer" => Sorted(f, b, q)
      <4>1. CASE c.phase = "Absent"
        <5>1. b = Initialize(e) /\ c = Absent
          BY <2>2, <4>1
        <5> HIDE DEF b, c
        <5> QED
          BY <2>3, <2>4, <5>1
      <4>2. CASE c.phase # "Absent"
        BY <2>1, <4>2
      <4> QED
        BY <4>1, <4>2
    <3> HIDE DEF b
    <3>3. /\ Own(e, t) /\ Link(e, t, q) /\ t.phase # "Absent" /\ b \in Connections
          /\ \/ t = b
             \/ b.phase = "Registration" /\ b.received_last /\ t = Transfer(b)
      BY <2>1, <3>2, SpeculateKeeps DEF Own, Typed
    <3>4. /\ Live(f, t) /\ t.inbox = c.inbox
          /\ t.phase = "Transfer" => Sorted(f, t, q)
      <4>1. CASE t = b
        BY <3>2, <4>1
      <4>2. CASE b.phase = "Registration" /\ b.received_last /\ t = Transfer(b)
        <5>1. Untouched(f, t)
          BY <3>2, <4>2, RegistrationUntouched
        <5>2. t.alive = b.alive /\ t.inbox = b.inbox
          BY <3>3, <4>2, TransferFields
        <5>3. t.alive = TRUE
          BY <3>2, <5>2 DEF Live
        <5> QED
          BY <3>2, <5>1, <5>2, <5>3, LiveUntouched, SortedUntouched
      <4> QED
        BY <3>3, <4>1, <4>2
    <3>5. \/ t.phase = "Registration" /\ Begins(f, t, d, p)
          \/ t.phase = "Transfer" /\ Passes(f, t, d, p)
          \/ t.phase = "Transfer" /\ Takes(e, t, d, q, p)
      BY <2>1, <3>2, HandleMessageIs
    <3> HIDE DEF t, d
    <3>6. CASE Begins(f, t, d, p)
      <4>1. Untouched(f, d) /\ d.alive = t.alive
        BY <2>1, <3>6 DEF Begins
      <4>2. Live(f, d)
        BY <3>4, <4>1, LiveUntouched DEF Live
      <4> QED
        BY <2>1, <3>1, <4>2, LiveStep
    <3>7. CASE Passes(f, t, d, p)
      <4>1. Live(f, d)
        BY <3>4, <3>7, LiveQuiet DEF Passes, Idle
      <4> QED
        BY <2>1, <3>1, <4>1, LiveStep
    <3>8. CASE t.phase = "Transfer" /\ Takes(e, t, d, q, p)
      <4>1. PICK a \in Connections :
               /\ Quiet(t, a) /\ Own(e, a) /\ Link(e, a, q) /\ a.phase = "Transfer"
               /\ Arrives(f, a, q, p) /\ d = Handle(e, a, p.on, p)
        BY <3>8 DEF Takes, Idle
      <4>2. Sorted(f, a, q) /\ Live(f, a)
        BY <3>4, <3>8, <4>1, SortedQuiet, LiveQuiet
      <4>3. a.inbox = c.inbox
        BY <3>4, <4>1 DEF Quiet
      <4>4. Room(f, a, q)
        BY <2>1, <4>3 DEF Room
      <4>5. Live(f, d)
        BY <2>1, <4>1, <4>2, <4>4, LiveMessage
      <4> QED
        BY <2>1, <3>1, <4>5, LiveStep
    <3> QED
      BY <3>5, <3>6, <3>7, <3>8
  <2>7. CASE Update(e)
    <3> DEFINE d == Flush(e, c)
    <3>1. c.phase # "Absent" /\ conn' = [conn EXCEPT ![e] = d]
      BY <2>7 DEF Update, Becomes
    <3>2. Answers(c, d)
      BY <2>1, <3>1, FlushKeeps
    <3> HIDE DEF d
    <3>3. Live(f, d)
      BY <2>1, <3>2, LiveQuiet DEF Answers
    <3> QED
      BY <2>1, <3>1, <3>3, LiveStep
  <2>8. ASSUME NEW channel \in Channels(e) \cap AppChannel, Send(e, channel)
        PROVE  LiveInvariant'
    <3> DEFINE d == SendNumber(e, c, channel)
    <3>1. conn' = [conn EXCEPT ![e] = d]
      BY <2>8 DEF Send, Becomes, SendNumber
    <3>2. Quiet(c, d)
      BY ONLY <2>1, e \in Endpoint, channel \in Channels(e) \cap AppChannel, SendFields
    <3> HIDE DEF d
    <3>3. Live(f, d)
      BY <2>1, <3>2, LiveQuiet
    <3> QED
      BY <2>1, <3>1, <3>3, LiveStep
  <2> QED
    BY <1>2, <2>5, <2>6, <2>7, <2>8
<1> QED
  BY <1>1, <1>2 DEF Next

LEMMA LiveInit ==
  ASSUME \/ conn = [e \in Endpoint |-> Absent]
         \/ conn = [e \in Endpoint |-> Settled(e)]
  PROVE  LiveInvariant
<1>1. ASSUME NEW e \in Endpoint PROVE Live(Peer(e), Absent)
  BY AbsentFields DEF Live
<1>2. ASSUME NEW e \in Endpoint PROVE Live(Peer(e), Settled(e))
  <2>1. Settled(e).alive = TRUE
    BY SettledFields
  <2> QED
    BY <2>1, SettledUntouched, LiveUntouched
<1>3. \A e \in Endpoint : \/ conn[e] = Absent
                          \/ conn[e] = Settled(e)
  OBVIOUS
<1> QED
  BY <1>1, <1>2, <1>3 DEF LiveInvariant

\* No message makes the event loop panic (handle_ordered_message expects its
\* orderer to be there), if the applications agree on their channels, none of
\* the ordered ones is unreliable, and no sender runs further ahead of its
\* receiver than the window of the channel reaches.
THEOREM EventLoopSurvives ==
  ASSUME Matching, \A e \in Endpoint : MaxMessages[e] < WireOrders
  PROVE  (Spec \/ SettledSpec) /\ []RoomAhead => []Alive
<1>1. Init => LiveInvariant
  BY LiveInit DEF Init
<1>2. conn = [e \in Endpoint |-> Settled(e)] => LiveInvariant
  BY LiveInit
<1>3. /\ ConnectionInvariant /\ OrderInvariant /\ RoomAhead
      /\ LiveInvariant /\ [Next]_vars
      => LiveInvariant'
  BY LiveNext
<1>4. LiveInvariant => Alive
  BY DEF LiveInvariant, Live, Alive
<1> QED
  BY <1>1, <1>2, <1>3, <1>4, ConnectionCorrect, OrderCorrect, PTL DEF Spec, SettledSpec

\* A side that sends no more messages than a window holds is never too far
\* ahead, so that nothing has to be assumed of how fast they are handed over.
THEOREM EventLoopSurvivesFewMessages ==
  ASSUME Matching,
         \A e \in Endpoint :
            /\ MaxMessages[e] < WireOrders
            /\ \A channel \in InSequence(e) : MaxMessages[e] <= WindowSize[channel]
  PROVE  Spec \/ SettledSpec => []Alive
<1>1. ConnectionInvariant /\ OrderInvariant => RoomAhead
  <2> SUFFICES ASSUME ConnectionInvariant, OrderInvariant, NEW e \in Endpoint,
                      NEW channel \in InSequence(Peer(e))
               PROVE  conn[Peer(e)].orders[LocalId(Peer(e), channel)]
                         <= Len(conn[e].inbox[channel]) + WindowSize[channel]
    BY DEF RoomAhead, Room
  <2> DEFINE f == Peer(e)
             next == conn[f].orders[LocalId(f, channel)]
             n == Len(conn[e].inbox[channel])
  <2>1. f \in Endpoint /\ conn[e] \in Connections /\ conn[f] \in Connections
        /\ Own(f, conn[f]) /\ Numbered(f, conn[f])
    BY Peers DEF ConnectionInvariant, OrderInvariant
  <2>2. next <= conn[f].count /\ conn[f].count <= MaxMessages[f]
    BY <2>1 DEF Numbered, Own, Typed
  <2>3. MaxMessages[f] <= WindowSize[channel]
    BY <2>1
  <2>4. conn[f].count \in Nat /\ MaxMessages[f] \in Nat
    BY <2>1, Sizes, ConnectionFields
  <2>5. n \in Nat
    <3>1. conn[e].inbox[channel] \in Seq(Nat)
      BY <2>1, ConnectionFields DEF InSequence
    <3> QED
      BY <3>1
  <2>6. WindowSize[channel] \in Nat
    BY ConnectionAssumption DEF InSequence
  <2>7. next \in Nat
    <3>1. LocalId(f, channel) \in Ids /\ WireOrders \in Nat
      BY <2>1, LocalIds, Sizes DEF InSequence
    <3>2. conn[f].orders \in [Ids -> 0..(WireOrders - 1)]
      BY <2>1, ConnectionFields
    <3> QED
      BY <3>1, <3>2
  <2> HIDE DEF next, n
  <2>8. next <= n + WindowSize[channel]
    BY <2>2, <2>3, <2>4, <2>5, <2>6, <2>7
  <2> QED
    BY <2>8 DEF next, n
<1>2. Spec \/ SettledSpec => []ConnectionInvariant
  BY ConnectionCorrect
<1>3. Spec \/ SettledSpec => []OrderInvariant
  BY OrderCorrect
<1>4. (Spec \/ SettledSpec) /\ []RoomAhead => []Alive
  BY EventLoopSurvives
<1> QED
  BY <1>1, <1>2, <1>3, <1>4, PTL

-----------------------------------------------------------------------------
(* No message is lost *)

\* Where the message of a packet is at its receiver: Reached, for a connection.
Arrived(c, p) ==
    \/ p.msg \in Range(c.inbox[p.on])
    \/ \E x \in DOMAIN c.orderers[p.id].window.ahead : c.orderers[p.id].window.ahead[x] = p

IsKept(p) == p.on \in AppChannel \cap Reliable

\* The messages of a sender c, and what their receiver q recorded as seen.
Kept(c, q) ==
    /\ \A key \in q.seen : \E p \in c.sent : p.key = key
    /\ \A p \in c.sent : IsKept(p) =>
          \/ p.key \in c.resender \ q.seen
          \/ p.key \in q.seen /\ q.phase = "Transfer" /\ Arrived(q, p)

KeptInvariant == \A e \in Endpoint : Kept(conn[e], conn[Peer(e)])

\* A side can acknowledge whatever arrives.
RoomToAcknowledge == \A e \in Endpoint : CanAcknowledge(conn[e])

LEMMA InboxHolds ==
  ASSUME NEW inbox \in Seq(Nat), NEW run \in Seq(Packet)
  PROVE  LET more == inbox \o Messages(run) IN
         /\ Range(inbox) \subseteq Range(more)
         /\ \A i \in DOMAIN run : run[i].msg \in Range(more)
<1> DEFINE t == Messages(run)
           more == inbox \o t
<1>1. t \in Seq(Nat) /\ DOMAIN t = DOMAIN run /\ \A i \in DOMAIN run : t[i] = run[i].msg
  <2>1. DOMAIN run = 1..Len(run) /\ Len(run) \in Nat
    OBVIOUS
  <2>2. \A i \in DOMAIN run : run[i].msg \in Nat
    <3>1. \A i \in DOMAIN run : run[i] \in Packet
      OBVIOUS
    <3> QED
      BY <3>1 DEF Packet
  <2> QED
    BY <2>1, <2>2 DEF Messages
<1> HIDE DEF t
<1>2. /\ DOMAIN inbox \subseteq DOMAIN more /\ \A i \in DOMAIN inbox : more[i] = inbox[i]
      /\ \A i \in DOMAIN t : Len(inbox) + i \in DOMAIN more /\ more[Len(inbox) + i] = t[i]
  BY <1>1
<1> HIDE DEF more
<1> QED
  BY <1>1, <1>2 DEF Range, more, t

\* A packet in a window is handed over with the run, or still there after it.
LEMMA StaysArrived ==
  ASSUME NEW w \in Windows, NEW inbox \in Seq(Nat), NEW x \in DOMAIN w.ahead
  PROVE  \/ w.ahead[x].msg \in Range(inbox \o Messages(Run(w)))
         \/ \E y \in DOMAIN Drained(w).ahead : Drained(w).ahead[y] = w.ahead[x]
<1> DEFINE n == RunLength(w)
<1>1. x \in Nat /\ n \in Nat
  BY WindowFields, RunLengthIs
<1>2. Run(w) \in Seq(Packet)
  BY RunFields
<1>3. CASE x \in 0..(n - 1)
  <2>1. x + 1 \in 1..n /\ (x + 1) - 1 = x
    BY <1>1, <1>3
  <2>2. x + 1 \in DOMAIN Run(w) /\ Run(w)[x + 1] = w.ahead[x]
    BY <2>1, RunFields
  <2>3. Run(w)[x + 1].msg \in Range(inbox \o Messages(Run(w)))
    BY <1>2, <2>2, InboxHolds
  <2> QED
    BY <2>2, <2>3
<1>4. CASE x - n \in DOMAIN Drained(w).ahead
  <2>1. (x - n) + n = x
    BY <1>1
  <2>2. Drained(w).ahead[x - n] = w.ahead[(x - n) + n]
    BY <1>4, DrainedFields
  <2> QED
    BY <1>4, <2>1, <2>2
<1> QED
  BY <1>3, <1>4, DrainedFields

\* What has arrived stays arrived when another message does, which arrives too.
LEMMA ArrivedMessage ==
  ASSUME NEW e \in Endpoint, NEW c, NEW q, Own(e, c), Link(e, c, q), Own(Peer(e), q),
         c.phase = "Transfer", NEW p, Arrives(Peer(e), c, q, p),
         Numbered(Peer(e), q), Sorted(Peer(e), c, q), MaxMessages[Peer(e)] < WireOrders,
         Matching, Room(Peer(e), c, q), Live(Peer(e), c)
  PROVE  LET d == Handle(e, c, p.on, p) IN
         /\ IsKept(p) => Arrived(d, p)
         /\ \A r \in q.sent : IsMessage(Peer(e), r) /\ IsKept(r) /\ Arrived(c, r) => Arrived(d, r)
<1> DEFINE f == Peer(e)
           d == Handle(e, c, p.on, p)
           o == c.orderers[p.id]
           w == o.window
           F == Put(w, p.order, p)
           old == c.inbox[p.on]
           new == d.inbox[p.on]
<1>1. f \in Endpoint /\ p \in q.sent /\ IsMessage(f, p) /\ p.id = LocalId(f, p.on)
      /\ p.on \in Channels(f) /\ p.on \in AppChannel /\ c \in Connections /\ q \in Connections
  BY Peers DEF Arrives, IsMessage, Own, Typed
<1>2. p \in Packet /\ p.order \in Nat
  BY <1>1, ConnectionFields DEF Packet
<1>3. old \in Seq(Nat)
  BY <1>1, ConnectionFields
<1>4. CASE p.on \notin Ordered
  <2>1. d = HandleRun(c, p.on, <<p>>)
    BY <1>4 DEF Handle
  <2> HIDE DEF d
  <2>2. /\ d.orderers = c.orderers /\ new = old \o Messages(<<p>>)
        /\ \A other \in AppChannel \ {p.on} : d.inbox[other] = c.inbox[other]
    <3>1. Appends(c, d, p.on, <<p>>)
      BY <1>4, <2>1, UnorderedKeeps
    <3> QED
      BY <3>1 DEF Appends
  <2>3. <<p>> \in Seq(Packet) /\ 1 \in DOMAIN <<p>> /\ <<p>>[1] = p
    BY <1>2
  <2> HIDE DEF old, new
  <2>4. Range(old) \subseteq Range(new) /\ p.msg \in Range(new)
    BY <1>3, <2>2, <2>3, InboxHolds
  <2>5. \A r : IsKept(r) /\ Arrived(c, r) => Arrived(d, r)
    BY <2>2, <2>4 DEF IsKept, Arrived, old, new
  <2> QED
    BY <2>4, <2>5 DEF Arrived, d, new
<1>5. CASE p.on \in Ordered
  <2>1. /\ HandsOver(c, d, p.id, p.on, F)
        /\ o.present /\ w \in Windows
        /\ Distance(w, p.order) = p.order - Len(old)
    BY <1>5, MessageAccepted
  <2> HIDE DEF d
  <2>2. p.on \in InSequence(f) /\ p.on \in Reliable
    BY <1>1, <1>5 DEF InSequence, Matching
  <2>3. /\ DOMAIN F.ahead = DOMAIN w.ahead \cup {Distance(w, p.order)}
        /\ F.ahead[Distance(w, p.order)] = p
        /\ \A x \in DOMAIN w.ahead : x # Distance(w, p.order) => F.ahead[x] = w.ahead[x]
        /\ F \in Windows
    <3> HIDE DEF w
    <3>1. w \in Windows
      BY <2>1
    <3> QED
      BY ONLY <1>2, <3>1, PutAhead, PutFields
  <2>4. \A x \in DOMAIN w.ahead : F.ahead[x] = w.ahead[x]
    <3> SUFFICES ASSUME NEW x \in DOMAIN w.ahead PROVE x # Distance(w, p.order)
      BY <2>3
    <3>1. w.ahead = Ahead(f, c, p.on)
      BY <1>1 DEF Ahead
    <3>2. w.ahead[x] \in q.sent /\ w.ahead[x].on = p.on
      BY <1>1, <3>1, WaitingMessages
    <3>3. w.ahead[x].order = Len(old) + x
      BY <1>1, <2>1, <2>2 DEF Sorted, Sequenced
    <3>4. w.ahead[x].msg # p.msg
      BY <2>2, <3>1 DEF Arrives, Fresh
    <3>5. w.ahead[x].order # p.order
      BY <1>1, <2>2, <3>2, <3>4, OrdersDiffer
    <3>6. x \in Nat /\ Len(old) \in Nat
      BY <1>3, <2>1, WindowFields
    <3> HIDE DEF old, w
    <3> QED
      BY <1>2, <2>1, <3>3, <3>5, <3>6
  <2>5. /\ new = old \o Messages(Run(F))
        /\ \A other \in AppChannel \ {p.on} : d.inbox[other] = c.inbox[other]
        /\ d.orderers[p.id].window = Drained(F)
        /\ \A other \in Ids \ {p.id} : d.orderers[other] = c.orderers[other]
    BY <2>1 DEF HandsOver
  <2> HIDE DEF F, w, old, new
  <2>6. Range(old) \subseteq Range(new)
    <3>1. Run(F) \in Seq(Packet)
      BY <2>3, RunFields
    <3> QED
      BY <1>3, <2>5, <3>1, InboxHolds
  <2>7. \A x \in DOMAIN F.ahead :
           \/ F.ahead[x].msg \in Range(new)
           \/ \E y \in DOMAIN Drained(F).ahead : Drained(F).ahead[y] = F.ahead[x]
    BY <1>3, <2>3, <2>5, StaysArrived
  <2>8. Arrived(d, p)
    BY <2>3, <2>5, <2>7 DEF Arrived, new
  <2>9. ASSUME NEW r \in q.sent, IsMessage(f, r), IsKept(r), Arrived(c, r)
        PROVE  Arrived(d, r)
    <3>1. r.on \in Channels(f) /\ r.on \in AppChannel /\ r.id = LocalId(f, r.on) /\ r.id \in Ids
      BY <1>1, <2>9, LocalIds, Sizes DEF IsMessage
    <3>2. CASE r.on = p.on
      <4>1. r.id = p.id
        BY <1>1, <3>1, <3>2
      <4>2. \/ r.msg \in Range(old)
            \/ \E x \in DOMAIN w.ahead : w.ahead[x] = r
        BY <2>9, <3>2, <4>1 DEF Arrived, old, w
      <4>3. \/ r.msg \in Range(new)
            \/ \E y \in DOMAIN Drained(F).ahead : Drained(F).ahead[y] = r
        BY <2>3, <2>4, <2>6, <2>7, <4>2
      <4> QED
        BY <2>5, <3>2, <4>1, <4>3 DEF Arrived, new
    <3>3. CASE r.on # p.on
      <4>1. r.id # p.id
        BY <1>1, <3>1, <3>3, OtherWindow
      <4>2. d.orderers[r.id] = c.orderers[r.id] /\ d.inbox[r.on] = c.inbox[r.on]
        BY <2>5, <3>1, <3>3, <4>1
      <4> QED
        BY <2>9, <4>2 DEF Arrived
    <3> QED
      BY <3>2, <3>3
  <2> QED
    BY <2>8, <2>9 DEF d
<1> QED
  BY <1>4, <1>5

LEMMA MessagesOf ==
  ASSUME NEW e \in Endpoint, NEW c, Own(e, c), NEW p \in c.sent, IsKept(p)
  PROVE  c.phase = "Transfer" /\ IsMessage(e, p) /\ p.key # NoKey /\ p.on # Nameless
<1>1. p.on # Nameless
  BY Names DEF IsKept, AppChannel, Channel
<1>2. ~IsRegistration(e, p) /\ ~IsAck(AckStage, p) /\ ~IsAck(LocalId(e, Ack), p)
  BY <1>1, RegistrationFields DEF IsRegistration, IsAck
<1>3. Sendable(e, c, p)
  BY DEF Own, Sent
<1> QED
  BY <1>1, <1>2, <1>3 DEF Sendable, IsMessage, IsKept

\* The key of a message is that of no other packet.
LEMMA KeysDiffer ==
  ASSUME NEW e \in Endpoint, NEW c, Own(e, c), NEW p \in c.sent, IsKept(p), NEW r \in c.sent,
         r.on = Nameless
  PROVE  r.key # p.key
<1>1. p.key # NoKey /\ p.on # Nameless
  BY MessagesOf
<1> QED
  BY <1>1 DEF Own, Unique

\* A step of the receiver that hands nothing over.
LEMMA KeptQuiet ==
  ASSUME NEW f \in Endpoint, NEW q, Own(f, q), NEW c, NEW d, Kept(q, c), Quiet(c, d),
         \A key \in d.seen \ c.seen : \E p \in q.sent : p.key = key /\ p.on = Nameless
  PROVE  Kept(q, d)
<1>1. \A p : Arrived(c, p) => Arrived(d, p)
  BY DEF Arrived, Quiet
<1>2. \A p \in q.sent : IsKept(p) /\ p.key \notin c.seen => p.key \notin d.seen
  BY KeysDiffer
<1>3. \A key \in d.seen : \E p \in q.sent : p.key = key
  BY DEF Kept
<1> QED
  BY <1>1, <1>2, <1>3 DEF Kept, Quiet

\* A receiver that is not in the transfer phase has seen no message.
LEMMA KeptUnseen ==
  ASSUME NEW f \in Endpoint, NEW q, Own(f, q), NEW c, NEW d, Kept(q, c), c.phase # "Transfer",
         \A key \in d.seen \ c.seen : \E p \in q.sent : p.key = key /\ p.on = Nameless
  PROVE  Kept(q, d)
<1>1. \A p \in q.sent : IsKept(p) => p.key \in q.resender /\ p.key \notin c.seen
  BY DEF Kept
<1>2. \A p \in q.sent : IsKept(p) => p.key \notin d.seen
  BY <1>1, KeysDiffer
<1>3. \A key \in d.seen : \E p \in q.sent : p.key = key
  BY DEF Kept
<1> QED
  BY <1>1, <1>2, <1>3 DEF Kept

\* A step of the sender: what leaves the resender was seen.
LEMMA KeptSends ==
  ASSUME NEW c, NEW d, NEW q, Kept(c, q), c.sent \subseteq d.sent,
         \A p \in d.sent \ c.sent : IsKept(p) => p.key \in d.resender \ q.seen,
         c.resender \ d.resender \subseteq q.seen
  PROVE  Kept(d, q)
<1>1. \A key \in q.seen : \E p \in d.sent : p.key = key
  BY DEF Kept
<1> QED
  BY <1>1 DEF Kept

\* A sender that has sent no message yet.
LEMMA KeptNothing ==
  ASSUME NEW e \in Endpoint, NEW c, Own(e, c), c.phase # "Transfer", NEW d, NEW q, Kept(c, q),
         c.sent \subseteq d.sent, \A p \in d.sent \ c.sent : p.on = Nameless
  PROVE  Kept(d, q)
<1>1. \A p \in d.sent : ~IsKept(p)
  <2>1. \A p \in c.sent : ~IsKept(p)
    BY MessagesOf
  <2>2. Nameless \notin AppChannel
    BY Names DEF AppChannel, Channel
  <2> QED
    BY <2>1, <2>2 DEF IsKept
<1>2. \A key \in q.seen : \E p \in d.sent : p.key = key
  BY DEF Kept
<1> QED
  BY <1>1, <1>2 DEF Kept

LEMMA KeptStep ==
  ASSUME KeptInvariant, conn \in [Endpoint -> Connections], NEW e \in Endpoint, NEW d,
         conn' = [conn EXCEPT ![e] = d], Kept(d, conn[Peer(e)]), Kept(conn[Peer(e)], d)
  PROVE  KeptInvariant'
<1> DEFINE f == Peer(e)
<1>1. f \in Endpoint /\ f # e /\ Peer(f) = e /\ Endpoint = {e, f}
  BY Peers
<1>2. conn'[e] = d /\ conn'[f] = conn[f]
  BY <1>1
<1>3. \A g \in Endpoint : Kept(conn'[g], conn'[Peer(g)])
  BY <1>1, <1>2
<1> QED
  BY <1>3 DEF KeptInvariant

LEMMA KeptInit ==
  ASSUME \/ conn = [e \in Endpoint |-> Absent]
         \/ conn = [e \in Endpoint |-> Settled(e)]
  PROVE  KeptInvariant
<1>1. ASSUME NEW c, NEW q, q.seen = {}, \A p \in c.sent : p.on = Nameless
      PROVE  Kept(c, q)
  <2>1. Nameless \notin AppChannel
    BY Names DEF AppChannel, Channel
  <2> QED
    BY <1>1, <2>1 DEF Kept, IsKept
<1>2. Absent.seen = {} /\ Absent.sent = {}
  BY AbsentFields
<1>3. \A e \in Endpoint : Settled(e).seen = {} /\ \A p \in Settled(e).sent : p.on = Nameless
  BY SettledFields, SettledUntouched
<1>4. \A e \in Endpoint : conn[e].seen = {} /\ \A p \in conn[e].sent : p.on = Nameless
  BY <1>2, <1>3
<1>5. \A e \in Endpoint : Kept(conn[e], conn[Peer(e)])
  BY <1>1, <1>4, Peers
<1> QED
  BY <1>5 DEF KeptInvariant

LEMMA NamelessIsNotKept ==
  ASSUME NEW p, p.on = Nameless
  PROVE  ~IsKept(p)
  BY Names DEF AppChannel, Channel, IsKept

LEMMA KeptNext ==
  ASSUME ConnectionInvariant, OrderInvariant, RoomAhead, LiveInvariant,
         RoomToAcknowledge, KeptInvariant, [Next]_vars,
         Matching, \A e \in Endpoint : MaxMessages[e] < WireOrders
  PROVE  KeptInvariant'
<1>1. CASE UNCHANGED vars
  BY <1>1 DEF vars, KeptInvariant
<1>2. ASSUME NEW e \in Endpoint,
             \/ Connect(e)
             \/ \E p \in conn[Peer(e)].sent : Receive(e, p)
             \/ Update(e)
             \/ \E channel \in Channels(e) \cap AppChannel : Send(e, channel)
      PROVE  KeptInvariant'
  <2> DEFINE f == Peer(e)
             c == conn[e]
             q == conn[f]
  <2>1. /\ f \in Endpoint /\ Peer(f) = e /\ Own(e, c) /\ Link(e, c, q) /\ Own(f, q)
        /\ Numbered(f, q) /\ Sorted(f, c, q) /\ Kept(c, q) /\ Kept(q, c)
        /\ conn \in [Endpoint -> Connections] /\ c \in Connections
        /\ Room(f, c, q) /\ Live(f, c) /\ CanAcknowledge(c)
    BY Peers DEF ConnectionInvariant, OrderInvariant, RoomAhead, LiveInvariant, KeptInvariant,
                 RoomToAcknowledge
  <2>2. c.phase = "Absent" => c = Absent
    BY <2>1 DEF Own, Phases
  <2>3. /\ Own(e, Initialize(e)) /\ Link(e, Initialize(e), q)
        /\ Initialize(e).phase = "Registration" /\ Initialize(e).seen = {}
        /\ Absent.sent = {} /\ Absent.phase = "Absent"
        /\ Initialize(e).alive = TRUE /\ Initialize(e).inbox = Absent.inbox
    BY InitializeKeeps, InitializeFields, AbsentFields
  <2>4. c = Absent => Kept(Initialize(e), q) /\ Kept(q, Initialize(e))
    <3> DEFINE d == Initialize(e)
    <3>1. d.sent = {Registration(e, i) : i \in 0..Count(e)}
      BY InitializeFields
    <3> HIDE DEF d
    <3>2. \A p \in d.sent : p.on = Nameless
      BY <3>1, RegistrationFields
    <3> QED
      BY <2>1, <2>3, <3>2, KeptNothing, KeptUnseen DEF d
  <2>5. CASE Connect(e)
    <3> DEFINE d == Initialize(e)
    <3>1. c = Absent /\ conn' = [conn EXCEPT ![e] = d]
      BY <2>2, <2>5 DEF Connect, Becomes
    <3> HIDE DEF d
    <3> QED
      BY <2>1, <2>4, <3>1, KeptStep DEF d
  <2>6. ASSUME NEW p \in q.sent, Receive(e, p)
        PROVE  KeptInvariant'
    <3> DEFINE b == IF c.phase = "Absent" THEN Initialize(e) ELSE c
               t == Speculate(b, p)
               d == HandleMessage(e, b, p)
    <3>1. conn' = [conn EXCEPT ![e] = d]
      BY <2>6 DEF Receive, Becomes
    <3>2. /\ Own(e, b) /\ Link(e, b, q) /\ b.phase # "Absent" /\ Kept(b, q) /\ Kept(q, b)
          /\ b.phase = "Transfer" => b = c
          /\ b.alive = TRUE /\ b.inbox = c.inbox
      <4>1. CASE c.phase = "Absent"
        <5>1. b = Initialize(e) /\ c = Absent
          BY <2>2, <4>1
        <5> HIDE DEF b, c
        <5> QED
          BY <2>3, <2>4, <5>1
      <4>2. CASE c.phase # "Absent"
        BY <2>1, <4>2 DEF Live
      <4> QED
        BY <4>1, <4>2
    <3> HIDE DEF b
    <3>3. /\ Own(e, t) /\ Link(e, t, q) /\ t.phase # "Absent" /\ b \in Connections
          /\ \/ t = b
             \/ b.phase = "Registration" /\ b.received_last /\ t = Transfer(b)
      BY <2>1, <3>2, SpeculateKeeps DEF Own, Typed
    <3>4. /\ Kept(t, q) /\ Kept(q, t)
          /\ t.phase = "Transfer" => /\ CanAcknowledge(t) /\ Sorted(f, t, q)
                                     /\ Room(f, t, q) /\ Live(f, t)
      <4>1. CASE t = b
        BY <2>1, <3>2, <4>1
      <4>2. CASE b.phase = "Registration" /\ b.received_last /\ t = Transfer(b)
        <5>1. Untouched(f, t)
          BY <3>2, <4>2, RegistrationUntouched
        <5>2. t.seen = {} /\ t.sent = b.sent /\ t.acks = {} /\ t.alive = b.alive /\ t.inbox = b.inbox
          BY <3>3, <4>2, TransferFields
        <5>3. Kept(t, q) /\ Kept(q, t)
          BY <2>1, <3>2, <4>2, <5>2, KeptNothing, KeptUnseen
        <5>4. CanAcknowledge(t)
          BY <5>2, FS_EmptySet, ConnectionAssumption DEF CanAcknowledge
        <5>5. Room(f, t, q)
          BY <2>1, <3>2, <5>2 DEF Room
        <5>6. Live(f, t)
          BY <3>2, <5>1, <5>2, LiveUntouched
        <5> QED
          BY <5>1, <5>3, <5>4, <5>5, <5>6, SortedUntouched
      <4> QED
        BY <3>3, <4>1, <4>2
    <3>5. \/ t.phase = "Registration" /\ Begins(f, t, d, p)
          \/ t.phase = "Transfer" /\ Passes(f, t, d, p)
          \/ t.phase = "Transfer" /\ Takes(e, t, d, q, p)
      BY <2>1, <3>2, HandleMessageIs
    <3> HIDE DEF t, d
    <3>6. CASE t.phase = "Registration" /\ Begins(f, t, d, p)
      <4>1. Same(t, d) /\ \A key \in d.seen \ t.seen : key = p.key /\ p.on = Nameless
        BY <3>6 DEF Begins, Records
      <4>2. Kept(q, d)
        BY <2>1, <3>4, <3>6, <4>1, KeptUnseen
      <4>3. Kept(d, q)
        BY <3>3, <3>4, <3>6, <4>1, KeptNothing DEF Same
      <4> QED
        BY <2>1, <3>1, <4>2, <4>3, KeptStep
    <3>7. CASE t.phase = "Transfer" /\ Passes(f, t, d, p)
      <4>1. /\ Quiet(t, d) /\ Same(t, d)
            /\ \A key \in d.seen \ t.seen : key = p.key /\ p.on = Nameless
            /\ \A key \in t.resender \ d.resender : p.id = LocalId(f, Ack) /\ key \in p.acked
        BY <3>4, <3>7 DEF Passes, Idle, Records
      <4>2. Kept(q, d)
        BY <2>1, <3>4, <4>1, KeptQuiet
      <4>3. t.resender \ d.resender \subseteq q.seen
        BY <2>1, <4>1 DEF Own, Sent
      <4>4. Kept(d, q)
        BY <3>4, <4>1, <4>3, KeptSends, NamelessIsNotKept DEF Same
      <4> QED
        BY <2>1, <3>1, <4>2, <4>4, KeptStep
    <3>8. CASE t.phase = "Transfer" /\ Takes(e, t, d, q, p)
      <4>1. PICK a \in Connections :
               /\ Quiet(t, a) /\ Same(t, a) /\ Own(e, a) /\ Link(e, a, q) /\ a.phase = "Transfer"
               /\ Arrives(f, a, q, p) /\ t.resender \subseteq a.resender
               /\ a.seen = IF p.on \in Reliable THEN t.seen \cup {p.key} ELSE t.seen
               /\ d = Handle(e, a, p.on, p)
        BY <3>8 DEF Takes, Idle
      <4>2. Sorted(f, a, q) /\ Live(f, a) /\ Room(f, a, q)
        BY <3>4, <3>8, <4>1, SortedQuiet, LiveQuiet DEF Room, Quiet
      <4>3. Reads(a, d)
        BY <2>1, <4>1, MessageKeeps
      <4>4. /\ IsKept(p) => Arrived(d, p)
            /\ \A r \in q.sent : IsMessage(f, r) /\ IsKept(r) /\ Arrived(a, r) => Arrived(d, r)
        BY <2>1, <4>1, <4>2, ArrivedMessage
      <4>5. Kept(d, q)
        <5>1. /\ t.sent \subseteq d.sent /\ t.resender \subseteq d.resender
              /\ \A r \in d.sent \ t.sent : r.on = Nameless
          BY <4>1, <4>3 DEF Same, Reads
        <5> QED
          BY <3>4, <5>1, KeptSends, NamelessIsNotKept
      <4>6. Kept(q, d)
        <5>1. d.phase = "Transfer" /\ d.seen = a.seen
          BY <4>1, <4>3 DEF Reads
        <5>2. \A key \in d.seen : \E r \in q.sent : r.key = key
          BY <3>4, <4>1, <5>1 DEF Kept
        <5>3. ASSUME NEW r \in q.sent, IsKept(r), r.key \in t.seen, Arrived(t, r)
              PROVE  r.key \in d.seen /\ Arrived(d, r)
          <6>1. IsMessage(f, r)
            BY <2>1, <5>3, MessagesOf
          <6>2. Arrived(a, r)
            BY <4>1, <5>3 DEF Arrived, Quiet
          <6> QED
            BY <4>1, <4>4, <5>1, <5>3, <6>1, <6>2
        <5>4. ASSUME NEW r \in q.sent, IsKept(r), r.key \notin t.seen, r.key \in d.seen
              PROVE  Arrived(d, r)
          <6>1. p.on \in Reliable /\ r.key = p.key
            BY <4>1, <5>1, <5>4
          <6>2. r = p
            BY <2>1, <5>4, <6>1, MessagesOf DEF Own, Unique
          <6> QED
            BY <4>4, <5>4, <6>2
        <5> QED
          BY <3>4, <5>1, <5>2, <5>3, <5>4 DEF Kept
      <4> QED
        BY <2>1, <3>1, <4>5, <4>6, KeptStep
    <3> QED
      BY <3>5, <3>6, <3>7, <3>8
  <2>7. CASE Update(e)
    <3> DEFINE d == Flush(e, c)
    <3>1. c.phase # "Absent" /\ conn' = [conn EXCEPT ![e] = d]
      BY <2>7 DEF Update, Becomes
    <3>2. Answers(c, d) /\ d.seen = c.seen
      BY <2>1, <3>1, FlushKeeps
    <3> HIDE DEF d
    <3>3. Kept(q, d)
      BY <2>1, <3>2, KeptQuiet DEF Answers
    <3>4. Kept(d, q)
      BY <2>1, <3>2, KeptSends, NamelessIsNotKept DEF Answers
    <3> QED
      BY <2>1, <3>1, <3>3, <3>4, KeptStep
  <2>8. ASSUME NEW channel \in Channels(e) \cap AppChannel, Send(e, channel)
        PROVE  KeptInvariant'
    <3> DEFINE d == SendNumber(e, c, channel)
    <3>1. conn' = [conn EXCEPT ![e] = d]
      BY <2>8 DEF Send, Becomes, SendNumber
    <3>2. /\ Quiet(c, d) /\ d.seen = c.seen
          /\ \/ d.sent = c.sent /\ d.resender = c.resender
             \/ \E p \in Packet : PutOut(e, channel, c, d, p)
      BY ONLY <2>1, e \in Endpoint, channel \in Channels(e) \cap AppChannel, SendFields
    <3> HIDE DEF d
    <3>3. Kept(q, d)
      BY <2>1, <3>2, KeptQuiet
    <3>4. Kept(d, q)
      <4>1. CASE d.sent = c.sent /\ d.resender = c.resender
        BY <2>1, <4>1, KeptSends
      <4>2. CASE \E p \in Packet : PutOut(e, channel, c, d, p)
        <5>1. PICK p \in Packet :
                 /\ p.on = channel /\ d.sent = c.sent \cup {p}
                 /\ \/ p.key = c.next_key + 1 /\ d.resender = c.resender \cup {p.key}
                    \/ channel \notin Reliable /\ d.resender = c.resender
          BY <4>2 DEF PutOut
        <5>2. c.next_key + 1 \notin q.seen
          <6>1. \A key \in q.seen : \E r \in c.sent : r.key = key
            BY <2>1 DEF Kept
          <6>2. \A r \in c.sent : r.key <= c.next_key
            BY <2>1 DEF Own, Sent
          <6>3. c.next_key \in Nat
            BY <2>1, ConnectionFields
          <6>4. ~(c.next_key + 1 <= c.next_key)
            BY <6>3
          <6> QED
            BY <6>1, <6>2, <6>4
        <5>3. /\ c.sent \subseteq d.sent /\ c.resender \ d.resender \subseteq q.seen
              /\ \A r \in d.sent \ c.sent : IsKept(r) => r.key \in d.resender \ q.seen
          BY <5>1, <5>2 DEF IsKept
        <5> QED
          BY <2>1, <5>3, KeptSends
      <4> QED
        BY <3>2, <4>1, <4>2
    <3> QED
      BY <2>1, <3>1, <3>3, <3>4, KeptStep
  <2> QED
    BY <1>2, <2>5, <2>6, <2>7, <2>8
<1> QED
  BY <1>1, <1>2 DEF Next

\* A message that a reliable channel accepted is at its receiver, or in the
\* sender's resender and not yet recorded as seen (acknowledge_locally and the
\* duplicate check in handle_message), if no orderer is dropped, as in
\* EventLoopSurvives, and no resender is so full that a packet is recorded as
\* seen and then, for want of its acknowledgement, thrown away.
THEOREM MessagesAreKept ==
  ASSUME Matching, \A e \in Endpoint : MaxMessages[e] < WireOrders
  PROVE  (Spec \/ SettledSpec) /\ []RoomAhead /\ []RoomToAcknowledge => []NoMessageLost
<1>1. Init => LiveInvariant /\ KeptInvariant
  BY LiveInit, KeptInit DEF Init
<1>2. conn = [e \in Endpoint |-> Settled(e)] => LiveInvariant /\ KeptInvariant
  BY LiveInit, KeptInit
<1>3. /\ ConnectionInvariant /\ OrderInvariant /\ RoomAhead
      /\ LiveInvariant /\ [Next]_vars
      => LiveInvariant'
  BY LiveNext
<1>4. /\ ConnectionInvariant /\ OrderInvariant /\ RoomAhead /\ RoomToAcknowledge
      /\ LiveInvariant /\ KeptInvariant /\ [Next]_vars
      => KeptInvariant'
  BY KeptNext
<1>5. KeptInvariant => NoMessageLost
  <2> SUFFICES ASSUME KeptInvariant, NEW e \in Endpoint, NEW p \in conn[e].sent, IsKept(p)
               PROVE  \/ p.key \in conn[e].resender \ conn[Peer(e)].seen
                      \/ Reached(Peer(e), p.on, p)
    BY DEF NoMessageLost, IsKept
  <2>1. Kept(conn[e], conn[Peer(e)])
    BY DEF KeptInvariant
  <2> QED
    BY <2>1 DEF Kept, Arrived, Reached
<1> QED
  BY <1>1, <1>2, <1>3, <1>4, <1>5, ConnectionCorrect, OrderCorrect, PTL DEF Spec, SettledSpec
=============================================================================
