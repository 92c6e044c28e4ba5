------------------------ MODULE PacketOrdererProofs -------------------------
(***************************************************************************)
(* Proofs about PacketOrderer, for any capacity and any packets: the ring  *)
(* keeps its bounds, and it implements a reorder window across growth,     *)
(* rotation, wrap-around and a callback that fails.                        *)
(***************************************************************************)
EXTENDS PacketOrderer, Numbers, SequenceTheorems

\* The place in a ring of n that is d after slot s.
Place(n, s, d) == 1 + ((s + d) % n)

\* The same without a remainder.
LEMMA PlaceValue ==
  ASSUME NEW n \in Nat \ {0}, NEW s \in 0..(n - 1), NEW d \in 0..n
  PROVE  /\ Place(n, s, d) = IF s + d < n THEN 1 + s + d ELSE 1 + s + d - n
         /\ Place(n, s, d) \in 1..n
<1>1. CASE s + d < n
  <2>1. (s + d) % n = s + d
    BY <1>1, ModSmall
  <2> QED
    BY <1>1, <2>1 DEF Place
<1>2. CASE s + d >= n
  <2>1. (s + d) % n = s + d - n
    BY <1>2, ModOnce
  <2> QED
    BY <1>2, <2>1 DEF Place
<1> QED
  BY <1>1, <1>2

\* Different distances have different places.
LEMMA PlacesDiffer ==
  ASSUME NEW n \in Nat \ {0}, NEW s \in 0..(n - 1), NEW d \in 0..(n - 1),
         NEW e \in 0..(n - 1), Place(n, s, d) = Place(n, s, e)
  PROVE  d = e
<1>1. d \in 0..n /\ e \in 0..n
  OBVIOUS
<1>2. /\ Place(n, s, d) = IF s + d < n THEN 1 + s + d ELSE 1 + s + d - n
      /\ Place(n, s, d) \in 1..n
  BY <1>1, PlaceValue
<1>3. /\ Place(n, s, e) = IF s + e < n THEN 1 + s + e ELSE 1 + s + e - n
      /\ Place(n, s, e) \in 1..n
  BY <1>1, PlaceValue
<1>4. (IF s + d < n THEN 1 + s + d ELSE 1 + s + d - n) =
          (IF s + e < n THEN 1 + s + e ELSE 1 + s + e - n)
  BY <1>2, <1>3
<1> QED
  BY <1>4

\* What is x after a start moved by k was x + k after the start before.
LEMMA PlaceShift ==
  ASSUME NEW n \in Nat \ {0}, NEW s \in 0..(n - 1), NEW k \in 0..n, NEW x \in 0..(n - 1)
  PROVE  /\ (s + k) % n \in 0..(n - 1)
         /\ Place(n, (s + k) % n, x) =
                 Place(n, s, IF x + k < n THEN x + k ELSE x + k - n)
<1> DEFINE t == (s + k) % n
           y == IF x + k < n THEN x + k ELSE x + k - n
<1>1. t \in 0..(n - 1) /\ t = IF s + k < n THEN s + k ELSE s + k - n
  <2>1. CASE s + k < n
    BY <2>1, ModSmall
  <2>2. CASE s + k >= n
    BY <2>2, ModOnce
  <2> QED
    BY <2>1, <2>2
<1> HIDE DEF t
<1>2. x \in 0..n /\ y \in 0..n
  OBVIOUS
<1>3. Place(n, t, x) = IF t + x < n THEN 1 + t + x ELSE 1 + t + x - n
  BY <1>1, <1>2, PlaceValue
<1>4. Place(n, s, y) = IF s + y < n THEN 1 + s + y ELSE 1 + s + y - n
  <2> HIDE DEF y
  <2> QED
    BY <1>2, PlaceValue
<1>5. Place(n, t, x) = Place(n, s, y)
  BY <1>1, <1>3, <1>4
<1> QED
  BY <1>1, <1>5 DEF t, y

\* The slot of a distance, without a remainder.
LEMMA SlotValue ==
  ASSUME TypeOK, NEW d \in 0..(Len(vec) - 1)
  PROVE  /\ Slot(d) = Place(Len(vec), deque_start, d)
         /\ Slot(d) = IF deque_start + d < Len(vec) THEN 1 + deque_start + d
                      ELSE 1 + deque_start + d - Len(vec)
         /\ Slot(d) \in 1..Len(vec)
<1>1. /\ Len(vec) \in Nat \ {0} /\ deque_start \in 0..(Len(vec) - 1) /\ d \in 0..Len(vec)
  BY DEF TypeOK
<1>2. Slot(d) = Place(Len(vec), deque_start, d)
  BY DEF Slot, Place
<1> QED
  BY <1>1, <1>2, PlaceValue

\* The distances in a ring have different slots, and every slot is of one.
LEMMA SlotsDiffer ==
  ASSUME TypeOK, NEW d \in 0..(Len(vec) - 1), NEW e \in 0..(Len(vec) - 1),
         Slot(d) = Slot(e)
  PROVE  d = e
<1>1. /\ Len(vec) \in Nat \ {0} /\ deque_start \in 0..(Len(vec) - 1)
  BY DEF TypeOK
<1> QED
  BY <1>1, SlotValue

\* What Filled counts.
LEMMA FilledCounts ==
  ASSUME TypeOK
  PROVE  /\ Filled \in 0..Len(vec)
         /\ \A d \in 0..(Filled - 1) : vec[Slot(d)] # None
         /\ Filled < Len(vec) => vec[Slot(Filled)] = None
<1> DEFINE Ends(n) == /\ \A d \in 0..(n - 1) : vec[Slot(d)] # None
                      /\ n < Len(vec) => vec[Slot(n)] = None
           E == {n \in 0..Len(vec) : n = Len(vec) \/ vec[Slot(n)] = None}
<1>1. Len(vec) \in Nat
  BY DEF TypeOK
<1>2. PICK m \in E : \A k \in E : m <= k
  <2>1. E \in SUBSET Nat /\ Len(vec) \in E
    BY <1>1
  <2> HIDE DEF E
  <2> QED
    BY <2>1, LeastNumber
<1>3. m \in 0..Len(vec) /\ Ends(m)
  <2>1. ASSUME NEW d \in 0..(m - 1) PROVE vec[Slot(d)] # None
    <3>1. d \in 0..Len(vec) /\ ~ (m <= d)
      BY <1>1
    <3>2. d \notin E
      BY <1>2, <3>1
    <3> QED
      BY <3>1, <3>2
  <2> QED
    BY <2>1, <1>1
<1>4. Filled \in 0..Len(vec) /\ Ends(Filled)
  <2> HIDE DEF Ends
  <2>1. Filled = CHOOSE n \in 0..Len(vec) : Ends(n)
    BY DEF Filled, Ends
  <2> QED
    BY <2>1, <1>3
<1> QED
  BY <1>4

-----------------------------------------------------------------------------
\* flatten() turns the ring, so that what was d ahead of the start is d ahead
\* of slot 0.
LEMMA FlattenedTurns ==
  ASSUME TypeOK
  PROVE  /\ Flattened \in Seq(Packet \cup {None})
         /\ Len(Flattened) = Len(vec)
         /\ \A d \in 0..(Len(vec) - 1) : Flattened[1 + d] = vec[Slot(d)]
<1>1. vec \in Seq(Packet \cup {None}) /\ Len(vec) \in Nat /\ deque_start \in Nat
  BY PacketOrdererAssumption DEF TypeOK
<1> DEFINE right == SubSeq(vec, deque_start + 1, Len(vec))
           left  == SubSeq(vec, 1, deque_start)
<1>2. CASE vec = <<>>
  <2>1. deque_start = 0
    BY <1>2 DEF TypeOK
  <2>2. Flattened = <<>>
    BY <1>2, <2>1 DEF Flattened
  <2> QED
    BY <1>2, <2>2
<1>3. CASE vec # <<>>
  <2>1. deque_start < Len(vec)
    BY <1>3 DEF TypeOK
  <2>2. /\ right \in Seq(Packet \cup {None}) /\ Len(right) = Len(vec) - deque_start
        /\ \A i \in 1..Len(right) : right[i] = vec[deque_start + i]
    BY <1>1, <2>1
  <2>3. /\ left \in Seq(Packet \cup {None}) /\ Len(left) = deque_start
        /\ \A i \in 1..Len(left) : left[i] = vec[i]
    BY <1>1, <2>1
  <2> HIDE DEF right, left
  <2>4. /\ right \o left \in Seq(Packet \cup {None}) /\ Len(right \o left) = Len(vec)
        /\ \A i \in 1..Len(vec) :
              (right \o left)[i] = IF i <= Len(right) THEN right[i] ELSE left[i - Len(right)]
    <3>1. Len(right) + Len(left) = Len(vec)
      BY <1>1, <2>1, <2>2, <2>3
    <3>2. right \o left \in Seq(Packet \cup {None})
      BY <2>2, <2>3
    <3>3. Len(right \o left) = Len(right) + Len(left)
      <4>1. right \in Seq(Packet \cup {None}) /\ left \in Seq(Packet \cup {None})
        BY <2>2, <2>3
      <4> QED
        BY <4>1
    <3>4. \A i \in 1..(Len(right) + Len(left)) :
              (right \o left)[i] = IF i <= Len(right) THEN right[i] ELSE left[i - Len(right)]
      BY <2>2, <2>3
    <3> QED
      BY <3>1, <3>2, <3>3, <3>4
  <2>5. ASSUME NEW d \in 0..(Len(vec) - 1)
        PROVE  (right \o left)[1 + d] = vec[Slot(d)]
    BY <1>1, <2>1, <2>2, <2>3, <2>4, SlotValue
  <2> QED
    BY <2>4, <2>5 DEF Flattened, right, left
<1> QED
  BY <1>2, <1>3

-----------------------------------------------------------------------------
\* push(), part by part: how far ahead the packet is, how long the ring is
\* with it, the ring that it is put into, and the first slot of that.
Ahead(order) == (order + OrderCount - order_start) % OrderCount
Reach(d)     == IF d < Len(vec) THEN Len(vec) ELSE d + 1
Ring(d)      == IF d < Len(vec) THEN vec
                ELSE Flattened \o [i \in 1..(d + 1 - Len(vec)) |-> None]
First(d)     == IF d < Len(vec) THEN deque_start ELSE 0

\* push() takes what is less than the capacity ahead.
LEMMA PushDistance ==
  ASSUME TypeOK, NEW order \in 0..(WireOrders - 1), NEW packet, Push(order, packet)
  PROVE  Ahead(order) \in 0..(Capacity - 1)
<1>1. /\ Capacity \in Nat \ {0} /\ OrderCount \in Nat \ {0} /\ WireOrders \in 1..OrderCount
      /\ order_start \in 0..(OrderCount - 1)
  BY PacketOrdererAssumption DEF TypeOK
<1>2. order + OrderCount - order_start \in Nat
  BY <1>1
<1>3. Ahead(order) \in 0..(OrderCount - 1)
  BY <1>1, <1>2, ModRange DEF Ahead
<1>4. Ahead(order) < Capacity
  BY DEF Push, Ahead
<1> QED
  BY <1>1, <1>3, <1>4

\* The ring that push() puts its packet into, by distance from its first
\* slot: as it was, or longer and turned.
LEMMA GrownRing ==
  ASSUME TypeOK, NEW d \in 0..(Capacity - 1)
  PROVE  /\ Reach(d) \in 1..Capacity /\ d \in 0..(Reach(d) - 1)
         /\ First(d) \in 0..(Reach(d) - 1)
         /\ Ring(d) \in Seq(Packet \cup {None}) /\ Len(Ring(d)) = Reach(d)
         /\ \A x \in 0..(Reach(d) - 1) :
               Ring(d)[Place(Reach(d), First(d), x)] =
                   IF x < Len(vec) THEN vec[Slot(x)] ELSE None
<1> DEFINE n     == Reach(d)
           ring  == Ring(d)
           first == First(d)
<1>1. /\ vec \in Seq(Packet \cup {None}) /\ Len(vec) \in 0..Capacity
      /\ deque_start \in Nat /\ Capacity \in Nat \ {0}
  BY PacketOrdererAssumption DEF TypeOK
<1>2. d \in 0..(Capacity - 1)
  OBVIOUS
<1>3. n \in 1..Capacity /\ d \in 0..(n - 1)
  BY <1>1, <1>2 DEF Reach
<1> HIDE DEF n, ring, first
<1> DEFINE pad == [i \in 1..(d + 1 - Len(vec)) |-> None]
<1>4. /\ ring \in Seq(Packet \cup {None}) /\ Len(ring) = n
      /\ first \in 0..(n - 1)
      /\ \A x \in 0..(n - 1) :
            ring[Place(n, first, x)] = IF x < Len(vec) THEN vec[Slot(x)] ELSE None
  <2>1. CASE d < Len(vec)
    <3>1. /\ deque_start \in 0..(n - 1) /\ ring = vec /\ n = Len(vec) /\ first = deque_start
      BY <1>1, <1>2, <2>1 DEF TypeOK, n, ring, first, Reach, Ring, First
    <3> QED
      BY <1>1, <2>1, <3>1, SlotValue
  <2>2. CASE ~ (d < Len(vec))
    <3>1. /\ Flattened \in Seq(Packet \cup {None}) /\ Len(Flattened) = Len(vec)
          /\ \A x \in 0..(Len(vec) - 1) : Flattened[1 + x] = vec[Slot(x)]
      BY FlattenedTurns
    <3>2. d + 1 - Len(vec) \in Nat
      BY <1>1, <1>2, <2>2
    <3>3. /\ pad \in Seq(Packet \cup {None}) /\ Len(pad) = d + 1 - Len(vec)
          /\ \A i \in 1..Len(pad) : pad[i] = None
      BY <3>2
    <3> HIDE DEF pad
    <3>4. Flattened \in Seq(Packet \cup {None}) /\ pad \in Seq(Packet \cup {None})
      BY <3>1, <3>3
    <3>5. /\ Flattened \o pad \in Seq(Packet \cup {None})
          /\ Len(Flattened \o pad) = Len(Flattened) + Len(pad)
      BY <3>4
    <3>6. \A i \in 1..(Len(Flattened) + Len(pad)) :
             (Flattened \o pad)[i] =
                 IF i <= Len(Flattened) THEN Flattened[i] ELSE pad[i - Len(Flattened)]
      BY <3>4
    <3>7. Len(Flattened) + Len(pad) = n
      <4>1. n = d + 1
        BY <2>2 DEF n, Reach
      <4> QED
        BY <1>1, <1>2, <3>1, <3>2, <3>3, <4>1
    <3>8. ASSUME NEW x \in 0..(n - 1)
          PROVE  (Flattened \o pad)[1 + x] = IF x < Len(vec) THEN vec[Slot(x)] ELSE None
      <4>1. 1 + x \in 1..n /\ x \in Nat
        BY <1>3
      <4>2. CASE x < Len(vec)
        BY <1>1, <3>1, <3>6, <3>7, <4>1, <4>2
      <4>3. CASE ~ (x < Len(vec))
        <5>1. 1 + x - Len(vec) \in 1..Len(pad)
          BY <1>1, <3>1, <3>7, <4>1, <4>3, <3>2, <3>3
        <5>2. 1 + x \in 1..(Len(Flattened) + Len(pad)) /\ ~ (1 + x <= Len(Flattened))
          BY <1>1, <3>1, <3>7, <4>1, <4>3
        <5> QED
          BY <3>1, <3>3, <3>6, <4>3, <5>1, <5>2
      <4> QED
        BY <4>2, <4>3
    <3>9. ASSUME NEW x \in 0..(n - 1) PROVE Place(n, 0, x) = 1 + x
      <4>1. n \in Nat \ {0} /\ 0 \in 0..(n - 1) /\ x \in 0..n /\ 0 + x = x /\ x < n
        BY <1>3
      <4>2. Place(n, 0, x) = IF 0 + x < n THEN 1 + 0 + x ELSE 1 + 0 + x - n
        BY <4>1, PlaceValue
      <4> QED
        BY <4>1, <4>2
    <3>10. ring = Flattened \o pad /\ first = 0
      BY <2>2 DEF pad, ring, first, Ring, First
    <3>11. ASSUME NEW x \in 0..(n - 1)
           PROVE  ring[Place(n, first, x)] = IF x < Len(vec) THEN vec[Slot(x)] ELSE None
      BY <3>8, <3>9, <3>10
    <3>12. ring \in Seq(Packet \cup {None}) /\ Len(ring) = n
      BY <3>5, <3>7, <3>10, Zenon
    <3>13. first \in 0..(n - 1)
      <4>1. 0 \in 0..(n - 1)
        BY <1>1, <1>3
      <4> QED
        BY <3>10, <4>1, Zenon
    <3> QED
      BY <3>11, <3>12, <3>13, Zenon
  <2> QED
    BY <2>1, <2>2
<1> QED
  BY <1>3, <1>4 DEF n, ring, first

\* A packet put into a ring changes one place.
LEMMA RingPut ==
  ASSUME NEW n \in Nat \ {0}, NEW S, NEW ring \in Seq(S), Len(ring) = n,
         NEW s \in 0..(n - 1), NEW d \in 0..(n - 1), NEW v \in S
  PROVE  /\ [ring EXCEPT ![Place(n, s, d)] = v] \in Seq(S)
         /\ Len([ring EXCEPT ![Place(n, s, d)] = v]) = n
         /\ \A x \in 0..(n - 1) :
               [ring EXCEPT ![Place(n, s, d)] = v][Place(n, s, x)] =
                   IF x = d THEN v ELSE ring[Place(n, s, x)]
<1>1. \A x \in 0..(n - 1) : Place(n, s, x) \in 1..n
  <2>1. \A x \in 0..(n - 1) : x \in 0..n
    OBVIOUS
  <2> QED
    BY <2>1, PlaceValue
<1>2. \A x \in 0..(n - 1) : x # d => Place(n, s, x) # Place(n, s, d)
  BY PlacesDiffer
<1> QED
  BY <1>1, <1>2

\* What push() leaves behind, by distance from the start: the packet is in its
\* place, and all others are where they were.
LEMMA PushPlaces ==
  ASSUME TypeOK, NEW order \in 0..(WireOrders - 1), NEW packet \in Packet,
         Push(order, packet)
  PROVE  LET d == Ahead(order)
             n == Reach(d)
         IN /\ d \in 0..(Capacity - 1) /\ n \in 1..Capacity /\ d \in 0..(n - 1)
            /\ vec' \in Seq(Packet \cup {None}) /\ Len(vec') = n
            /\ deque_start' \in 0..(n - 1)
            /\ \A x \in 0..(n - 1) :
                  vec'[Place(n, deque_start', x)] =
                      IF x = d THEN packet ELSE IF x < Len(vec) THEN vec[Slot(x)] ELSE None
<1> DEFINE d     == Ahead(order)
           n     == Reach(d)
           ring  == Ring(d)
           first == First(d)
           S     == Packet \cup {None}
<1>1. d \in 0..(Capacity - 1)
  BY PushDistance
<1>2. /\ vec' = [ring EXCEPT ![Place(Len(ring), first, d)] = packet]
      /\ deque_start' = first
  BY DEF Push, Ahead, Ring, First, Place
<1> HIDE DEF d
<1>3. /\ n \in 1..Capacity /\ d \in 0..(n - 1) /\ first \in 0..(n - 1)
      /\ ring \in Seq(S) /\ Len(ring) = n
      /\ \A x \in 0..(n - 1) :
            ring[Place(n, first, x)] = IF x < Len(vec) THEN vec[Slot(x)] ELSE None
  BY <1>1, GrownRing
<1>4. packet \in S /\ n \in Nat \ {0}
  BY <1>3, PacketOrdererAssumption
<1> HIDE DEF n, ring, first, S
<1>5. /\ [ring EXCEPT ![Place(n, first, d)] = packet] \in Seq(S)
      /\ Len([ring EXCEPT ![Place(n, first, d)] = packet]) = n
      /\ \A x \in 0..(n - 1) :
            [ring EXCEPT ![Place(n, first, d)] = packet][Place(n, first, x)] =
                IF x = d THEN packet ELSE ring[Place(n, first, x)]
  BY <1>3, <1>4, RingPut
<1>6. /\ vec' \in Seq(S) /\ Len(vec') = n
      /\ \A x \in 0..(n - 1) :
            vec'[Place(n, first, x)] = IF x = d THEN packet ELSE ring[Place(n, first, x)]
  BY <1>2, <1>3, <1>5
<1>7. \A x \in 0..(n - 1) :
         vec'[Place(n, first, x)] =
             IF x = d THEN packet ELSE IF x < Len(vec) THEN vec[Slot(x)] ELSE None
  BY <1>3, <1>6
<1> QED
  BY <1>1, <1>2, <1>3, <1>6, <1>7 DEF d, n, S

\* What retain() leaves behind when it empties the slots of m distances and
\* moves the start by n: what was further ahead is n nearer now.
LEMMA RetainPlaces ==
  ASSUME TypeOK, vec # <<>>, NEW n \in 0..Len(vec), NEW m \in n..Len(vec),
         vec' = [i \in DOMAIN vec |->
                    IF i \in {Slot(d) : d \in 0..(m - 1)} THEN None ELSE vec[i]],
         deque_start' = (deque_start + n) % Len(vec)
  PROVE  /\ vec' \in Seq(Packet \cup {None}) /\ Len(vec') = Len(vec)
         /\ deque_start' \in 0..(Len(vec) - 1)
         /\ \A x \in 0..(Len(vec) - 1) :
               vec'[Place(Len(vec), deque_start', x)] =
                   IF x + n \in m..(Len(vec) - 1) THEN vec[Slot(x + n)] ELSE None
<1>1. /\ vec \in Seq(Packet \cup {None}) /\ Len(vec) \in Nat \ {0}
      /\ deque_start \in 0..(Len(vec) - 1)
  BY DEF TypeOK
<1>2. vec' \in Seq(Packet \cup {None}) /\ Len(vec') = Len(vec)
  BY <1>1
<1>3. deque_start' \in 0..(Len(vec) - 1)
  BY <1>1, PlaceShift
<1>4. ASSUME NEW x \in 0..(Len(vec) - 1)
      PROVE  vec'[Place(Len(vec), deque_start', x)] =
                 IF x + n \in m..(Len(vec) - 1) THEN vec[Slot(x + n)] ELSE None
  <2> DEFINE slot == Place(Len(vec), deque_start', x)
             was  == IF x + n < Len(vec) THEN x + n ELSE x + n - Len(vec)
  <2>1. /\ was \in 0..(Len(vec) - 1) /\ was \in 0..Len(vec) /\ x \in 0..Len(vec)
    BY <1>1
  <2>2. slot = Slot(was) /\ slot \in 1..Len(vec)
    <3>1. slot = Place(Len(vec), deque_start, was)
      BY <1>1, PlaceShift
    <3> HIDE DEF slot, was
    <3> QED
      BY <2>1, <3>1, SlotValue
  <2>3. (slot \in {Slot(d) : d \in 0..(m - 1)}) <=> was < m
    <3>1. ASSUME NEW d \in 0..(m - 1), slot = Slot(d) PROVE was = d
      <4>1. d \in 0..(Len(vec) - 1)
        BY <1>1
      <4> QED
        BY <2>1, <2>2, <3>1, <4>1, SlotsDiffer
    <3> QED
      BY <1>1, <2>1, <2>2, <3>1
  <2> HIDE DEF slot
  <2>4. vec'[slot] = IF was < m THEN None ELSE vec[slot]
    BY <1>1, <2>2, <2>3
  <2>5. CASE x + n < Len(vec)
    BY <1>1, <2>2, <2>4, <2>5 DEF slot
  <2>6. CASE ~ (x + n < Len(vec))
    BY <1>1, <2>2, <2>4, <2>6 DEF slot
  <2> QED
    BY <2>5, <2>6
<1> QED
  BY <1>2, <1>3, <1>4

-----------------------------------------------------------------------------
\* The packets a retain() hands over are packets.
LEMMA HandedOver ==
  ASSUME TypeOK, NEW n \in 0..Filled
  PROVE  [i \in 1..n |-> vec[Slot(i - 1)]] \in Seq(Packet)
<1>1. /\ vec \in Seq(Packet \cup {None}) /\ Len(vec) \in Nat /\ Filled \in 0..Len(vec)
  BY FilledCounts DEF TypeOK
<1>2. ASSUME NEW i \in 1..n PROVE vec[Slot(i - 1)] \in Packet
  <2>1. i - 1 \in 0..(Filled - 1) /\ i - 1 \in 0..(Len(vec) - 1)
    BY <1>1
  <2>2. vec[Slot(i - 1)] # None /\ Slot(i - 1) \in 1..Len(vec)
    BY <2>1, FilledCounts, SlotValue
  <2> QED
    BY <1>1, <2>2
<1>3. n \in Nat
  BY <1>1
<1> QED
  BY <1>2, <1>3

\* The ring is well formed and within the capacity of its channel after any
\* sequence of packets, hand-overs and failures.
THEOREM TypeCorrect == Spec => []TypeOK
<1>1. Init => TypeOK
  BY PacketOrdererAssumption DEF Init, TypeOK
<1>2. TypeOK /\ [Next]_vars => TypeOK'
  <2> SUFFICES ASSUME TypeOK, [Next]_vars PROVE TypeOK'
    OBVIOUS
  <2>1. /\ Len(vec) \in 0..Capacity /\ Capacity \in Nat \ {0} /\ OrderCount \in Nat \ {0}
        /\ order_start \in 0..(OrderCount - 1) /\ WireOrders \in 1..OrderCount
    BY PacketOrdererAssumption DEF TypeOK
  <2>2. ASSUME NEW order \in 0..(WireOrders - 1), NEW packet \in Packet, Push(order, packet)
        PROVE  TypeOK'
    <3> DEFINE n == Reach(Ahead(order))
    <3>1. /\ n \in 1..Capacity
          /\ vec' \in Seq(Packet \cup {None}) /\ Len(vec') = n
          /\ deque_start' \in 0..(n - 1)
      BY <2>2, PushPlaces
    <3> HIDE DEF n
    <3>2. order_start' = order_start /\ out' = out
      BY <2>2 DEF Push
    <3> QED
      BY <2>1, <3>1, <3>2 DEF TypeOK
  <2>3. ASSUME NEW n \in 0..Len(vec), NEW m \in n..Len(vec), vec # <<>>, n <= Filled,
               vec' = [i \in DOMAIN vec |->
                          IF i \in {Slot(d) : d \in 0..(m - 1)} THEN None ELSE vec[i]],
               order_start' = (order_start + n) % OrderCount,
               deque_start' = (deque_start + n) % Len(vec),
               out' = [i \in 1..n |-> vec[Slot(i - 1)]]
        PROVE  TypeOK'
    <3>1. /\ vec' \in Seq(Packet \cup {None}) /\ Len(vec') = Len(vec)
          /\ deque_start' \in 0..(Len(vec) - 1)
      BY <2>3, RetainPlaces
    <3>2. order_start' \in 0..(OrderCount - 1)
      <4>1. order_start + n \in Nat
        BY <2>1
      <4> QED
        BY <2>1, <2>3, <4>1, ModRange
    <3>3. out' \in Seq(Packet)
      <4>1. n \in 0..Filled
        BY <2>1, <2>3, FilledCounts
      <4> QED
        BY <2>3, <4>1, HandedOver
    <3> QED
      BY <2>1, <3>1, <3>2, <3>3 DEF TypeOK
  <2>4. CASE Retain
    <3>1. Filled \in 0..Len(vec) /\ Filled \in Filled..Len(vec)
      BY <2>1, FilledCounts
    <3> QED
      BY <2>3, <2>4, <3>1 DEF Retain
  <2>5. ASSUME NEW n \in 0..(Capacity - 1), RetainFailing(n)
        PROVE  TypeOK'
    <3>1. /\ Filled \in 0..Len(vec) /\ n < Filled
      BY <2>5, FilledCounts DEF RetainFailing
    <3>2. /\ n \in 0..Len(vec) /\ n + 1 \in n..Len(vec) /\ (n + 1) - 1 = n /\ n <= Filled
      BY <2>1, <3>1
    <3>3. vec # <<>>
      BY <2>1, <3>1
    <3>4. /\ vec' = [i \in DOMAIN vec |->
                         IF i \in {Slot(d) : d \in 0..((n + 1) - 1)} THEN None ELSE vec[i]]
          /\ order_start' = (order_start + n) % OrderCount
          /\ deque_start' = (deque_start + n) % Len(vec)
          /\ out' = [i \in 1..n |-> vec[Slot(i - 1)]]
      BY <2>5, <3>2 DEF RetainFailing
    <3> QED
      BY <2>3, <3>2, <3>3, <3>4
  <2>6. CASE UNCHANGED vars
    BY <2>6 DEF vars, TypeOK
  <2> QED
    BY <2>2, <2>4, <2>5, <2>6 DEF Next
<1> QED
  BY <1>1, <1>2, PTL DEF Spec

-----------------------------------------------------------------------------
\* The window that the ring stands for.
Held == {x \in 0..(Len(vec) - 1) : vec[Slot(x)] # None}
Shown == [start |-> order_start, ahead |-> [d \in Held |-> vec[Slot(d)]]]

\* It is the one of the refinement.
LEMMA ShownByAbs ==
  /\ Abs!Init = (Shown = Abs!EmptyWindow /\ out = <<>>)
  /\ \A order, packet : Abs!Push(order, packet) =
        (/\ Abs!Accepts(Shown, order, Capacity)
         /\ Shown' = Abs!Put(Shown, order, packet)
         /\ UNCHANGED out)
  /\ Abs!Deliver = (Shown' = Abs!Drained(Shown) /\ out' = Abs!Run(Shown))
  /\ \A n : Abs!DeliverFailing(n) =
        (/\ n < Abs!RunLength(Shown)
         /\ Shown' = Abs!Advance(Shown, n, {n})
         /\ out' = SubSeq(Abs!Run(Shown), 1, n))
BY DEF Abs!Init, Abs!Push, Abs!Deliver, Abs!DeliverFailing, Shown, Held

\* What a run of the window is, is what is filled in the ring.
LEMMA RunIsFilled ==
  ASSUME TypeOK
  PROVE  /\ Abs!RunLength(Shown) = Filled
         /\ Abs!Run(Shown) = [i \in 1..Filled |-> vec[Slot(i - 1)]]
<1>1. /\ Len(vec) \in Nat /\ Filled \in 0..Len(vec)
      /\ \A d \in 0..(Filled - 1) : vec[Slot(d)] # None
      /\ Filled < Len(vec) => vec[Slot(Filled)] = None
  BY FilledCounts DEF TypeOK
<1>2. Held \in SUBSET Nat /\ IsFiniteSet(Held)
  <2>1. Held \subseteq 0..(Len(vec) - 1)
    BY DEF Held
  <2>2. IsFiniteSet(0..(Len(vec) - 1))
    BY <1>1, FS_Interval
  <2>3. 0..(Len(vec) - 1) \subseteq Nat
    BY <1>1
  <2>4. IsFiniteSet(Held)
    BY <2>1, <2>2, FS_Subset
  <2> QED
    BY <2>1, <2>3, <2>4
<1>3. 0..(Filled - 1) \subseteq Held /\ Filled \notin Held /\ Filled \in Nat
  BY <1>1 DEF Held
<1>4. DOMAIN Shown.ahead = Held /\ \A d \in Held : Shown.ahead[d] = vec[Slot(d)]
  BY DEF Shown
<1>5. Abs!RunLength(Shown) = Filled
  <2>1. Abs!RunLength(Shown) =
            CHOOSE k \in 0..Cardinality(Held) : 0..k \cap Held = {d \in 0..k : d < k}
    <3>1. Abs!RunLength(Shown) =
              CHOOSE k \in 0..Cardinality(DOMAIN Shown.ahead) :
                  0..k \cap DOMAIN Shown.ahead = {d \in 0..k : d < k}
      BY Zenon DEF Abs!RunLength, Abs!Cardinality, Cardinality
    <3> QED
      BY <1>4, <3>1, Zenon
  <2> QED
    BY <1>2, <1>3, <2>1, FirstGap
<1>6. \A i \in 1..Filled : i - 1 \in 0..(Filled - 1)
  BY <1>1
<1>7. Abs!Run(Shown) = [i \in 1..Filled |-> Shown.ahead[i - 1]]
  BY <1>5 DEF Abs!Run
<1> QED
  BY <1>3, <1>4, <1>5, <1>6, <1>7

\* push() is a packet put into the window.
LEMMA PushPuts ==
  ASSUME TypeOK, NEW order \in 0..(WireOrders - 1), NEW packet \in Packet,
         Push(order, packet)
  PROVE  Abs!Push(order, packet)
<1> DEFINE d == Ahead(order)
           n == Reach(d)
           At(x) == vec'[Place(n, deque_start', x)]
<1>1. /\ d \in 0..(Capacity - 1) /\ n \in 1..Capacity /\ d \in 0..(n - 1)
      /\ Len(vec') = n
      /\ \A x \in 0..(n - 1) :
            At(x) = IF x = d THEN packet ELSE IF x < Len(vec) THEN vec[Slot(x)] ELSE None
  BY PushPlaces
<1>2. n = IF d < Len(vec) THEN Len(vec) ELSE d + 1
  BY DEF Reach
<1>3. /\ Capacity \in Nat /\ Len(vec) \in Nat /\ None \notin Packet
  BY PacketOrdererAssumption DEF TypeOK
<1>4. d = Abs!Distance(Shown, order)
  BY DEF Shown, Ahead, Abs!Distance
<1>5. order_start' = order_start /\ out' = out
  BY DEF Push
<1>6. Shown' = [start |-> order_start,
                ahead |-> [x \in {y \in 0..(n - 1) : At(y) # None} |-> At(x)]]
  BY <1>1, <1>5 DEF Shown, Held, Slot, Place
<1> HIDE DEF d, n, At
<1>7. {y \in 0..(n - 1) : At(y) # None} = Held \cup {d}
  <2>1. ASSUME NEW y \in 0..(n - 1) PROVE At(y) # None <=> y \in Held \cup {d}
    BY <1>1, <1>2, <1>3 DEF Held
  <2>2. Held \subseteq 0..(n - 1)
    BY <1>1, <1>2, <1>3 DEF Held
  <2> QED
    BY <1>1, <2>1, <2>2
<1>8. \A x \in Held \cup {d} : At(x) = IF x = d THEN packet ELSE vec[Slot(x)]
  BY <1>1, <1>2, <1>3 DEF Held
<1>9. Shown' = [start |-> order_start,
                ahead |-> [x \in Held \cup {d} |-> IF x = d THEN packet ELSE vec[Slot(x)]]]
  BY <1>6, <1>7, <1>8
<1>10. Abs!Put(Shown, order, packet) =
          [start |-> order_start,
           ahead |-> [x \in Held \cup {d} |-> IF x = d THEN packet ELSE vec[Slot(x)]]]
  BY <1>4 DEF Abs!Put, Shown
<1>11. Abs!Accepts(Shown, order, Capacity)
  BY <1>1, <1>3, <1>4 DEF Abs!Accepts
<1> QED
  BY <1>5, <1>9, <1>10, <1>11, ShownByAbs

\* retain() moves the window on by the packets taken; one that was taken out
\* and refused is gone.
LEMMA RetainAdvances ==
  ASSUME TypeOK, vec # <<>>, NEW n \in 0..Len(vec), NEW m \in n..Len(vec),
         NEW gone, gone = n..(m - 1),
         vec' = [i \in DOMAIN vec |->
                    IF i \in {Slot(d) : d \in 0..(m - 1)} THEN None ELSE vec[i]],
         order_start' = (order_start + n) % OrderCount,
         deque_start' = (deque_start + n) % Len(vec)
  PROVE  Shown' = Abs!Advance(Shown, n, gone)
<1> DEFINE At(x)   == vec'[Place(Len(vec), deque_start', x)]
           left    == {y \in 0..(Len(vec) - 1) : At(y) # None}
           nearer  == {x - n : x \in {y \in Held \ gone : y >= n}}
<1>1. /\ Len(vec) \in Nat /\ Len(vec') = Len(vec)
      /\ \A x \in 0..(Len(vec) - 1) :
            At(x) = IF x + n \in m..(Len(vec) - 1) THEN vec[Slot(x + n)] ELSE None
  <2>1. /\ Len(vec') = Len(vec)
        /\ \A x \in 0..(Len(vec) - 1) :
              vec'[Place(Len(vec), deque_start', x)] =
                  IF x + n \in m..(Len(vec) - 1) THEN vec[Slot(x + n)] ELSE None
    BY RetainPlaces
  <2>2. Len(vec) \in Nat
    BY DEF TypeOK
  <2> QED
    BY <2>1, <2>2
<1>2. Shown' = [start |-> (order_start + n) % OrderCount, ahead |-> [x \in left |-> At(x)]]
  BY <1>1 DEF Shown, Held, Slot, Place
<1>3. Abs!Advance(Shown, n, gone) =
          [start |-> (order_start + n) % OrderCount,
           ahead |-> [x \in nearer |-> Shown.ahead[x + n]]]
  BY DEF Abs!Advance, Shown
<1>4. n \in 0..Len(vec) /\ m \in n..Len(vec) /\ gone = n..(m - 1)
  OBVIOUS
<1> HIDE DEF At
<1>5. left = nearer
  <2>1. ASSUME NEW x \in left PROVE x \in nearer
    <3>1. /\ x \in 0..(Len(vec) - 1) /\ At(x) # None
      OBVIOUS
    <3>2. x + n \in m..(Len(vec) - 1) /\ vec[Slot(x + n)] # None
      BY <1>1, <3>1
    <3>3. /\ x + n \in 0..(Len(vec) - 1) /\ x + n \notin gone /\ x + n >= n /\ (x + n) - n = x
      BY <1>1, <1>4, <3>1, <3>2
    <3>4. x + n \in {y \in Held \ gone : y >= n}
      BY <3>2, <3>3 DEF Held
    <3> QED
      BY <3>3, <3>4
  <2>2. ASSUME NEW y \in Held \ gone, y >= n PROVE y - n \in left
    <3>1. /\ y \in 0..(Len(vec) - 1) /\ vec[Slot(y)] # None
      BY DEF Held
    <3>2. /\ y - n \in 0..(Len(vec) - 1) /\ (y - n) + n = y /\ y \in m..(Len(vec) - 1)
      BY <1>1, <1>4, <2>2, <3>1
    <3>3. At(y - n) = vec[Slot(y)]
      BY <1>1, <3>2
    <3> QED
      BY <3>1, <3>2, <3>3
  <2> QED
    BY <2>1, <2>2
<1>6. \A x \in left : At(x) = Shown.ahead[x + n]
  <2> SUFFICES ASSUME NEW x \in left PROVE At(x) = Shown.ahead[x + n]
    OBVIOUS
  <2>1. /\ x \in 0..(Len(vec) - 1) /\ At(x) # None
    OBVIOUS
  <2>2. x + n \in m..(Len(vec) - 1) /\ At(x) = vec[Slot(x + n)]
    BY <1>1, <2>1
  <2>3. x + n \in Held
    BY <1>1, <1>4, <2>1, <2>2 DEF Held
  <2> QED
    BY <2>2, <2>3 DEF Shown
<1> HIDE DEF left, nearer
<1> QED
  BY <1>2, <1>3, <1>5, <1>6

\* The packet orderer implements a reorder window: packets go out in order,
\* without a gap and each once, for any capacity, any number of orders and any
\* sequence of arrivals, through growth, rotation and wrap-around.
THEOREM OrdererImplementsReorderWindow == Spec => ImplementsReorderWindow
<1>1. Init => Abs!Init
  <2> SUFFICES ASSUME Init PROVE Shown = Abs!EmptyWindow /\ out = <<>>
    BY ShownByAbs
  <2>1. Held = {}
    BY DEF Init, Held
  <2> QED
    BY <2>1 DEF Init, Shown, Abs!EmptyWindow
<1>2. TypeOK /\ [Next]_vars => [Abs!Next]_(Abs!vars)
  <2> SUFFICES ASSUME TypeOK, [Next]_vars PROVE [Abs!Next]_(Abs!vars)
    OBVIOUS
  <2>1. /\ Len(vec) \in Nat /\ WireOrders \in 1..OrderCount /\ OrderCount \in Nat
    BY PacketOrdererAssumption DEF TypeOK
  <2>2. ASSUME NEW order \in 0..(WireOrders - 1), NEW packet \in Packet, Push(order, packet)
        PROVE  Abs!Next
    <3>1. order \in 0..(OrderCount - 1)
      BY <2>1
    <3>2. Abs!Push(order, packet)
      BY <2>2, PushPuts
    <3> QED
      BY <3>1, <3>2 DEF Abs!Next
  <2>3. CASE Retain
    <3> DEFINE n == Filled
    <3>1. /\ n \in 0..Len(vec) /\ n \in n..Len(vec) /\ n..(n - 1) = {}
      BY <2>1, FilledCounts
    <3>2. Shown' = Abs!Advance(Shown, n, {})
      BY <2>3, <3>1, RetainAdvances DEF Retain
    <3>3. Abs!Deliver
      BY <2>3, <3>2, RunIsFilled, ShownByAbs DEF Retain, Abs!Drained
    <3> QED
      BY <3>3 DEF Abs!Next
  <2>4. ASSUME NEW n \in 0..(Capacity - 1), RetainFailing(n)
        PROVE  Abs!Next
    <3> DEFINE m == n + 1
    <3>1. /\ Filled \in 0..Len(vec) /\ n < Filled
      BY <2>4, FilledCounts DEF RetainFailing
    <3>2. /\ n \in 0..Len(vec) /\ m \in n..Len(vec) /\ m - 1 = n /\ n..(m - 1) = {n}
          /\ vec # <<>>
      BY <2>1, <3>1
    <3>3. /\ vec' = [i \in DOMAIN vec |->
                         IF i \in {Slot(d) : d \in 0..(m - 1)} THEN None ELSE vec[i]]
          /\ order_start' = (order_start + n) % OrderCount
          /\ deque_start' = (deque_start + n) % Len(vec)
          /\ out' = [i \in 1..n |-> vec[Slot(i - 1)]]
      BY <2>4, <3>2 DEF RetainFailing
    <3> HIDE DEF m
    <3>4. Shown' = Abs!Advance(Shown, n, {n})
      BY <3>2, <3>3, RetainAdvances
    <3>5. SubSeq(Abs!Run(Shown), 1, n) = [i \in 1..n |-> vec[Slot(i - 1)]]
      <4> DEFINE run == [i \in 1..Filled |-> vec[Slot(i - 1)]]
      <4>1. Abs!Run(Shown) = run
        BY RunIsFilled
      <4>2. SubSeq(run, 1, n) = [i \in 1..n |-> run[i]]
        BY <3>1
      <4>3. \A i \in 1..n : run[i] = vec[Slot(i - 1)]
        BY <3>1
      <4> QED
        BY <4>1, <4>2, <4>3
    <3>6. Abs!DeliverFailing(n)
      BY <3>1, <3>3, <3>4, <3>5, RunIsFilled, ShownByAbs
    <3> QED
      BY <3>6 DEF Abs!Next
  <2>5. CASE UNCHANGED vars
    BY <2>5 DEF vars, Abs!vars, Slot
  <2> QED
    BY <2>2, <2>3, <2>4, <2>5 DEF Next
<1> QED
  BY <1>1, <1>2, TypeCorrect, PTL DEF Spec, ImplementsReorderWindow, Abs!Spec
=============================================================================
