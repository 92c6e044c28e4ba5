--------------------------- MODULE PacketOrderer ----------------------------
(***************************************************************************)
(* PacketOrderer of src/net/ordering.rs: a ring of optional packets that   *)
(* grows on demand and is rotated back to its start (flatten) before it    *)
(* grows.  Orders wrap around like the usize they are.                     *)
(***************************************************************************)
EXTENDS Naturals, Sequences, FiniteSets

CONSTANTS Packet,       \* payloads
          None,         \* Option::None
          Capacity,     \* of the channel, NonZero
          OrderCount,   \* 2^64, the values of a usize
          WireOrders    \* 2^32: push() gets an order that was a u32 on the wire

ASSUME PacketOrdererAssumption ==
    /\ None \notin Packet
    /\ Capacity \in Nat \ {0}
    /\ OrderCount \in Nat \ {0}
    /\ WireOrders \in 1..OrderCount
    /\ Capacity <= OrderCount

VARIABLES vec,           \* Vec<Option<Vec<u8>>>, slot i of the code is vec[i + 1]
          order_start,   \* the next order to hand over
          deque_start,   \* the slot of that order
          out            \* the packets the last retain() gave to its callback

vars == <<vec, order_start, deque_start, out>>

\* The slot of the order that is d after the next one.
Slot(d) == 1 + ((deque_start + d) % Len(vec))

\* How many slots from deque_start on hold a packet.
Filled == CHOOSE n \in 0..Len(vec) :
              /\ \A d \in 0..(n - 1) : vec[Slot(d)] # None
              /\ n < Len(vec) => vec[Slot(n)] = None

\* flatten(): the ring turned so that the next order is in slot 0.
Flattened == SubSeq(vec, deque_start + 1, Len(vec)) \o SubSeq(vec, 1, deque_start)
-----------------------------------------------------------------------------
Init == /\ vec = <<>>
        /\ order_start = 0
        /\ deque_start = 0
        /\ out = <<>>

\* Bug: the ring grows without being turned first.
PushUnflattened(order, packet) ==
    LET d     == (order + OrderCount - order_start) % OrderCount
        grown == IF d < Len(vec) THEN vec
                 ELSE vec \o [i \in 1..(d + 1 - Len(vec)) |-> None]
    IN /\ d < Capacity
       /\ vec' = [grown EXCEPT ![1 + ((deque_start + d) % Len(grown))] = packet]
       /\ UNCHANGED <<order_start, deque_start, out>>

\* Bug: the capacity test lets one order too many in.
PushOneTooFar(order, packet) ==
    LET d     == (order + OrderCount - order_start) % OrderCount
        fits  == d < Len(vec)
        ring  == IF fits THEN vec
                 ELSE Flattened \o [i \in 1..(d + 1 - Len(vec)) |-> None]
        first == IF fits THEN deque_start ELSE 0
    IN /\ d <= Capacity
       /\ vec' = [ring EXCEPT ![1 + ((first + d) % Len(ring))] = packet]
       /\ deque_start' = first
       /\ UNCHANGED <<order_start, out>>

\* push(): refused, with nothing changed, when the order is capacity or more
\* ahead (or behind, which wraps around).  A packet of the same order that is
\* still held is replaced.
Push(order, packet) ==
    LET d     == (order + OrderCount - order_start) % OrderCount
        fits  == d < Len(vec)
        ring  == IF fits THEN vec
                 ELSE Flattened \o [i \in 1..(d + 1 - Len(vec)) |-> None]
        first == IF fits THEN deque_start ELSE 0
    IN /\ d < Capacity
       /\ vec' = [ring EXCEPT ![1 + ((first + d) % Len(ring))] = packet]
       /\ deque_start' = first
       /\ UNCHANGED <<order_start, out>>

\* retain() with a callback that takes everything.  vec[deque_start] would
\* panic on an empty ring; handle_message calls it after a push only.
Retain ==
    /\ vec # <<>>
    /\ vec' = [i \in DOMAIN vec |->
                  IF i \in {Slot(d) : d \in 0..(Filled - 1)} THEN None ELSE vec[i]]
    /\ order_start' = (order_start + Filled) % OrderCount
    /\ deque_start' = (deque_start + Filled) % Len(vec)
    /\ out' = [i \in 1..Filled |-> vec[Slot(i - 1)]]

\* retain() with a callback that fails after n packets: the failing packet
\* has been taken out, the start has not moved past it.
RetainFailing(n) ==
    /\ n < Filled
    /\ vec' = [i \in DOMAIN vec |->
                  IF i \in {Slot(d) : d \in 0..n} THEN None ELSE vec[i]]
    /\ order_start' = (order_start + n) % OrderCount
    /\ deque_start' = (deque_start + n) % Len(vec)
    /\ out' = [i \in 1..n |-> vec[Slot(i - 1)]]

Next == \/ \E order \in 0..(WireOrders - 1), packet \in Packet : Push(order, packet)
        \/ Retain
        \/ \E n \in 0..(Capacity - 1) : RetainFailing(n)

Spec == Init /\ [][Next]_vars
-----------------------------------------------------------------------------
\* Types; the ring never outgrows the capacity of its channel, however far
\* ahead the packets come, and the start stays inside it.
TypeOK ==
    /\ vec \in Seq(Packet \cup {None})
    /\ Len(vec) <= Capacity
    /\ order_start \in 0..(OrderCount - 1)
    /\ deque_start \in 0..(Capacity - 1)
    /\ deque_start < Len(vec) \/ (vec = <<>> /\ deque_start = 0)
    /\ out \in Seq(Packet)

\* Refinement: the ring is a reorder window, so packets go out in order,
\* without a gap and each once, across growth, rotation and wrap-around.
Abs == INSTANCE ReorderWindow WITH
           window <- [start |-> order_start,
                      ahead |-> [d \in {x \in 0..(Len(vec) - 1) : vec[Slot(x)] # None} |->
                                    vec[Slot(d)]]]

ImplementsReorderWindow == Abs!Spec
=============================================================================
