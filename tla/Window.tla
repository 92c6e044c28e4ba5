------------------------------- MODULE Window -------------------------------
(***************************************************************************)
(* A reorder window: the next order a channel hands over and the packets   *)
(* that arrived ahead of it, by their distance from it.  PacketOrderer is  *)
(* shown to implement these operators (ReorderWindow), and Connection uses *)
(* them for the windows of its channels.                                   *)
(***************************************************************************)
EXTENDS Naturals, FiniteSets

CONSTANT OrderCount   \* orders are counted modulo this, 2^64 for a usize

ASSUME OrderCountAssumption == OrderCount \in Nat \ {0}

EmptyWindow == [start |-> 0, ahead |-> [d \in {} |-> d]]

\* order.wrapping_sub(order_start)
Distance(w, order) == (order + OrderCount - w.start) % OrderCount

\* A packet is refused when it is capacity or more ahead; one that is behind
\* wraps around and counts as very far ahead.
Accepts(w, order, capacity) == Distance(w, order) < capacity

Put(w, order, packet) ==
    LET d == Distance(w, order) IN
    [w EXCEPT !.ahead = [x \in DOMAIN @ \cup {d} |-> IF x = d THEN packet ELSE @[x]]]

\* The packets that can be handed over are those ahead without a gap.
RunLength(w) ==
    CHOOSE n \in 0..Cardinality(DOMAIN w.ahead) :
        0..n \cap DOMAIN w.ahead = {d \in 0..n : d < n}

Run(w) == [i \in 1..RunLength(w) |-> w.ahead[i - 1]]

\* The window n orders later, without the packets in gone.
Advance(w, n, gone) ==
    [start |-> (w.start + n) % OrderCount,
     ahead |-> [d \in {x - n : x \in {y \in DOMAIN w.ahead \ gone : y >= n}} |->
                   w.ahead[d + n]]]

Drained(w) == Advance(w, RunLength(w), {})
=============================================================================
