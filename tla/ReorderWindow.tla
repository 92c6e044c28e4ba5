--------------------------- MODULE ReorderWindow ----------------------------
(***************************************************************************)
(* What a packet orderer promises: packets come in any order and go out    *)
(* one by one, in order, each as soon as it and all before it are there.   *)
(***************************************************************************)
EXTENDS Window, Sequences

CONSTANTS Packet,     \* what arrives
          Capacity    \* how far ahead a packet may be

VARIABLES window,     \* the window, see Window
          out         \* what the last hand-over delivered

vars == <<window, out>>

Init == /\ window = EmptyWindow
        /\ out = <<>>

Push(order, packet) ==
    /\ Accepts(window, order, Capacity)
    /\ window' = Put(window, order, packet)
    /\ UNCHANGED out

\* Everything without a gap goes out.
Deliver ==
    /\ window' = Drained(window)
    /\ out' = Run(window)

\* The receiver takes n packets and fails on the next one, which is gone.
DeliverFailing(n) ==
    /\ n < RunLength(window)
    /\ window' = Advance(window, n, {n})
    /\ out' = SubSeq(Run(window), 1, n)

Next == \/ \E order \in 0..(OrderCount - 1), packet \in Packet : Push(order, packet)
        \/ Deliver
        \/ \E n \in 0..(Capacity - 1) : DeliverFailing(n)

Spec == Init /\ [][Next]_vars
=============================================================================
