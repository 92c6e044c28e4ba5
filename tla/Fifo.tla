-------------------------------- MODULE Fifo --------------------------------
(***************************************************************************)
(* What a queue between threads promises: what is put in comes out, all of *)
(* it, once and in the order in which it was put in.                       *)
(***************************************************************************)
EXTENDS Naturals, Sequences

CONSTANT Value     \* what is passed on

VARIABLES pending,    \* put in and not yet taken
          delivered   \* taken, so far

vars == <<pending, delivered>>

Init == pending = <<>> /\ delivered = <<>>

Put ==
    /\ pending' \in Seq(Value)
    /\ Len(pending) < Len(pending')
    /\ SubSeq(pending', 1, Len(pending)) = pending
    /\ UNCHANGED delivered

Take(n) ==
    /\ delivered' = delivered \o SubSeq(pending, 1, n)
    /\ pending' = SubSeq(pending, n + 1, Len(pending))

Next == \/ Put
        \/ \E n \in 1..Len(pending) : Take(n)

Spec == Init /\ [][Next]_vars
=============================================================================
