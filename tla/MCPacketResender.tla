-------------------------- MODULE MCPacketResender --------------------------
(***************************************************************************)
(* The instance of PacketResender that TLC checks: a packet of a channel   *)
(* that is never resent and one that is resent twice, at intervals that    *)
(* the updates meet, miss and overshoot.  Three places are enough for two  *)
(* to be given back in either order; with three generations a place is     *)
(* used again, cleared and used again while old keys are still around.     *)
(***************************************************************************)
EXTENDS PacketResender, TLC

CONSTANTS once, thrice

Packets   == {once, thrice}
Intervals == (once :> 3) @@ (thrice :> 2)
Attempts  == (once :> 0) @@ (thrice :> 2)
Passing   == {2}
=============================================================================
