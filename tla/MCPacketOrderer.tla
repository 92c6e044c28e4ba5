-------------------------- MODULE MCPacketOrderer ---------------------------
(***************************************************************************)
(* The instance of PacketOrderer that TLC checks: a ring that grows to     *)
(* four slots, two payloads, and orders that wrap around after eight, so   *)
(* that the window crosses the wrap-around in every position of the ring.  *)
(***************************************************************************)
EXTENDS PacketOrderer
=============================================================================
