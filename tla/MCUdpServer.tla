---------------------------- MODULE MCUdpServer -----------------------------
(***************************************************************************)
(* The instances of UdpServer that TLC checks.  Commands are bounded in    *)
(* number, packets by the length of the queue they wait in.                *)
(***************************************************************************)
EXTENDS UdpServer

CONSTANT p

Peers == {p}
=============================================================================
