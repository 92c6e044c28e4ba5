----------------------------- MODULE MCSegments ------------------------------
(***************************************************************************)
(* Instances of Segments for TLC: messages of three, one and three packets.*)
(***************************************************************************)
EXTENDS Segments

Messages == << <<7, 0, 2, 1, 1, 3, 0, 6>>, <<5, 7, 4, 2>>, <<1, 2, 3, 0, 6, 4, 2>> >>
=============================================================================
