----------------------------- MODULE MCChannel ------------------------------
(***************************************************************************)
(* The instance of ManyToSingleChannel that TLC checks: two producers, so  *)
(* that one may notify for the other, and more values than a bunch holds.  *)
(***************************************************************************)
EXTENDS ManyToSingleChannel

CONSTANTS p1, p2

Producers == {p1, p2}
=============================================================================
