---------------------------- MODULE MCConnection ----------------------------
(***************************************************************************)
(* Instances of Connection for TLC.                                        *)
(***************************************************************************)
EXTENDS Connection

CONSTANTS a, b

Sides == {a, b}

\* The two built-in channels alone.  The order is by frequency, which is NEVER
\* for the management channel.
BuiltIn == [e \in Sides |-> <<Ack, Mgmt>>]

\* With the channel of the chat example: it and the ack channel are equally
\* frequent, so their order is that of each side's hash map.
Chat == (a :> <<Ack, "message", Mgmt>>) @@ (b :> <<"message", Ack, Mgmt>>)

\* With a channel of each kind, and frequencies that the sides give differently.
Three == (a :> <<Ack, "message", "notice", "plain", Mgmt>>)
         @@ (b :> <<"plain", Ack, "message", "notice", Mgmt>>)

AllReliable   == {Ack, Mgmt, "message", "notice"}
ChatOrdered   == {Mgmt, "message"}
JustMgmt      == {Mgmt}

MgmtWindow == Mgmt :> 6
ChatWindow == (Mgmt :> 6) @@ ("message" :> 3)
NarrowWindow == (Mgmt :> 6) @@ ("message" :> 1)

Keys(registration, transfer) ==
    [Registration |-> [e \in Sides |-> registration], Transfer |-> [e \in Sides |-> transfer]]

HandshakeKeys == Keys(5, 7)
ChatKeys      == Keys(5, 8)
ThreeKeys     == [Keys(7, 8) EXCEPT !.Transfer[a] = 10]

NoMessages  == [e \in Sides |-> 0]
OneWay      == (a :> 3) @@ (b :> 0)
=============================================================================
