------------------------------ MODULE Reconnect -------------------------------
(***************************************************************************)
(* Closing a connection and opening it again while its peer still has it:  *)
(* the keys of the first connection's packets come back to the second one. *)
(*                                                                         *)
(* One side, with the slot map of its resender, and what its peer makes of *)
(* its packets.  Both are in the registration phase, in which they use the *)
(* same ids for the acknowledgement channel, and stay there.  The network  *)
(* keeps everything: the acknowledgements are sent in reliable packets,    *)
(* which the peer resends until they are acknowledged in their turn.       *)
(***************************************************************************)
EXTENDS SlotMap

CONSTANTS Registrations,   \* the packets of initialize_connection()
          Packet,          \* what is in the slots
          MaxConnects      \* a bound on the connections

VARIABLES open,       \* whether the event loop has the connection
          connects,   \* how many there were so far
          sent,       \* the keys of the packets in the network
          seen,       \* the peer's resend_key_duplicate_checker
          acks,       \* the keys in the peer's acknowledgement packets
          panicked    \* the event loop has indexed past the end of a vector

reconnectVars == <<vars, open, connects, sent, seen, acks, panicked>>

ReconnectInit ==
    /\ Init
    /\ open = FALSE /\ connects = 0
    /\ sent = {} /\ seen = {} /\ acks = {}
    /\ panicked = FALSE

\* Connection::default() and initialize_connection(), by UdpEvent::Connect or
\* by a packet of the peer.
Connect ==
    /\ ~open /\ ~panicked /\ connects < MaxConnects
    /\ open' = TRUE /\ connects' = connects + 1
    /\ values' = [i \in 1..Registrations |-> Packet]
    /\ generations' = [i \in 1..Registrations |-> 0]
    /\ free_slots' = <<>>
    /\ issued' = [index : 1..Registrations, generation : {0}]
    /\ sent' = sent \cup issued'
    /\ UNCHANGED <<seen, acks, panicked>>

\* The update pass sends an acknowledgement packet, which is reliable too.
Flush ==
    /\ open /\ ~panicked
    /\ AddToFreeSlot(Packet) \/ AddAtEnd(Packet)
    /\ sent' = sent \cup issued'
    /\ UNCHANGED <<open, connects, seen, acks, panicked>>

\* acknowledge_locally(): remove() reads the generation of the slot whether or
\* not the map ever had it.  A key that is not in the map is logged.
Acknowledged(key) ==
    /\ open /\ ~panicked
    /\ \/ key.index \notin DOMAIN generations /\ panicked' = TRUE /\ UNCHANGED vars
       \/ key.index \in DOMAIN generations /\ Remove(key) /\ UNCHANGED panicked
    /\ UNCHANGED <<open, connects, sent, seen, acks>>

\* UdpEvent::CloseConnection: the peer is not told.
Close ==
    /\ open /\ ~panicked
    /\ open' = FALSE
    /\ values' = <<>> /\ generations' = <<>> /\ free_slots' = <<>> /\ issued' = {}
    /\ UNCHANGED <<connects, sent, seen, acks, panicked>>

\* The peer acknowledges a packet that it has not seen.
PeerReceives(key) ==
    /\ key \notin seen
    /\ seen' = seen \cup {key}
    /\ acks' = acks \cup {key}
    /\ UNCHANGED <<vars, open, connects, sent, panicked>>

ReconnectNext ==
    \/ Connect \/ Flush \/ Close
    \/ \E key \in acks : Acknowledged(key)
    \/ \E key \in sent : PeerReceives(key)

ReconnectSpec == ReconnectInit /\ [][ReconnectNext]_reconnectVars
-----------------------------------------------------------------------------
\* "A packet that doesn't exist was acknowledged" (the log of
\* acknowledge_locally): such an acknowledgement is reported, and the loop
\* goes on.
UnknownKeysReported == ~panicked
=============================================================================
