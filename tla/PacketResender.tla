--------------------------- MODULE PacketResender ---------------------------
(***************************************************************************)
(* PacketResender of src/net/resend.rs: a slot map of the packets that     *)
(* have not been acknowledged, each with a timer and a number of copies    *)
(* left to send.  The sender of a packet (send_packet) sends it once when  *)
(* it is added; update() sends the copies and gives a packet up; an        *)
(* acknowledgement removes it; the change of phase clears the map.         *)
(*                                                                         *)
(* Time is what update() is told has passed.                               *)
(***************************************************************************)
EXTENDS SlotMap

CONSTANTS ResendCapacity,   \* the sum of additional_capacity
          ResendInterval,   \* per packet, that of its channel
          ResendAttempts,   \* per packet, that of its channel
          Delta             \* what may pass between two calls of update()

ASSUME ResenderAssumption ==
    /\ ResendCapacity \in Nat
    /\ ResendInterval \in [Value -> Nat \ {0}]
    /\ ResendAttempts \in [Value -> Nat]
    /\ Delta \subseteq Nat \ {0}

VARIABLES timers,    \* per slot: current_time and resend_attempts
          sends,     \* history: per slot, how often its packet was sent
          given_up   \* history: the packets given up, with their sends

resenderVars == <<values, generations, free_slots, issued, timers, sends, given_up>>

NewTimer(v) == [time |-> 0, attempts |-> ResendAttempts[v]]
NoTimer     == [time |-> 0, attempts |-> 0]

Due(i, delta) == timers[i].time + delta >= ResendInterval[values[i]]

\* The slots whose packet is sent again, and those whose packet is dropped:
\* the last copy is sent in the very update that gives its packet up.
Resent(delta)  == {i \in Occupied : Due(i, delta) /\ timers[i].attempts # 0}

\* Bug: a packet is given up with one copy left to send.
DroppedEarly(delta) == {i \in Occupied : Due(i, delta) /\ timers[i].attempts <= 2}

Dropped(delta) == {i \in Occupied : Due(i, delta) /\ timers[i].attempts <= 1}
-----------------------------------------------------------------------------
ResenderInit ==
    /\ Init
    /\ timers = <<>>
    /\ sends = <<>>
    /\ given_up = {}

\* Bug: the resender takes what it is given.
AddUnlimited(v) ==
    /\ AddToFreeSlot(v) \/ AddAtEnd(v)
    /\ timers' = [i \in DOMAIN values' |->
                     IF i \in Occupied THEN timers[i]
                     ELSE IF values'[i] # None THEN NewTimer(v) ELSE NoTimer]
    /\ sends' = [i \in DOMAIN values' |->
                    IF i \in Occupied THEN sends[i]
                    ELSE IF values'[i] # None THEN 1 ELSE 0]
    /\ UNCHANGED given_up

\* add(), with the sending that follows it; refused when the map is full.
Add(v) ==
    /\ Length # ResendCapacity
    /\ AddToFreeSlot(v) \/ AddAtEnd(v)
    /\ timers' = [i \in DOMAIN values' |->
                     IF i \in Occupied THEN timers[i]
                     ELSE IF values'[i] # None THEN NewTimer(v) ELSE NoTimer]
    /\ sends' = [i \in DOMAIN values' |->
                    IF i \in Occupied THEN sends[i]
                    ELSE IF values'[i] # None THEN 1 ELSE 0]
    /\ UNCHANGED given_up

\* remove(), with any key that was ever made.
Acknowledge(key) ==
    /\ Remove(key)
    /\ timers' = [timers EXCEPT ![key.index] = NoTimer]
    /\ sends' = [sends EXCEPT ![key.index] = 0]
    /\ UNCHANGED given_up

\* Bug: the copies that are left are not counted down.
UpdateUncounted(delta) ==
    /\ RetainIf(Dropped(delta))
    /\ timers' = [i \in Slots |->
           CASE i \in Dropped(delta)            -> NoTimer
             [] i \in Resent(delta) \ Dropped(delta) -> [timers[i] EXCEPT !.time = 0]
             [] i \in Occupied \ (Resent(delta) \cup Dropped(delta)) ->
                    [timers[i] EXCEPT !.time = @ + delta]
             [] OTHER                           -> timers[i]]
    /\ sends' = sends
    /\ UNCHANGED given_up

\* update(): one copy at most of each packet, however much time has passed.
Update(delta) ==
    /\ RetainIf(Dropped(delta))
    /\ timers' = [i \in Slots |->
           CASE i \in Dropped(delta) -> NoTimer
             [] i \in Resent(delta) \ Dropped(delta) ->
                    [time |-> 0, attempts |-> timers[i].attempts - 1]
             [] i \in Occupied \ (Resent(delta) \cup Dropped(delta)) ->
                    [timers[i] EXCEPT !.time = @ + delta]
             [] OTHER -> timers[i]]
    /\ sends' = [i \in Slots |->
           IF i \in Dropped(delta) THEN 0
           ELSE IF i \in Resent(delta) THEN sends[i] + 1 ELSE sends[i]]
    /\ given_up' = given_up \cup
           {<<values[i], IF i \in Resent(delta) THEN sends[i] + 1 ELSE sends[i]>> :
               i \in Dropped(delta)}

\* map_mut().clear(), at the change to the transfer phase.
ClearAll ==
    /\ Clear
    /\ timers' = <<>>
    /\ sends' = <<>>
    /\ UNCHANGED given_up

ResenderNext ==
    \/ \E v \in Value : Add(v)
    \/ \E key \in issued : Acknowledge(key)
    \/ \E delta \in Delta : Update(delta)
    \/ ClearAll

\* The event loop updates its connections time and again.
ResenderSpec ==
    /\ ResenderInit
    /\ [][ResenderNext]_resenderVars
    /\ WF_resenderVars(\E delta \in Delta : Update(delta))
-----------------------------------------------------------------------------
\* The packets held never exceed the capacity, which add() compares with ==:
\* were it exceeded once, it would no longer be tested at all.
CapacityKept == Cardinality(Occupied) <= ResendCapacity

\* A packet that nobody acknowledged was sent once and resend_attempts times
\* more before it was given up, in whatever steps the time passed and whoever
\* used its slot before.
GivenUpAfterAttempts ==
    \A g \in given_up : g[2] = 1 + ResendAttempts[g[1]]

\* Every packet leaves the resender in the end, acknowledged or not, one with
\* no attempts at all included: its place is not lost.
PlaceReturned == \A key \in Key : key \in Live ~> key \notin Live
=============================================================================
