------------------------------ MODULE KeyStore ------------------------------
(***************************************************************************)
(* What a slot map promises its users: a partial function from keys to     *)
(* values in which every insertion is given a key that was never given     *)
(* before.  A holder of an old key can therefore find its own value or     *)
(* nothing, never somebody else's value.  SlotMap implements this.         *)
(***************************************************************************)
CONSTANTS Key,     \* every key there is
          Value    \* what is stored

VARIABLES store,   \* the live keys, each with its value
          used     \* the keys handed out so far, live or not

vars == <<store, used>>

TypeOK == /\ used \in SUBSET Key
          /\ DOMAIN store \subseteq used
          /\ store \in [DOMAIN store -> Value]

Init == /\ store = [k \in {} |-> k]
        /\ used = {}

\* A value gets a key nobody has held before.
Insert(k, v) ==
    /\ k \notin used
    /\ store' = [x \in DOMAIN store \cup {k} |-> IF x = k THEN v ELSE store[x]]
    /\ used' = used \cup {k}

\* Some keys die; the others keep their values.
Forget(K) ==
    /\ store' = [x \in DOMAIN store \ K |-> store[x]]
    /\ UNCHANGED used

Next == \/ \E k \in Key, v \in Value : Insert(k, v)
        \/ \E K \in SUBSET DOMAIN store : Forget(K)

Spec == Init /\ [][Next]_vars
=============================================================================
