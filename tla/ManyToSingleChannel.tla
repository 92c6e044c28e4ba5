------------------------ MODULE ManyToSingleChannel -------------------------
(***************************************************************************)
(* ManyToSingleChannel<T> of src/util/channel.rs: a queue behind a mutex,  *)
(* with a condition variable on which its one consumer waits.  The four    *)
(* threads of a server and its application are joined by three of them.    *)
(*                                                                         *)
(* What happens while the mutex is held is one step.  The condition        *)
(* variable has no spurious wakeups (parking_lot) and its wait ends in one *)
(* of two ways, after which the mutex is taken again.                      *)
(***************************************************************************)
EXTENDS Naturals, Sequences

CONSTANTS Producer,     \* the threads that push
          Value,        \* what they push
          BunchSize,    \* capacity() of the consumer's vector
          MaxPushed     \* a bound on what is pushed

ASSUME ChannelAssumption ==
    /\ BunchSize \in Nat \ {0}
    /\ MaxPushed \in Nat

VARIABLES values,      \* VecDeque<T>
          bunch,       \* the consumer's vector
          consumer,    \* what the consumer is doing
          notifying,   \* the producers between push_back and notify_all
          pushed,      \* history: what was pushed, in order
          handled      \* history: what the consumer has drained

vars == <<values, bunch, consumer, notifying, pushed, handled>>

\* "handling": outside of wait_and_take_bunch; "waiting": parked, the mutex
\* released; "notified", "timed out": about to take the mutex again.
ConsumerState == {"handling", "waiting", "notified", "timed out"}

Smaller(m, n) == IF m < n THEN m ELSE n
-----------------------------------------------------------------------------
Init == /\ values = <<>>
        /\ bunch = <<>>
        /\ consumer = "handling"
        /\ notifying = {}
        /\ pushed = <<>>
        /\ handled = <<>>

\* notify_all(): wakes the consumer if it is waiting and is lost if not.
Woken == IF consumer = "waiting" THEN "notified" ELSE consumer

\* push(), first half: the temporary guard is dropped at the end of the
\* statement, before the notification.
Push(p, v) ==
    /\ p \notin notifying
    /\ Len(pushed) < MaxPushed
    /\ values' = Append(values, v)
    /\ pushed' = Append(pushed, v)
    /\ notifying' = notifying \cup {p}
    /\ UNCHANGED <<bunch, consumer, handled>>

\* push(), second half.
NotifyAll(p) ==
    /\ p \in notifying
    /\ notifying' = notifying \ {p}
    /\ consumer' = Woken
    /\ UNCHANGED <<values, bunch, pushed, handled>>

\* Bug: push_many() takes it that others will wake the consumer.
PushManySilently(p, batch) ==
    /\ p \notin notifying
    /\ Len(pushed) + Len(batch) <= MaxPushed
    /\ values' = values \o batch
    /\ pushed' = pushed \o batch
    /\ UNCHANGED <<bunch, consumer, notifying, handled>>

\* push_many(): notifies before it lets go of the mutex, also of nothing, as
\* at the end of every update pass.
PushMany(p, batch) ==
    /\ p \notin notifying
    /\ Len(pushed) + Len(batch) <= MaxPushed
    /\ values' = values \o batch
    /\ pushed' = pushed \o batch
    /\ consumer' = Woken
    /\ UNCHANGED <<bunch, notifying, handled>>

\* Bug: the vector is filled from the wrong end of the queue.
TakeLast ==
    LET n == Smaller(BunchSize - Len(bunch), Len(values)) IN
    /\ bunch' = bunch \o SubSeq(values, Len(values) - n + 1, Len(values))
    /\ values' = SubSeq(values, 1, Len(values) - n)
    /\ consumer' = "handling"
    /\ UNCHANGED <<notifying, pushed, handled>>

\* Bug: everything is taken, and the vector grows.
TakeEverything ==
    /\ bunch' = bunch \o values
    /\ values' = <<>>
    /\ consumer' = "handling"
    /\ UNCHANGED <<notifying, pushed, handled>>

\* The loop at the end of wait_and_take_bunch(), which returns then.
TakeBunch ==
    LET n == Smaller(BunchSize - Len(bunch), Len(values)) IN
    /\ bunch' = bunch \o SubSeq(values, 1, n)
    /\ values' = SubSeq(values, n + 1, Len(values))
    /\ consumer' = "handling"
    /\ UNCHANGED <<notifying, pushed, handled>>

Wait ==
    /\ consumer' = "waiting"
    /\ UNCHANGED <<values, bunch, notifying, pushed, handled>>

\* Bug: waits for the next push whatever is in the queue.
CallWaiting ==
    /\ consumer = "handling" /\ bunch = <<>>
    /\ Wait

\* wait_and_take_bunch() with a timeout: waits while there is nothing.
Call ==
    /\ consumer = "handling" /\ bunch = <<>>
    /\ \/ values = <<>> /\ Wait
       \/ values # <<>> /\ TakeBunch

\* wait_and_take_bunch() with a timeout of zero: takes what there is.
Poll ==
    /\ consumer = "handling" /\ bunch = <<>>
    /\ TakeBunch

\* wait_while_for() after a notification: the condition is looked at again.
Resume ==
    /\ consumer = "notified"
    /\ \/ values = <<>> /\ Wait
       \/ values # <<>> /\ TakeBunch

TimeOut ==
    /\ consumer = "waiting"
    /\ consumer' = "timed out"
    /\ UNCHANGED <<values, bunch, notifying, pushed, handled>>

\* After the timeout, with whatever came in the meantime.
GiveUpWaiting ==
    /\ consumer = "timed out"
    /\ TakeBunch

\* bunch.drain(..)
Drain ==
    /\ consumer = "handling" /\ bunch # <<>>
    /\ handled' = handled \o bunch
    /\ bunch' = <<>>
    /\ UNCHANGED <<values, consumer, notifying, pushed>>

Next == \/ \E p \in Producer, v \in Value : Push(p, v)
        \/ \E p \in Producer : NotifyAll(p)
        \/ \E p \in Producer : \E n \in 0..MaxPushed :
               \E batch \in [1..n -> Value] : PushMany(p, batch)
        \/ Call \/ Poll \/ Resume \/ TimeOut \/ GiveUpWaiting \/ Drain

\* Threads go on.  There is no fairness of the timeout: the waiting must end
\* without it.
Spec ==
    /\ Init
    /\ [][Next]_vars
    /\ \A p \in Producer : WF_vars(NotifyAll(p))
    /\ WF_vars(Call) /\ WF_vars(Resume) /\ WF_vars(GiveUpWaiting) /\ WF_vars(Drain)
-----------------------------------------------------------------------------
\* Types; the consumer's vector keeps to the capacity it was reserved with.
TypeOK ==
    /\ values \in Seq(Value) /\ pushed \in Seq(Value) /\ handled \in Seq(Value)
    /\ bunch \in Seq(Value) /\ Len(bunch) <= BunchSize
    /\ consumer \in ConsumerState
    /\ notifying \subseteq Producer

\* No wakeup is lost: the consumer only waits for the producer that is about
\* to notify it, although notify_all() is called without the mutex, wakes
\* nobody when it comes before the wait, and a full bunch leaves values
\* behind that nobody will notify it of again.
NoLostWakeup ==
    consumer = "waiting" /\ values # <<>> => notifying # {}

\* What was pushed is handled in the end, and no timeout is needed for it.
Handled ==
    \A n \in 1..MaxPushed : Len(pushed) >= n ~> Len(handled) >= n

\* Refinement: the queue, the bunch and the waiting make a first-in first-out
\* queue, although the consumer takes part of what there is.
Abs == INSTANCE Fifo WITH pending <- values, delivered <- handled \o bunch

ImplementsFifo == Abs!Spec
=============================================================================
