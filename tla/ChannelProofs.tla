--------------------------- MODULE ChannelProofs ----------------------------
(***************************************************************************)
(* Proofs about ManyToSingleChannel, for any producers and values, however *)
(* many, and any size of the consumer's vector: its types, that no wakeup  *)
(* is lost, and that it implements a first-in first-out queue.             *)
(***************************************************************************)
EXTENDS ManyToSingleChannel, SequenceTheorems, TLAPS

\* Two facts on cutting a sequence in two, in the terms of TakeBunch.
LEMMA Halves ==
  ASSUME NEW S, NEW s \in Seq(S), NEW n \in 0..Len(s)
  PROVE  /\ SubSeq(s, 1, n) \in Seq(S)
         /\ SubSeq(s, n + 1, Len(s)) \in Seq(S)
         /\ Len(SubSeq(s, 1, n)) = n
  OBVIOUS

\* How much is taken: no more than there is, nor than there is room for.
LEMMA TakenBounds ==
  ASSUME TypeOK
  PROVE  LET n == Smaller(BunchSize - Len(bunch), Len(values))
         IN n \in 0..Len(values) /\ Len(bunch) + n <= BunchSize
  BY ChannelAssumption DEF TypeOK, Smaller

LEMMA TakeBunchTypes ==
  ASSUME TypeOK, TakeBunch
  PROVE  TypeOK'
<1> DEFINE n == Smaller(BunchSize - Len(bunch), Len(values))
<1>1. n \in 0..Len(values) /\ Len(bunch) + n <= BunchSize
  BY TakenBounds
<1> HIDE DEF n
<1>2. /\ bunch' = bunch \o SubSeq(values, 1, n)
      /\ values' = SubSeq(values, n + 1, Len(values))
      /\ consumer' = "handling"
      /\ UNCHANGED <<notifying, pushed, handled>>
  BY DEF TakeBunch, n
<1>3. values \in Seq(Value) /\ bunch \in Seq(Value)
  BY DEF TypeOK
<1>4. /\ SubSeq(values, 1, n) \in Seq(Value)
      /\ SubSeq(values, n + 1, Len(values)) \in Seq(Value)
      /\ Len(SubSeq(values, 1, n)) = n
  BY <1>1, <1>3, Halves
<1>5. values' \in Seq(Value) /\ bunch' \in Seq(Value)
  BY <1>2, <1>3, <1>4
<1>6. Len(bunch') <= BunchSize
  <2>1. Len(bunch') = Len(bunch) + n
    BY <1>2, <1>3, <1>4
  <2> QED BY <2>1, <1>1
<1> QED
  BY <1>2, <1>5, <1>6 DEF TypeOK, ConsumerState

LEMMA PushManyTypes ==
  ASSUME TypeOK, NEW p \in Producer, NEW n \in 0..MaxPushed,
         NEW batch \in [1..n -> Value], PushMany(p, batch)
  PROVE  TypeOK'
<1>1. batch \in Seq(Value)
  BY ChannelAssumption
<1>2. consumer' \in ConsumerState
  BY DEF PushMany, Woken, TypeOK, ConsumerState
<1> QED
  BY <1>1, <1>2 DEF PushMany, TypeOK

\* Every step keeps the types.
LEMMA NextTypes ==
  ASSUME TypeOK, [Next]_vars
  PROVE  TypeOK'
<1>1. CASE \E p \in Producer, v \in Value : Push(p, v)
  BY <1>1 DEF TypeOK, Push
<1>2. CASE \E p \in Producer : NotifyAll(p)
  BY <1>2 DEF TypeOK, NotifyAll, Woken, ConsumerState
<1>3. CASE \E p \in Producer : \E n \in 0..MaxPushed :
               \E batch \in [1..n -> Value] : PushMany(p, batch)
  BY <1>3, PushManyTypes
<1>4. CASE Call
  BY <1>4, TakeBunchTypes DEF TypeOK, ConsumerState, Call, Wait
<1>5. CASE Poll
  BY <1>5, TakeBunchTypes DEF Poll
<1>6. CASE Resume
  BY <1>6, TakeBunchTypes DEF TypeOK, ConsumerState, Resume, Wait
<1>7. CASE TimeOut
  BY <1>7 DEF TypeOK, ConsumerState, TimeOut
<1>8. CASE GiveUpWaiting
  BY <1>8, TakeBunchTypes DEF GiveUpWaiting
<1>9. CASE Drain
  BY <1>9, ChannelAssumption DEF TypeOK, Drain
<1>10. CASE UNCHANGED vars
  BY <1>10 DEF TypeOK, vars
<1> QED
  BY <1>1, <1>2, <1>3, <1>4, <1>5, <1>6, <1>7, <1>8, <1>9, <1>10 DEF Next

\* The types hold, and the consumer's vector never grows beyond the capacity
\* it was made with, so that taking a bunch never allocates.
THEOREM TypeCorrect == Spec => []TypeOK
<1>1. Init => TypeOK
  BY ChannelAssumption DEF Init, TypeOK, ConsumerState
<1>2. TypeOK /\ [Next]_vars => TypeOK'
  BY NextTypes
<1> QED
  BY <1>1, <1>2, PTL DEF Spec

-----------------------------------------------------------------------------
\* The consumer waits on an empty queue only, and what is pushed while it waits
\* is notified of before the producer goes on: no wakeup is lost, however many
\* producers there are and whichever of them notifies first.
THEOREM NoWakeupIsLost == Spec => []NoLostWakeup
<1>1. Init => NoLostWakeup
  BY DEF Init, NoLostWakeup
<1>2. ASSUME NoLostWakeup, [Next]_vars
      PROVE  NoLostWakeup'
  <2> USE <1>2 DEF NoLostWakeup
  <2>1. CASE \E p \in Producer, v \in Value : Push(p, v)
    BY <2>1 DEF Push
  <2>2. CASE \E p \in Producer : NotifyAll(p)
    BY <2>2 DEF NotifyAll, Woken
  <2>3. CASE \E p \in Producer : \E n \in 0..MaxPushed :
                 \E batch \in [1..n -> Value] : PushMany(p, batch)
    BY <2>3 DEF PushMany, Woken
  <2>4. CASE Call \/ Resume
    BY <2>4 DEF Call, Resume, Wait, TakeBunch
  <2>5. CASE Poll \/ GiveUpWaiting
    BY <2>5 DEF Poll, GiveUpWaiting, TakeBunch
  <2>6. CASE TimeOut \/ Drain
    BY <2>6 DEF TimeOut, Drain
  <2>7. CASE UNCHANGED vars
    BY <2>7 DEF vars
  <2> QED
    BY <2>1, <2>2, <2>3, <2>4, <2>5, <2>6, <2>7 DEF Next
<1> QED
  BY <1>1, <1>2, PTL DEF Spec

-----------------------------------------------------------------------------
\* Taking a bunch is taking the first of the queue, or a stutter when the
\* bunch is full or the queue empty.
LEMMA TakeBunchTakes ==
  ASSUME TypeOK, TakeBunch
  PROVE  [Abs!Next]_(Abs!vars)
<1> DEFINE n == Smaller(BunchSize - Len(bunch), Len(values))
<1>1. n \in 0..Len(values)
  BY TakenBounds
<1> HIDE DEF n
<1>2. /\ bunch' = bunch \o SubSeq(values, 1, n)
      /\ values' = SubSeq(values, n + 1, Len(values))
      /\ handled' = handled
  BY DEF TakeBunch, n
<1>3. values \in Seq(Value) /\ bunch \in Seq(Value) /\ handled \in Seq(Value)
  BY DEF TypeOK
<1>4. SubSeq(values, 1, n) \in Seq(Value)
  BY <1>1, <1>3, Halves
<1>5. handled' \o bunch' = (handled \o bunch) \o SubSeq(values, 1, n)
  <2>1. \A s, t, u \in Seq(Value) : (s \o t) \o u = s \o (t \o u)
    <3> TAKE s, t, u \in Seq(Value)
    <3> QED
      BY ConcatAssociative, SMT
  <2>2. (handled \o bunch) \o SubSeq(values, 1, n) = handled \o (bunch \o SubSeq(values, 1, n))
    BY <1>3, <1>4, <2>1, Zenon
  <2> QED
    BY <1>2, <2>2
<1>6. CASE n = 0
  <2>1. SubSeq(values, 1, n) = <<>> /\ values' = values
    BY <1>2, <1>3, <1>6
  <2>2. handled \o bunch \in Seq(Value)
    BY <1>3
  <2>3. handled' \o bunch' = handled \o bunch
    BY <1>5, <2>1, <2>2, ConcatEmptySeq, Zenon
  <2> QED
    BY <2>1, <2>3 DEF Abs!vars
<1>7. CASE n # 0
  <2>1. Abs!Take(n)
    BY <1>2, <1>5 DEF Abs!Take
  <2>2. n \in 1..Len(values)
    BY <1>1, <1>3, <1>7
  <2> QED
    BY <2>1, <2>2 DEF Abs!Next
<1> QED
  BY <1>6, <1>7

\* Appending to the queue is putting in what is appended, if anything.
LEMMA AppendingPuts ==
  ASSUME TypeOK, NEW batch \in Seq(Value),
         values' = values \o batch, UNCHANGED <<bunch, handled>>
  PROVE  [Abs!Next]_(Abs!vars)
<1>1. values \in Seq(Value)
  BY DEF TypeOK
<1>2. CASE batch = <<>>
  BY <1>1, <1>2 DEF Abs!vars
<1>3. CASE batch # <<>>
  <2>1. values' \in Seq(Value) /\ Len(values) < Len(values')
    BY <1>1, <1>3
  <2>2. SubSeq(values', 1, Len(values)) = values
    BY <1>1
  <2> QED
    BY <2>1, <2>2 DEF Abs!Next, Abs!Put
<1> QED
  BY <1>2, <1>3

\* The queue with its mutex, its condition variable and the bunches taken from
\* it is a first-in first-out queue: nothing is lost, repeated or overtaken.
THEOREM ChannelImplementsFifo == Spec => ImplementsFifo
<1>1. Init => Abs!Init
  BY DEF Init, Abs!Init
<1>2. ASSUME TypeOK, [Next]_vars
      PROVE  [Abs!Next]_(Abs!vars)
  <2> USE <1>2
  <2>1. ASSUME NEW p \in Producer, NEW v \in Value, Push(p, v)
        PROVE  [Abs!Next]_(Abs!vars)
    <3>1. values' = values \o <<v>> /\ UNCHANGED <<bunch, handled>>
      BY <2>1 DEF Push, TypeOK
    <3>2. <<v>> \in Seq(Value)
      OBVIOUS
    <3> QED
      BY <3>1, <3>2, AppendingPuts
  <2>2. ASSUME NEW p \in Producer, NEW n \in 0..MaxPushed,
               NEW batch \in [1..n -> Value], PushMany(p, batch)
        PROVE  [Abs!Next]_(Abs!vars)
    <3>1. batch \in Seq(Value)
      BY ChannelAssumption
    <3> QED
      BY <2>2, <3>1, AppendingPuts DEF PushMany
  <2>3. CASE Call
    BY <2>3, TakeBunchTakes DEF Call, Wait, Abs!vars
  <2>4. CASE Resume
    BY <2>4, TakeBunchTakes DEF Resume, Wait, Abs!vars
  <2>5. CASE Poll \/ GiveUpWaiting
    BY <2>5, TakeBunchTakes DEF Poll, GiveUpWaiting
  <2>6. CASE Drain
    <3>1. handled \o bunch \in Seq(Value)
      BY DEF TypeOK
    <3>2. handled' \o bunch' = (handled \o bunch) \o <<>>
      BY <2>6 DEF Drain
    <3>3. handled' \o bunch' = handled \o bunch
      BY <3>1, <3>2, ConcatEmptySeq, Zenon
    <3> QED
      BY <2>6, <3>3 DEF Drain, Abs!vars
  <2>7. CASE TimeOut \/ (\E p \in Producer : NotifyAll(p)) \/ UNCHANGED vars
    BY <2>7 DEF TimeOut, NotifyAll, vars, Abs!vars
  <2> QED
    BY <2>1, <2>2, <2>3, <2>4, <2>5, <2>6, <2>7 DEF Next
<1> QED
  BY <1>1, <1>2, TypeCorrect, PTL DEF Spec, ImplementsFifo, Abs!Spec
=============================================================================
