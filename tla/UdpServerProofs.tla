-------------------------- MODULE UdpServerProofs ---------------------------
(***************************************************************************)
(* Proofs about UdpServer, for any peers and any sizes of its queues: its  *)
(* types, that the application's connections follow the server's, and that *)
(* the application never goes back to an older one.                        *)
(***************************************************************************)
EXTENDS UdpServer, Numbers

Connection == [number : Nat \ {0}, transfer : BOOLEAN, received_last : BOOLEAN,
               acknowledged : BOOLEAN, heard : 0..now]

News == [type : {"Connected"}, addr : Address, number : Nat \ {0}]

Typed ==
    /\ events \in Seq(Event) /\ bunch \in Seq(Event) /\ Len(bunch) <= BunchSize
    /\ news \in Seq(News)
    /\ connections \in [Address -> {NotConnected} \cup Connection]
    /\ made \in [Address -> Nat] /\ instances \in [Address -> Nat]
    /\ loop \in {"take", "handle", "stopped"} /\ closed \in BOOLEAN
    /\ reader \in {"running", "stopped"} /\ writer \in {"running", "stopped"}
    /\ application \in {"poll", "command"}
    /\ now \in 0..MaxTime /\ time0 \in 0..now

\* The flag goes with the end of the loop and comes before that of the other
\* threads; what the loop takes, it has handled before it takes more.
Stops ==
    /\ closed <=> (loop = "stopped")
    /\ (reader = "stopped" \/ writer = "stopped") => closed
    /\ loop = "take" => bunch = <<>>

\* A connection that the server has, and that is not yet announced.
Unannounced(a) == Connected(a) /\ ~connections[a].transfer

\* The number that the application has for a peer is older than those that it
\* is about to learn of.  None of them is newer than the peer's present
\* connection, nor as new while that is not announced.
Numbered ==
    \A a \in Address :
        /\ Connected(a) => connections[a].number = made[a]
        /\ instances[a] <= made[a]
        /\ Unannounced(a) => instances[a] < made[a]
        /\ \A i \in DOMAIN news : news[i].addr = a =>
              /\ instances[a] < news[i].number
              /\ news[i].number <= made[a]
              /\ Unannounced(a) => news[i].number < made[a]

\* The announcements about a peer come in the order of its connections.
Ascending ==
    \A i \in DOMAIN news, j \in DOMAIN news :
        (i < j /\ news[i].addr = news[j].addr) => news[i].number < news[j].number

ServerInvariant == Typed /\ Stops /\ Numbered /\ Ascending /\ InstanceFollows

-----------------------------------------------------------------------------
(* Queues *)

LEMMA Appended ==
  ASSUME NEW S, NEW s \in Seq(S), NEW e \in S
  PROVE  /\ Append(s, e) \in Seq(S) /\ Len(Append(s, e)) = Len(s) + 1
         /\ \A i \in 1..Len(s) : Append(s, e)[i] = s[i]
         /\ Append(s, e)[Len(s) + 1] = e
  OBVIOUS

LEMMA FirstPart ==
  ASSUME NEW S, NEW s \in Seq(S), NEW n \in 0..Len(s)
  PROVE  /\ SubSeq(s, 1, n) \in Seq(S) /\ Len(SubSeq(s, 1, n)) = n
         /\ \A i \in 1..n : SubSeq(s, 1, n)[i] = s[i]
  OBVIOUS

LEMMA LastPart ==
  ASSUME NEW S, NEW s \in Seq(S), NEW n \in 0..Len(s)
  PROVE  /\ SubSeq(s, n + 1, Len(s)) \in Seq(S)
         /\ Len(SubSeq(s, n + 1, Len(s))) = Len(s) - n
         /\ \A i \in 1..(Len(s) - n) : SubSeq(s, n + 1, Len(s))[i] = s[n + i]
  OBVIOUS

\* How much of a queue a bunch takes.
LEMMA BunchLength ==
  ASSUME NEW l \in Nat, NEW size \in Nat
  PROVE  LET n == IF l < size THEN l ELSE size IN n \in 0..l /\ n <= size
  OBVIOUS

\* What is in a queue is in one of the two parts that it is cut into.
LEMMA CutRange ==
  ASSUME NEW S, NEW s \in Seq(S), NEW n \in 0..Len(s)
  PROVE  Range(s) = Range(SubSeq(s, 1, n)) \cup Range(SubSeq(s, n + 1, Len(s)))
<1> DEFINE f == SubSeq(s, 1, n)
           b == SubSeq(s, n + 1, Len(s))
<1>1. /\ DOMAIN f = 1..n /\ \A i \in 1..n : f[i] = s[i]
  BY FirstPart
<1>2. /\ DOMAIN b = 1..(Len(s) - n) /\ \A i \in 1..(Len(s) - n) : b[i] = s[n + i]
  BY LastPart
<1>3. DOMAIN s = 1..Len(s) /\ Len(s) \in Nat
  OBVIOUS
<1> HIDE DEF f, b
<1>4. ASSUME NEW i \in 1..Len(s) PROVE s[i] \in Range(f) \cup Range(b)
  <2>1. CASE i <= n
    BY <1>1, <1>3, <2>1 DEF Range
  <2>2. CASE i > n
    <3>1. i - n \in 1..(Len(s) - n) /\ n + (i - n) = i
      BY <1>3, <2>2
    <3> QED
      BY <1>2, <3>1 DEF Range
  <2> QED
    BY <1>3, <2>1, <2>2
<1>5. \A i \in 1..n : f[i] \in Range(s)
  BY <1>1, <1>3 DEF Range
<1>6. ASSUME NEW i \in 1..(Len(s) - n) PROVE b[i] \in Range(s)
  <2>1. n + i \in 1..Len(s)
    BY <1>3
  <2> QED
    BY <1>2, <1>3, <2>1 DEF Range
<1>7. Range(s) = Range(f) \cup Range(b)
  BY <1>1, <1>2, <1>3, <1>4, <1>5, <1>6 DEF Range
<1> QED
  BY <1>7 DEF f, b

LEMMA AppendedRange ==
  ASSUME NEW S, NEW s \in Seq(S), NEW e \in S
  PROVE  Range(Append(s, e)) = Range(s) \cup {e}
<1>1. /\ DOMAIN Append(s, e) = 1..(Len(s) + 1) /\ DOMAIN s = 1..Len(s) /\ Len(s) \in Nat
      /\ \A i \in 1..Len(s) : Append(s, e)[i] = s[i]
      /\ Append(s, e)[Len(s) + 1] = e
  BY Appended
<1>2. \A i \in 1..(Len(s) + 1) : i \in 1..Len(s) \/ i = Len(s) + 1
  BY <1>1
<1>3. 1..Len(s) \subseteq 1..(Len(s) + 1) /\ Len(s) + 1 \in 1..(Len(s) + 1)
  BY <1>1
<1> QED
  BY <1>1, <1>2, <1>3 DEF Range

LEMMA TailRange ==
  ASSUME NEW S, NEW s \in Seq(S), s # <<>>
  PROVE  /\ Head(s) \in S /\ Tail(s) \in Seq(S) /\ Len(Tail(s)) = Len(s) - 1
         /\ Range(s) \subseteq {Head(s)} \cup Range(Tail(s))
<1>1. /\ Head(s) \in S /\ Tail(s) \in Seq(S) /\ Len(Tail(s)) = Len(s) - 1
      /\ Head(s) = s[1] /\ \A i \in 1..(Len(s) - 1) : Tail(s)[i] = s[i + 1]
      /\ DOMAIN s = 1..Len(s) /\ DOMAIN Tail(s) = 1..(Len(s) - 1)
  OBVIOUS
<1>2. ASSUME NEW i \in 1..Len(s), i # 1 PROVE s[i] \in Range(Tail(s))
  <2>1. i - 1 \in 1..(Len(s) - 1) /\ (i - 1) + 1 = i
    BY <1>2
  <2> QED
    BY <1>1, <2>1 DEF Range
<1> QED
  BY <1>1, <1>2 DEF Range

-----------------------------------------------------------------------------
(* The parts of a step that handles an event *)

\* The connection that an event finds or makes.
LEMMA Opening ==
  ASSUME ServerInvariant, NEW a \in Address
  PROVE  /\ Opened(a) \in Connection
         /\ Opened(a).number = IF Connected(a) THEN made[a] ELSE made[a] + 1
         /\ Connected(a) => Opened(a) = connections[a]
         /\ ~Connected(a) => Opened(a).transfer = FALSE
<1>1. CASE Connected(a)
  BY <1>1 DEF ServerInvariant, Typed, Numbered, Connected, Opened
<1>2. CASE ~Connected(a)
  <2>1. made[a] \in Nat /\ now \in Nat
    BY DEF ServerInvariant, Typed
  <2> QED
    BY <1>2, <2>1 DEF Opened, New, Connection
<1> QED
  BY <1>1, <1>2

\* A packet leaves a connection its number and never undoes its transfer.
LEMMA Handling ==
  ASSUME ServerInvariant, NEW c \in Connection, NEW kind \in Kind, NEW complete \in BOOLEAN
  PROVE  /\ Handled(c, kind, complete) \in Connection
         /\ Handled(c, kind, complete).number = c.number
         /\ c.transfer => Handled(c, kind, complete).transfer
<1>1. now \in 0..now
  BY DEF ServerInvariant, Typed
<1> QED
  BY <1>1 DEF Handled, Registered, Connection, Kind

LEMMA NewsTyped ==
  ASSUME ServerInvariant
  PROVE  /\ news \in Seq(News) /\ DOMAIN news = 1..Len(news) /\ Len(news) \in Nat
         /\ \A i \in 1..Len(news) :
               /\ news[i].number \in Nat /\ news[i].addr \in Address
               /\ news[i].type = "Connected"
<1>1. news \in Seq(News)
  BY DEF ServerInvariant, Typed
<1>2. DOMAIN news = 1..Len(news) /\ Len(news) \in Nat /\ \A i \in 1..Len(news) : news[i] \in News
  BY <1>1
<1> QED
  BY <1>1, <1>2 DEF News

\* A connection that is found or made, and perhaps brought into the transfer
\* phase and announced, keeps the numbers in order.
LEMMA ReplacedNumbers ==
  ASSUME ServerInvariant, NEW a \in Address, NEW c \in Connection,
         c.number = Opened(a).number, Opened(a).transfer => c.transfer,
         connections' = [connections EXCEPT ![a] = c],
         made' = [made EXCEPT ![a] = c.number],
         news' = IF c.transfer /\ ~Opened(a).transfer
                 THEN Append(news, Announcement(a, c)) ELSE news,
         instances' = instances
  PROVE  Numbered' /\ Ascending' /\ news' \in Seq(News)
<1>1. /\ news \in Seq(News) /\ made[a] \in Nat /\ c.number \in Nat \ {0} /\ instances[a] \in Nat
      /\ DOMAIN news = 1..Len(news) /\ Len(news) \in Nat
      /\ \A i \in 1..Len(news) : news[i].number \in Nat /\ news[i].addr \in Address
  BY NewsTyped DEF ServerInvariant, Typed, Connection
<1>2. c.number = IF Connected(a) THEN made[a] ELSE made[a] + 1
  BY Opening
<1>3. Announcement(a, c) \in News
  BY <1>1 DEF Announcement, News
<1>4. /\ made[a] <= c.number /\ instances[a] <= c.number
      /\ \A i \in 1..Len(news) : news[i].addr = a =>
            instances[a] < news[i].number /\ news[i].number <= c.number
  BY <1>1, <1>2 DEF ServerInvariant, Numbered
<1>5. ASSUME ~Opened(a).transfer
      PROVE  /\ instances[a] < c.number
             /\ \A i \in 1..Len(news) : news[i].addr = a => news[i].number < c.number
  <2>1. CASE Connected(a)
    <3>1. Unannounced(a)
      BY <1>5, <2>1, Opening DEF Unannounced
    <3>2. /\ instances[a] < made[a]
          /\ \A i \in DOMAIN news : news[i].addr = a => news[i].number < made[a]
      BY <3>1 DEF ServerInvariant, Numbered
    <3>3. c.number = made[a]
      BY <1>2, <2>1
    <3> QED
      BY <1>1, <3>2, <3>3
  <2>2. CASE ~Connected(a)
    <3>1. c.number = made[a] + 1
      BY <1>2, <2>2
    <3>2. /\ instances[a] <= made[a]
          /\ \A i \in DOMAIN news : news[i].addr = a => news[i].number <= made[a]
      BY DEF ServerInvariant, Numbered
    <3> QED
      BY <1>1, <3>1, <3>2
  <2> QED
    BY <2>1, <2>2
<1>6. /\ news' \in Seq(News) /\ DOMAIN news' = 1..Len(news')
      /\ \A i \in 1..Len(news') :
            \/ i \in 1..Len(news) /\ news'[i] = news[i]
            \/ /\ i = Len(news) + 1 /\ ~Opened(a).transfer /\ c.transfer
               /\ news'[i].addr = a /\ news'[i].number = c.number
  <2>1. CASE c.transfer /\ ~Opened(a).transfer
    <3>1. news' = Append(news, Announcement(a, c))
      BY <2>1
    <3>2. /\ news' \in Seq(News) /\ Len(news') = Len(news) + 1
          /\ \A i \in 1..Len(news) : news'[i] = news[i]
          /\ news'[Len(news) + 1] = Announcement(a, c)
      BY <1>1, <1>3, <3>1, Appended
    <3> QED
      BY <1>1, <2>1, <3>2 DEF Announcement
  <2>2. CASE ~ (c.transfer /\ ~Opened(a).transfer)
    BY <1>1, <2>2
  <2> QED
    BY <2>1, <2>2
<1>7. ASSUME NEW b \in Address
      PROVE  /\ Connected(b)' => connections'[b].number = made'[b]
             /\ instances'[b] <= made'[b]
             /\ Unannounced(b)' => instances'[b] < made'[b]
             /\ \A i \in DOMAIN news' : news'[i].addr = b =>
                   /\ instances'[b] < news'[i].number
                   /\ news'[i].number <= made'[b]
                   /\ Unannounced(b)' => news'[i].number < made'[b]
  <2>1. CASE b = a
    <3>1. /\ connections'[a] = c /\ made'[a] = c.number /\ instances'[a] = instances[a]
          /\ Unannounced(a)' => ~c.transfer
      BY DEF ServerInvariant, Typed, Unannounced
    <3>2. ~c.transfer => ~Opened(a).transfer
      OBVIOUS
    <3>3. ASSUME NEW i \in DOMAIN news', news'[i].addr = a
          PROVE  /\ instances'[a] < news'[i].number
                 /\ news'[i].number <= made'[a]
                 /\ Unannounced(a)' => news'[i].number < made'[a]
      BY <1>1, <1>4, <1>5, <1>6, <3>1, <3>2, <3>3
    <3> QED
      BY <1>4, <1>5, <2>1, <3>1, <3>2, <3>3
  <2>2. CASE b # a
    <3>1. /\ connections'[b] = connections[b] /\ made'[b] = made[b]
          /\ instances'[b] = instances[b]
          /\ Connected(b)' = Connected(b) /\ Unannounced(b)' = Unannounced(b)
      BY <2>2 DEF ServerInvariant, Typed, Connected, Unannounced
    <3>2. \A i \in DOMAIN news' : news'[i].addr = b =>
             i \in DOMAIN news /\ news'[i] = news[i]
      BY <1>1, <1>6, <2>2
    <3> QED
      BY <3>1, <3>2 DEF ServerInvariant, Numbered
  <2> QED
    BY <2>1, <2>2
<1>8. ASSUME NEW i \in DOMAIN news', NEW j \in DOMAIN news',
             i < j, news'[i].addr = news'[j].addr
      PROVE  news'[i].number < news'[j].number
  <2>1. i \in 1..Len(news) /\ news'[i] = news[i]
    <3>1. ~ (i = Len(news) + 1)
      BY <1>1, <1>6, <1>8
    <3> QED
      BY <1>6, <3>1
  <2>2. CASE j \in 1..Len(news) /\ news'[j] = news[j]
    BY <1>1, <1>8, <2>1, <2>2 DEF ServerInvariant, Ascending
  <2>3. CASE /\ j = Len(news) + 1 /\ ~Opened(a).transfer
             /\ news'[j].addr = a /\ news'[j].number = c.number
    BY <1>5, <1>8, <2>1, <2>3
  <2> QED
    BY <1>6, <2>2, <2>3
<1> QED
  BY <1>6, <1>7, <1>8 DEF Numbered, Ascending

\* The update pass gives up no connection: the distance of an earlier time
\* from a later one saturates.
LEMMA NobodySilent ==
  ASSUME ServerInvariant
  PROVE  Silent = {}
<1> SUFFICES ASSUME NEW a \in Address, Connected(a),
                    DurationSince(connections[a].heard, now) > ConnectionTimeout
             PROVE  FALSE
  BY DEF Silent
<1>1. /\ connections[a].heard \in 0..now /\ now \in Nat /\ ConnectionTimeout \in Nat
  BY ServerAssumption DEF ServerInvariant, Typed, Connected, Connection
<1>2. DurationSince(connections[a].heard, now) = 0
  BY <1>1 DEF DurationSince
<1> QED
  BY <1>1, <1>2

LEMMA UpdateKeeps ==
  ASSUME ServerInvariant, UpdatePass
  PROVE  connections' = connections /\ news' = news
<1>1. Silent = {}
  BY NobodySilent
<1>2. connections' = connections
  BY <1>1 DEF UpdatePass, ServerInvariant, Typed
<1>3. SetToSeq({[type |-> "TimedOut", addr |-> a] : a \in Silent}) = <<>>
  <2>1. {[type |-> "TimedOut", addr |-> a] : a \in Silent} = {}
    BY <1>1
  <2>2. Cardinality({}) = 0
    BY FS_EmptySet
  <2>3. SetToSeq({}) = CHOOSE f \in [1..0 -> {}] : IsInjective(f)
    BY <2>2 DEF SetToSeq
  <2>4. \A f \in [1..0 -> {}] : f = <<>>
    OBVIOUS
  <2>5. <<>> \in [1..0 -> {}] /\ IsInjective(<<>>)
    BY DEF IsInjective
  <2> QED
    BY <2>1, <2>3, <2>4, <2>5
<1>4. news' = news \o <<>>
  BY <1>3 DEF UpdatePass
<1> QED
  BY <1>2, <1>4 DEF ServerInvariant, Typed

\* What a bunch of announcements tells the application about a peer is the
\* last of them about it.
LEMMA AppliedValue ==
  ASSUME ServerInvariant, NEW n \in 0..Len(news), NEW a \in Address
  PROVE  LET now_has == Applied(SubSeq(news, 1, n))[a] IN
         \/ /\ \A i \in 1..n : news[i].addr # a
            /\ now_has = instances[a]
         \/ \E m \in 1..n :
               /\ news[m].addr = a
               /\ now_has = news[m].number
               /\ \A i \in 1..n : news[i].addr = a => i <= m
<1> DEFINE batch == SubSeq(news, 1, n)
           about == {i \in DOMAIN batch : batch[i].addr = a}
<1>1. /\ news \in Seq(News) /\ Len(news) \in Nat /\ n \in Nat
      /\ \A i \in 1..n : news[i].type = "Connected"
  BY NewsTyped
<1>2. DOMAIN batch = 1..n /\ \A i \in 1..n : batch[i] = news[i]
  BY <1>1, FirstPart
<1> HIDE DEF batch
<1>3. about = {i \in 1..n : news[i].addr = a}
  BY <1>2
<1>4. Applied(batch)[a] = IF about = {} THEN instances[a]
                          ELSE IF batch[Max(about)].type = "Connected"
                               THEN batch[Max(about)].number ELSE 0
  BY DEF Applied
<1> HIDE DEF about
<1>5. CASE about = {}
  BY <1>3, <1>4, <1>5 DEF batch
<1>6. CASE about # {}
  <2>1. \E m \in about : \A i \in about : m >= i
    <3>1. about \in SUBSET (1..n)
      BY <1>3
    <3> QED
      BY <1>1, <1>6, <3>1, GreatestNumber
  <2>2. Max(about) \in about /\ \A i \in about : Max(about) >= i
    BY <2>1 DEF Max
  <2> QED
    BY <1>1, <1>2, <1>3, <1>4, <1>6, <2>2 DEF batch
<1> QED
  BY <1>5, <1>6

\* Every step but those of Read, Connect, CloseConnection, the application's
\* Poll and its Command leaves alone what the numbers are about.
LEMMA SameNumbers ==
  ASSUME ServerInvariant, UNCHANGED <<connections, made, news, instances>>
  PROVE  Numbered' /\ Ascending'
<1>1. /\ \A a : Connected(a)' = Connected(a)
      /\ \A a : Unannounced(a)' = Unannounced(a)
  BY DEF Connected, Unannounced
<1> QED
  BY <1>1 DEF ServerInvariant, Numbered, Ascending

\* A connection that is closed keeps the number of those there were.
LEMMA ClosedNumbers ==
  ASSUME ServerInvariant, NEW a \in Address, CloseConnection(a), instances' = instances
  PROVE  Numbered' /\ Ascending'
<1>1. made' = made /\ news' = news
  BY DEF CloseConnection
<1>2. ASSUME NEW b \in Address
      PROVE  /\ Connected(b)' => Connected(b) /\ connections'[b] = connections[b]
             /\ Unannounced(b)' => Unannounced(b)
  BY DEF CloseConnection, ServerInvariant, Typed, Connected, Unannounced
<1> QED
  BY <1>1, <1>2 DEF ServerInvariant, Numbered, Ascending

\* The user who disconnects has no connection, which is older than any.
LEMMA CommandNumbers ==
  ASSUME ServerInvariant, NEW event \in Event, Command(event)
  PROVE  Numbered' /\ Ascending' /\ instances' \in [Address -> Nat]
<1>1. UNCHANGED <<connections, made, news>>
  BY DEF Command, loopVars
<1>2. /\ instances' \in [Address -> Nat]
      /\ \A a \in Address : instances'[a] = instances[a] \/ instances'[a] = 0
  BY DEF Command, ServerInvariant, Typed
<1>3. /\ \A a : Connected(a)' = Connected(a)
      /\ \A a : Unannounced(a)' = Unannounced(a)
  BY <1>1 DEF Connected, Unannounced
<1>4. \A a \in Address : instances'[a] <= instances[a] /\ instances[a] \in Nat
  <2>1. \A a \in Address : instances[a] \in Nat
    BY DEF ServerInvariant, Typed
  <2> QED
    BY <1>2, <2>1
<1>5. ASSUME NEW a \in Address
      PROVE  /\ Connected(a)' => connections'[a].number = made'[a]
             /\ instances'[a] <= made'[a]
             /\ Unannounced(a)' => instances'[a] < made'[a]
             /\ \A i \in DOMAIN news' : news'[i].addr = a =>
                   /\ instances'[a] < news'[i].number
                   /\ news'[i].number <= made'[a]
                   /\ Unannounced(a)' => news'[i].number < made'[a]
  <2>1. made[a] \in Nat /\ instances[a] \in Nat /\ instances'[a] \in Nat /\ instances'[a] <= instances[a]
    BY <1>2, <1>4 DEF ServerInvariant, Typed
  <2>2. /\ Connected(a) => connections[a].number = made[a]
        /\ instances[a] <= made[a]
        /\ Unannounced(a) => instances[a] < made[a]
        /\ \A i \in DOMAIN news : news[i].addr = a =>
              /\ instances[a] < news[i].number
              /\ news[i].number <= made[a]
              /\ Unannounced(a) => news[i].number < made[a]
    BY DEF ServerInvariant, Numbered
  <2>3. \A i \in DOMAIN news : news[i].number \in Nat
    BY NewsTyped
  <2> QED
    BY <1>1, <1>3, <2>1, <2>2, <2>3
<1>6. Ascending'
  BY <1>1 DEF ServerInvariant, Ascending
<1> QED
  BY <1>2, <1>5, <1>6 DEF Numbered

\* The queue and the numbers after a bunch of n announcements.
LEMMA PollNumbers ==
  ASSUME ServerInvariant, NEW n \in 0..Len(news),
         instances' = Applied(SubSeq(news, 1, n)),
         news' = SubSeq(news, n + 1, Len(news)),
         UNCHANGED <<connections, made>>
  PROVE  /\ Numbered' /\ Ascending' /\ news' \in Seq(News)
         /\ instances' \in [Address -> Nat]
         /\ \A a \in Address : instances'[a] >= instances[a]
<1>1. /\ news \in Seq(News) /\ DOMAIN news = 1..Len(news) /\ Len(news) \in Nat /\ n \in Nat
      /\ \A i \in 1..Len(news) : news[i].number \in Nat
  BY NewsTyped
<1>2. /\ news' \in Seq(News) /\ DOMAIN news' = 1..(Len(news) - n)
      /\ \A i \in 1..(Len(news) - n) : news'[i] = news[n + i]
  BY <1>1, LastPart
<1>3. /\ \A a : Connected(a)' = Connected(a)
      /\ \A a : Unannounced(a)' = Unannounced(a)
  BY DEF Connected, Unannounced
<1>4. ASSUME NEW a \in Address
      PROVE  \/ /\ \A i \in 1..n : news[i].addr # a
                /\ instances'[a] = instances[a]
             \/ \E m \in 1..n :
                   /\ news[m].addr = a
                   /\ instances'[a] = news[m].number
                   /\ \A i \in 1..n : news[i].addr = a => i <= m
  BY AppliedValue
<1>5. ASSUME NEW a \in Address
      PROVE  /\ instances'[a] \in Nat /\ instances'[a] >= instances[a]
             /\ Connected(a)' => connections'[a].number = made'[a]
             /\ instances'[a] <= made'[a]
             /\ Unannounced(a)' => instances'[a] < made'[a]
             /\ \A i \in DOMAIN news' : news'[i].addr = a =>
                   /\ instances'[a] < news'[i].number
                   /\ news'[i].number <= made'[a]
                   /\ Unannounced(a)' => news'[i].number < made'[a]
  <2>1. /\ Connected(a) => connections[a].number = made[a]
        /\ instances[a] <= made[a]
        /\ Unannounced(a) => instances[a] < made[a]
        /\ \A i \in 1..Len(news) : news[i].addr = a =>
              /\ instances[a] < news[i].number
              /\ news[i].number <= made[a]
              /\ Unannounced(a) => news[i].number < made[a]
    BY <1>1 DEF ServerInvariant, Numbered
  <2>2. made[a] \in Nat /\ instances[a] \in Nat
    BY DEF ServerInvariant, Typed
  <2>3. \A i \in 1..(Len(news) - n) : n + i \in 1..Len(news)
    BY <1>1
  <2>4. ASSUME NEW m \in 1..n, news[m].addr = a, instances'[a] = news[m].number
        PROVE  /\ instances'[a] \in Nat /\ instances'[a] >= instances[a]
               /\ instances'[a] <= made[a]
               /\ Unannounced(a) => instances'[a] < made[a]
               /\ \A i \in 1..(Len(news) - n) : news[n + i].addr = a =>
                     instances'[a] < news[n + i].number
    <3>1. m \in 1..Len(news) /\ \A i \in 1..(Len(news) - n) : m < n + i
      BY <1>1
    <3>2. \A i \in 1..(Len(news) - n) : news[n + i].addr = a =>
              news[m].number < news[n + i].number
      BY <1>1, <2>3, <2>4, <3>1 DEF ServerInvariant, Ascending
    <3>3. /\ instances[a] < news[m].number /\ news[m].number <= made[a]
          /\ Unannounced(a) => news[m].number < made[a]
          /\ news[m].number \in Nat
      BY <1>1, <2>1, <2>4, <3>1
    <3> QED
      BY <2>2, <2>4, <3>2, <3>3
  <2>5. /\ instances'[a] \in Nat /\ instances'[a] >= instances[a]
        /\ instances'[a] <= made[a]
        /\ Unannounced(a) => instances'[a] < made[a]
        /\ \A i \in 1..(Len(news) - n) : news[n + i].addr = a =>
              instances'[a] < news[n + i].number
    <3>1. CASE instances'[a] = instances[a]
      <4>1. \A i \in 1..(Len(news) - n) : news[n + i].addr = a =>
                instances[a] < news[n + i].number
        BY <2>1, <2>3
      <4>2. instances[a] >= instances[a]
        BY <2>2
      <4> QED
        BY <2>1, <2>2, <3>1, <4>1, <4>2, Zenon
    <3>2. CASE \E m \in 1..n : news[m].addr = a /\ instances'[a] = news[m].number
      <4>1. PICK m \in 1..n : news[m].addr = a /\ instances'[a] = news[m].number
        BY <3>2
      <4> QED
        BY <2>4, <4>1, Zenon
    <3> QED
      BY <1>4, <3>1, <3>2
  <2> QED
    BY <1>2, <1>3, <2>1, <2>3, <2>5
<1>6. Ascending'
  <2> SUFFICES ASSUME NEW i \in DOMAIN news', NEW j \in DOMAIN news', i < j,
                      news'[i].addr = news'[j].addr
               PROVE  news'[i].number < news'[j].number
    BY DEF Ascending
  <2>1. /\ n + i \in DOMAIN news /\ n + j \in DOMAIN news /\ n + i < n + j
        /\ news'[i] = news[n + i] /\ news'[j] = news[n + j]
    BY <1>1, <1>2
  <2> QED
    BY <2>1 DEF ServerInvariant, Ascending
<1>7. instances' \in [Address -> Nat]
  <2>1. instances' = [a \in Address |-> instances'[a]]
    BY DEF Applied
  <2> QED
    BY <1>5, <2>1
<1> QED
  BY <1>2, <1>5, <1>6, <1>7 DEF Numbered

-----------------------------------------------------------------------------
(* What the application can read from *)

\* What waits for the loop goes on waiting while the loop handles another
\* event, or takes a bunch.
LEMMA TakeWaits ==
  ASSUME ServerInvariant, TakeBunch
  PROVE  Range(events)' \cup Range(bunch)' = Range(events) \cup Range(bunch)
<1> DEFINE n == IF Len(events) < BunchSize THEN Len(events) ELSE BunchSize
<1>1. events \in Seq(Event) /\ Len(events) \in Nat /\ bunch = <<>>
  BY DEF ServerInvariant, Typed, Stops, TakeBunch
<1>2. n \in 0..Len(events)
  BY <1>1, BunchLength, ServerAssumption
<1>3. bunch' = SubSeq(events, 1, n) /\ events' = SubSeq(events, n + 1, Len(events))
  BY DEF TakeBunch
<1> HIDE DEF n
<1>4. Range(events) = Range(bunch') \cup Range(events')
  BY <1>1, <1>2, <1>3, CutRange
<1>5. Range(bunch) = {}
  BY <1>1 DEF Range
<1>6. Range(bunch)' = Range(bunch') /\ Range(events)' = Range(events')
  OBVIOUS
<1> QED
  BY <1>4, <1>5, <1>6

\* The application follows while the connections, the announcements and what
\* it has stay the same and no event is lost.
LEMMA SameFollows ==
  ASSUME ServerInvariant, UNCHANGED <<connections, news, instances>>,
         loop = "stopped" => loop' = "stopped",
         Range(events) \cup Range(bunch) \subseteq Range(events)' \cup Range(bunch)'
  PROVE  InstanceFollows'
<1>1. \A a : Transferring(a)' = Transferring(a)
  BY DEF Transferring, Connected
<1>2. \A e : Waiting(e) => Waiting(e)'
  BY DEF Waiting
<1> QED
  BY <1>1, <1>2 DEF ServerInvariant, InstanceFollows, Announcement

\* A connection that is replaced is the one that was there, or has just been
\* announced, or is not in the transfer phase.
LEMMA ReplacedFollows ==
  ASSUME ServerInvariant, NEW a \in Address, NEW c \in Connection,
         c.number = Opened(a).number, Opened(a).transfer => c.transfer,
         connections' = [connections EXCEPT ![a] = c],
         news' = IF c.transfer /\ ~Opened(a).transfer
                 THEN Append(news, Announcement(a, c)) ELSE news,
         instances' = instances, loop # "stopped",
         \A b \in Address : Waiting([type |-> "CloseConnection", addr |-> b])
                 => Waiting([type |-> "CloseConnection", addr |-> b])'
  PROVE  InstanceFollows'
<1>1. Range(news) \subseteq Range(news')
  <2>1. Announcement(a, c) \in News
    BY DEF Announcement, Connection, News
  <2> QED
    BY <2>1, NewsTyped, AppendedRange
<1>2. Range(news)' = Range(news')
  OBVIOUS
<1>3. ASSUME NEW b \in Address, Transferring(b)'
      PROVE  \/ instances'[b] = connections'[b].number
             \/ Announcement(b, connections'[b]) \in Range(news')
             \/ Waiting([type |-> "CloseConnection", addr |-> b])'
  <2>1. CASE b = a
    <3>1. connections'[a] = c
      BY DEF ServerInvariant, Typed
    <3>2. CASE c.transfer /\ ~Opened(a).transfer
      <4>1. Announcement(a, c) \in News
        BY DEF Announcement, Connection, News
      <4>2. news' = Append(news, Announcement(a, c))
        BY <3>2
      <4>3. Announcement(a, c) \in Range(news')
        BY <4>1, <4>2, NewsTyped, AppendedRange
      <4> QED
        BY <2>1, <3>1, <4>3
    <3>3. CASE Opened(a).transfer
      <4>1. Transferring(a) /\ c.number = connections[a].number
        BY <3>3, Opening DEF Transferring
      <4>2. Announcement(a, c) = Announcement(a, connections[a])
        BY <4>1 DEF Announcement
      <4>3. \/ instances[a] = c.number
            \/ Announcement(a, c) \in Range(news)
            \/ Waiting([type |-> "CloseConnection", addr |-> a])
        BY <4>1, <4>2 DEF ServerInvariant, InstanceFollows
      <4> QED
        BY <1>1, <2>1, <3>1, <4>3
    <3>4. CASE ~c.transfer
      BY <1>3, <2>1, <3>1, <3>4 DEF Transferring
    <3> QED
      BY <3>2, <3>3, <3>4
  <2>2. CASE b # a
    <3>1. connections'[b] = connections[b] /\ Transferring(b)
      BY <1>3, <2>2 DEF ServerInvariant, Typed, Transferring, Connected
    <3>2. \/ instances[b] = connections[b].number
          \/ Announcement(b, connections[b]) \in Range(news)
          \/ Waiting([type |-> "CloseConnection", addr |-> b])
      BY <3>1 DEF ServerInvariant, InstanceFollows
    <3> QED
      BY <1>1, <3>1, <3>2
  <2> QED
    BY <2>1, <2>2
<1> QED
  BY <1>2, <1>3 DEF InstanceFollows, Announcement

LEMMA ClosedFollows ==
  ASSUME ServerInvariant, NEW a \in Address, CloseConnection(a), loop # "stopped",
         instances' = instances,
         \A b \in Address : b # a =>
             (Waiting([type |-> "CloseConnection", addr |-> b])
                 => Waiting([type |-> "CloseConnection", addr |-> b])')
  PROVE  InstanceFollows'
<1>1. /\ ~Transferring(a)' /\ news' = news
      /\ \A b \in Address : b # a => connections'[b] = connections[b]
  BY DEF CloseConnection, ServerInvariant, Typed, Transferring, Connected
<1>2. \A b \in Address : b # a => Transferring(b)' = Transferring(b)
  BY <1>1 DEF Transferring, Connected
<1> QED
  BY <1>1, <1>2 DEF ServerInvariant, InstanceFollows, Announcement

LEMMA CommandFollows ==
  ASSUME ServerInvariant, NEW event \in Event, Command(event)
  PROVE  InstanceFollows'
<1>1. UNCHANGED <<connections, news, bunch, loop>>
  BY DEF Command, loopVars
<1>2. Range(events') = Range(events) \cup {event}
  <2>1. events \in Seq(Event) /\ events' = Append(events, event)
    BY DEF ServerInvariant, Typed, Command
  <2> QED
    BY <2>1, AppendedRange
<1>3. \A e : Waiting(e) \/ e = event => Waiting(e)'
  BY <1>1, <1>2 DEF Waiting
<1>4. \A a : Transferring(a)' = Transferring(a)
  BY <1>1 DEF Transferring, Connected
<1>5. ASSUME NEW a \in Address
      PROVE  \/ instances'[a] = instances[a]
             \/ event = [type |-> "CloseConnection", addr |-> a]
  BY DEF Command, Event, ServerInvariant, Typed
<1> QED
  BY <1>1, <1>3, <1>4, <1>5 DEF ServerInvariant, InstanceFollows, Announcement

LEMMA PollFollows ==
  ASSUME ServerInvariant, NEW n \in 0..Len(news),
         instances' = Applied(SubSeq(news, 1, n)),
         news' = SubSeq(news, n + 1, Len(news)),
         UNCHANGED <<connections, made, events, bunch, loop>>
  PROVE  InstanceFollows'
<1>1. /\ \A a : Transferring(a)' = Transferring(a)
      /\ \A e : Waiting(e)' = Waiting(e)
  BY DEF Transferring, Connected, Waiting
<1>2. /\ DOMAIN news = 1..Len(news) /\ Len(news) \in Nat /\ n \in Nat /\ news \in Seq(News)
      /\ \A i \in 1..Len(news) : news[i].number \in Nat
  BY NewsTyped
<1>3. ASSUME NEW a \in Address, Transferring(a), loop # "stopped",
             ~Waiting([type |-> "CloseConnection", addr |-> a])
      PROVE  \/ instances'[a] = connections[a].number
             \/ Announcement(a, connections[a]) \in Range(news')
  <2>1. /\ connections[a].number = made[a] /\ made[a] \in Nat
        /\ \A i \in 1..Len(news) : news[i].addr = a =>
               instances[a] < news[i].number /\ news[i].number <= made[a]
    BY <1>2, <1>3 DEF ServerInvariant, Typed, Numbered, Transferring
  <2>2. \/ /\ \A i \in 1..n : news[i].addr # a
           /\ instances'[a] = instances[a]
        \/ \E m \in 1..n :
              /\ news[m].addr = a
              /\ instances'[a] = news[m].number
              /\ \A i \in 1..n : news[i].addr = a => i <= m
    BY AppliedValue
  <2>3. CASE instances[a] = connections[a].number
    <3>1. \A i \in 1..n : i \in 1..Len(news)
      BY <1>2
    <3>2. \A i \in 1..n : news[i].addr # a
      BY <1>2, <2>1, <2>3, <3>1
    <3> QED
      BY <2>2, <2>3, <3>2
  <2>4. CASE Announcement(a, connections[a]) \in Range(news)
    <3>1. PICK i \in 1..Len(news) : news[i] = Announcement(a, connections[a])
      BY <1>2, <2>4 DEF Range
    <3>2. news[i].addr = a /\ news[i].number = made[a]
      BY <2>1, <3>1 DEF Announcement
    <3>3. CASE i <= n
      <4>1. i \in 1..n
        BY <1>2, <3>3
      <4>2. PICK m \in 1..n : /\ news[m].addr = a
                              /\ instances'[a] = news[m].number
                              /\ i <= m
        BY <2>2, <3>2, <4>1
      <4>3. m \in 1..Len(news)
        BY <1>2
      <4>4. news[m].number >= made[a]
        <5>1. CASE i = m
          BY <2>1, <3>2, <5>1
        <5>2. CASE i < m
          <6>1. news[i].number < news[m].number
            BY <1>2, <3>2, <4>2, <4>3, <5>2 DEF ServerInvariant, Ascending
          <6> QED
            BY <1>2, <2>1, <3>2, <4>3, <6>1
        <5> QED
          BY <4>2, <5>1, <5>2
      <4>5. news[m].number <= made[a] /\ news[m].number \in Nat
        BY <1>2, <2>1, <4>2, <4>3
      <4> QED
        BY <2>1, <4>2, <4>4, <4>5
    <3>4. CASE i > n
      <4>1. /\ DOMAIN news' = 1..(Len(news) - n)
            /\ \A k \in 1..(Len(news) - n) : news'[k] = news[n + k]
        BY <1>2, LastPart
      <4>2. i - n \in 1..(Len(news) - n) /\ n + (i - n) = i
        BY <1>2, <3>4
      <4> QED
        BY <3>1, <4>1, <4>2 DEF Range
    <3> QED
      BY <1>2, <3>3, <3>4
  <2> QED
    BY <1>3, <2>3, <2>4 DEF ServerInvariant, InstanceFollows
<1>4. Range(news)' = Range(news')
  OBVIOUS
<1> QED
  BY <1>1, <1>3, <1>4 DEF InstanceFollows, Announcement

-----------------------------------------------------------------------------
LEMMA TakeBunchKeeps ==
  ASSUME ServerInvariant, TakeBunch
  PROVE  ServerInvariant'
<1> DEFINE n == IF Len(events) < BunchSize THEN Len(events) ELSE BunchSize
<1>1. /\ UNCHANGED <<connections, made, news, instances, closed, reader, writer, application, time0>>
      /\ loop = "take" /\ loop' = "handle"
      /\ bunch' = SubSeq(events, 1, n) /\ events' = SubSeq(events, n + 1, Len(events))
  BY DEF TakeBunch, appVars
<1>2. /\ now' \in {now, now + 1} /\ now' <= MaxTime
  BY DEF TakeBunch
<1>3. n \in 0..Len(events) /\ n <= BunchSize /\ events \in Seq(Event)
  BY BunchLength, ServerAssumption DEF ServerInvariant, Typed
<1> HIDE DEF n
<1>4. bunch' \in Seq(Event) /\ Len(bunch') <= BunchSize /\ events' \in Seq(Event)
  BY <1>1, <1>3, FirstPart, LastPart
<1>5. now' \in 0..MaxTime /\ now <= now' /\ now \in Nat /\ time0' \in 0..now'
  BY <1>1, <1>2, ServerAssumption DEF ServerInvariant, Typed
<1>6. connections' \in [Address -> {NotConnected} \cup Connection']
  <2>1. 0..now \subseteq 0..now'
    BY <1>5
  <2>2. Connection \subseteq Connection'
    BY <2>1 DEF Connection
  <2> QED
    BY <1>1, <2>2 DEF ServerInvariant, Typed
<1>7. Typed'
  BY <1>1, <1>4, <1>5, <1>6 DEF ServerInvariant, Typed, News
<1>8. Stops'
  BY <1>1 DEF ServerInvariant, Stops
<1>9. InstanceFollows'
  BY <1>1, TakeWaits, SameFollows
<1> QED
  BY <1>1, <1>7, <1>8, <1>9, SameNumbers DEF ServerInvariant

LEMMA HandleEventKeeps ==
  ASSUME ServerInvariant, HandleEvent
  PROVE  ServerInvariant'
<1> DEFINE event == Head(bunch)
<1>1. /\ loop = "handle" /\ bunch # <<>> /\ bunch' = Tail(bunch)
      /\ UNCHANGED <<events, time0, reader, writer, now, instances, application>>
  BY DEF HandleEvent, appVars
<1>2. /\ event \in Event /\ bunch' \in Seq(Event) /\ Len(bunch') = Len(bunch) - 1
      /\ Range(bunch) \subseteq {event} \cup Range(bunch')
  BY <1>1, TailRange DEF ServerInvariant, Typed
<1>3. Len(bunch') <= BunchSize
  BY <1>2, ServerAssumption DEF ServerInvariant, Typed
<1>4. Range(bunch)' = Range(bunch') /\ Range(events)' = Range(events)
  BY <1>1
<1>5. \A e : Waiting(e) => (Waiting(e)' \/ e = event)
  BY <1>2, <1>4 DEF Waiting
<1>6. closed = FALSE /\ reader = "running" /\ writer = "running"
  BY <1>1 DEF ServerInvariant, Typed, Stops
<1>7. /\ event.type = "Read" => event.addr \in Address /\ event.kind \in Kind
      /\ event.type \in {"Connect", "CloseConnection"} => event.addr \in Address
      /\ event.type \in {"Read", "Connect", "CloseConnection", "CloseServer"}
  BY <1>2 DEF Event
<1>8. CASE event.type = "Read"
  <2>0. PICK complete \in BOOLEAN : Read(event.addr, event.kind, complete)
    BY <1>8 DEF HandleEvent
  <2> DEFINE a == event.addr
             c == Handled(Opened(a), event.kind, complete)
  <2>1. Read(a, event.kind, complete)
    BY <2>0
  <2>2. /\ a \in Address /\ c \in Connection /\ c.number = Opened(a).number
        /\ Opened(a).transfer => c.transfer
    BY <1>7, <1>8, Opening, Handling
  <2>3. /\ connections' = [connections EXCEPT ![a] = c]
        /\ made' = [made EXCEPT ![a] = c.number]
        /\ news' = IF c.transfer /\ ~Opened(a).transfer
                   THEN Append(news, Announcement(a, c)) ELSE news
        /\ loop' = "handle" /\ closed' = closed
    BY <2>1 DEF Read
  <2>4. \A b \in Address : Waiting([type |-> "CloseConnection", addr |-> b])
            => Waiting([type |-> "CloseConnection", addr |-> b])'
    BY <1>5, <1>8
  <2> HIDE DEF event, c, a
  <2>5. Numbered' /\ Ascending' /\ news' \in Seq(News)
    BY <1>1, <2>2, <2>3, ReplacedNumbers
  <2>6. InstanceFollows'
    <3>1. loop # "stopped"
      BY <1>1
    <3> QED
      BY <1>1, <2>2, <2>3, <2>4, <3>1, ReplacedFollows
  <2>7. /\ connections' \in [Address -> {NotConnected} \cup Connection']
        /\ made' \in [Address -> Nat]
    <3>1. Connection' = Connection /\ c.number \in Nat
      BY <1>1, <2>2 DEF Connection
    <3> QED
      BY <2>2, <2>3, <3>1 DEF ServerInvariant, Typed
  <2>8. Typed' /\ Stops'
    BY <1>1, <1>2, <1>3, <1>6, <2>3, <2>5, <2>7 DEF ServerInvariant, Typed, Stops, News
  <2> QED
    BY <2>5, <2>6, <2>8 DEF ServerInvariant
<1>9. CASE event.type = "Connect"
  <2> DEFINE a == event.addr
             c == Opened(a)
  <2>1. Connect(a)
    BY <1>9 DEF HandleEvent
  <2>2. a \in Address /\ c \in Connection
    BY <1>7, <1>9, Opening
  <2>3. /\ connections' = [connections EXCEPT ![a] = c]
        /\ made' = [made EXCEPT ![a] = c.number]
        /\ news' = IF c.transfer /\ ~Opened(a).transfer
                   THEN Append(news, Announcement(a, c)) ELSE news
        /\ loop' = "handle" /\ closed' = closed
    BY <2>1 DEF Connect
  <2>4. \A b \in Address : Waiting([type |-> "CloseConnection", addr |-> b])
            => Waiting([type |-> "CloseConnection", addr |-> b])'
    BY <1>5, <1>9
  <2>5. c.number = Opened(a).number /\ (Opened(a).transfer => c.transfer)
    OBVIOUS
  <2> HIDE DEF event, c, a
  <2>6. Numbered' /\ Ascending' /\ news' \in Seq(News)
    BY <1>1, <2>2, <2>3, <2>5, ReplacedNumbers
  <2>7. InstanceFollows'
    <3>1. loop # "stopped"
      BY <1>1
    <3> QED
      BY <1>1, <2>2, <2>3, <2>4, <2>5, <3>1, ReplacedFollows
  <2>8. /\ connections' \in [Address -> {NotConnected} \cup Connection']
        /\ made' \in [Address -> Nat]
    <3>1. Connection' = Connection /\ c.number \in Nat
      BY <1>1, <2>2 DEF Connection
    <3> QED
      BY <2>2, <2>3, <3>1 DEF ServerInvariant, Typed
  <2>9. Typed' /\ Stops'
    BY <1>1, <1>2, <1>3, <1>6, <2>3, <2>6, <2>8 DEF ServerInvariant, Typed, Stops, News
  <2> QED
    BY <2>6, <2>7, <2>9 DEF ServerInvariant
<1>10. CASE event.type = "CloseConnection"
  <2> DEFINE a == event.addr
  <2>1. a \in Address /\ CloseConnection(a)
    BY <1>7, <1>10 DEF HandleEvent
  <2>2. \A b \in Address : b # a =>
           (Waiting([type |-> "CloseConnection", addr |-> b])
               => Waiting([type |-> "CloseConnection", addr |-> b])')
    BY <1>5
  <2> HIDE DEF event, a
  <2>3. Numbered' /\ Ascending'
    BY <1>1, <2>1, ClosedNumbers
  <2>4. InstanceFollows'
    <3>1. loop # "stopped"
      BY <1>1
    <3> QED
      BY <1>1, <2>1, <2>2, <3>1, ClosedFollows
  <2>5. /\ connections' = [connections EXCEPT ![a] = NotConnected]
        /\ loop' = "handle" /\ UNCHANGED <<made, news, closed>>
    BY <2>1 DEF CloseConnection
  <2>6. connections' \in [Address -> {NotConnected} \cup Connection']
    <3>1. Connection' = Connection
      BY <1>1 DEF Connection
    <3> QED
      BY <2>1, <2>5, <3>1 DEF ServerInvariant, Typed
  <2>7. Typed' /\ Stops'
    BY <1>1, <1>2, <1>3, <1>6, <2>5, <2>6 DEF ServerInvariant, Typed, Stops, News
  <2> QED
    BY <2>3, <2>4, <2>7 DEF ServerInvariant
<1>11. CASE event.type = "CloseServer"
  <2>1. /\ closed' = TRUE /\ loop' = "stopped" /\ UNCHANGED <<connections, made, news>>
    BY <1>11 DEF HandleEvent, CloseServer
  <2> HIDE DEF event
  <2>2. Numbered' /\ Ascending'
    BY <1>1, <2>1, SameNumbers
  <2>3. InstanceFollows'
    BY <2>1 DEF InstanceFollows
  <2>4. connections' \in [Address -> {NotConnected} \cup Connection']
    <3>1. Connection' = Connection
      BY <1>1 DEF Connection
    <3> QED
      BY <2>1, <3>1 DEF ServerInvariant, Typed
  <2>5. Typed' /\ Stops'
    BY <1>1, <1>2, <1>3, <2>1, <2>4 DEF ServerInvariant, Typed, Stops, News
  <2> QED
    BY <2>2, <2>3, <2>5 DEF ServerInvariant
<1> QED
  BY <1>7, <1>8, <1>9, <1>10, <1>11

\* The other steps of the loop change nothing that the invariant is about.
LEMMA PassKeeps ==
  ASSUME ServerInvariant, UpdatePass \/ SkipPass
  PROVE  ServerInvariant'
<1>1. /\ UNCHANGED <<connections, news>>
      /\ UNCHANGED <<events, bunch, closed, made, reader, writer, now, instances, application>>
      /\ loop = "handle" /\ loop' = "take" /\ bunch = <<>> /\ time0' \in {time0, now}
  BY UpdateKeeps DEF UpdatePass, SkipPass, appVars
<1>2. InstanceFollows'
  BY <1>1, SameFollows
<1>3. now \in 0..now /\ Connection' = Connection
  BY <1>1 DEF ServerInvariant, Typed, Connection
<1>4. Typed' /\ Stops'
  BY <1>1, <1>3 DEF ServerInvariant, Typed, Stops, News
<1> QED
  BY <1>1, <1>2, <1>4, SameNumbers DEF ServerInvariant

LEMMA ThreadsKeep ==
  ASSUME ServerInvariant, ReadLoop \/ WriteLoop
  PROVE  ServerInvariant'
<1>1. /\ UNCHANGED <<bunch, connections, loop, closed, time0, made, news, now, instances, application>>
      /\ reader' \in {"running", "stopped"} /\ writer' \in {"running", "stopped"}
      /\ (reader' = "stopped" \/ writer' = "stopped") => closed
  BY DEF ReadLoop, WriteLoop, loopVars, appVars, ServerInvariant, Typed, Stops
<1>2. events' \in Seq(Event) /\ Range(events) \subseteq Range(events')
  <2>1. CASE events' = events
    BY <2>1 DEF ServerInvariant, Typed
  <2>2. ASSUME NEW e \in Event, events' = Append(events, e)
        PROVE  events' \in Seq(Event) /\ Range(events) \subseteq Range(events')
    BY <2>2, Appended, AppendedRange DEF ServerInvariant, Typed
  <2>3. events' = events \/ \E e \in Event : events' = Append(events, e)
    BY DEF ReadLoop, WriteLoop, Event
  <2> QED
    BY <2>1, <2>2, <2>3
<1>3. InstanceFollows'
  <2>1. Range(events) \cup Range(bunch) \subseteq Range(events)' \cup Range(bunch)'
    BY <1>1, <1>2
  <2> QED
    BY <1>1, <2>1, SameFollows
<1>4. Connection' = Connection
  BY <1>1 DEF Connection
<1>5. Typed' /\ Stops'
  BY <1>1, <1>2, <1>4 DEF ServerInvariant, Typed, Stops, News
<1> QED
  BY <1>1, <1>3, <1>5, SameNumbers DEF ServerInvariant

LEMMA ApplicationKeeps ==
  ASSUME ServerInvariant,
         Poll \/ NoCommand \/ \E event \in {e \in Event : e.type # "Read"} : Command(event)
  PROVE  ServerInvariant'
<1>1. /\ UNCHANGED <<bunch, connections, loop, closed, time0, made, reader, writer, now>>
      /\ application' \in {"poll", "command"}
  BY DEF Poll, NoCommand, Command, loopVars
<1>2. Connection' = Connection
  BY <1>1 DEF Connection
<1>3. ASSUME events' \in Seq(Event), news' \in Seq(News), instances' \in [Address -> Nat]
      PROVE  Typed' /\ Stops'
  BY <1>1, <1>2, <1>3 DEF ServerInvariant, Typed, Stops, News
<1>4. CASE Poll
  <2> DEFINE n == IF Len(news) < NewsSize THEN Len(news) ELSE NewsSize
  <2>1. /\ instances' = Applied(SubSeq(news, 1, n))
        /\ news' = SubSeq(news, n + 1, Len(news))
        /\ events' = events
    BY <1>4 DEF Poll
  <2>2. n \in 0..Len(news)
    BY NewsTyped, BunchLength, ServerAssumption
  <2> HIDE DEF n
  <2>3. InstanceFollows'
    BY <1>1, <2>1, <2>2, PollFollows
  <2>4. /\ Numbered' /\ Ascending' /\ news' \in Seq(News)
        /\ instances' \in [Address -> Nat]
    BY <1>1, <2>1, <2>2, PollNumbers
  <2> QED
    BY <1>3, <2>1, <2>3, <2>4 DEF ServerInvariant, Typed
<1>5. CASE NoCommand
  <2>1. UNCHANGED <<events, news, instances>>
    BY <1>5 DEF NoCommand
  <2>2. InstanceFollows'
    BY <1>1, <2>1, SameFollows
  <2> QED
    BY <1>1, <1>3, <2>1, <2>2, SameNumbers DEF ServerInvariant, Typed
<1>6. ASSUME NEW event \in Event, Command(event)
      PROVE  ServerInvariant'
  <2>1. events' \in Seq(Event) /\ news' = news
    BY <1>6, Appended DEF Command, ServerInvariant, Typed
  <2>2. InstanceFollows'
    BY <1>6, CommandFollows
  <2>3. Numbered' /\ Ascending' /\ instances' \in [Address -> Nat]
    BY <1>6, CommandNumbers
  <2> QED
    BY <1>3, <2>1, <2>2, <2>3 DEF ServerInvariant, Typed
<1> QED
  BY <1>4, <1>5, <1>6

\* The inductive invariant: the announcements that wait are those of newer and
\* newer connections, none that the application has already replaced.
THEOREM ServerCorrect == Spec => []ServerInvariant
<1>1. Init => ServerInvariant
  <2> SUFFICES ASSUME Init PROVE ServerInvariant
    OBVIOUS
  <2>1. \A a \in Address : ~Connected(a) /\ ~Transferring(a)
    BY DEF Init, Connected, Transferring
  <2>2. Typed
    <3>1. BunchSize \in Nat /\ MaxTime \in Nat
      BY ServerAssumption
    <3>2. /\ events \in Seq(Event) /\ news \in Seq(News)
          /\ bunch \in Seq(Event) /\ Len(bunch) = 0
      BY DEF Init
    <3>3. /\ connections \in [Address -> {NotConnected} \cup Connection]
          /\ made \in [Address -> Nat] /\ instances \in [Address -> Nat]
      BY DEF Init
    <3>4. now \in 0..MaxTime /\ time0 \in 0..now /\ Len(bunch) <= BunchSize
      BY <3>1, <3>2 DEF Init
    <3>5. /\ loop = "take" /\ closed = FALSE /\ reader = "running" /\ writer = "running"
          /\ application = "poll"
      BY DEF Init
    <3> QED
      BY <3>2, <3>3, <3>4, <3>5 DEF Typed
  <2>3. Stops
    BY DEF Init, Stops
  <2>4. Numbered /\ Ascending /\ InstanceFollows
    BY <2>1 DEF Init, Numbered, Ascending, InstanceFollows, Unannounced
  <2> QED
    BY <2>2, <2>3, <2>4 DEF ServerInvariant
<1>2. ServerInvariant /\ [Next]_vars => ServerInvariant'
  <2> SUFFICES ASSUME ServerInvariant, [Next]_vars PROVE ServerInvariant'
    OBVIOUS
  <2>1. CASE UNCHANGED vars
    <3>1. /\ UNCHANGED <<events, news, reader, writer, now>>
          /\ UNCHANGED <<bunch, connections, loop, closed, time0, made>>
          /\ UNCHANGED <<instances, application>>
      BY <2>1 DEF vars, loopVars, appVars
    <3>2. InstanceFollows'
      BY <3>1, SameFollows
    <3>3. Typed' /\ Stops'
      BY <3>1 DEF ServerInvariant, Typed, Stops, News, Connection
    <3> QED
      BY <3>1, <3>2, <3>3, SameNumbers DEF ServerInvariant
  <2> QED
    BY <2>1, TakeBunchKeeps, HandleEventKeeps, PassKeeps, ThreadsKeep, ApplicationKeeps
       DEF Next, LoopStep
<1> QED
  BY <1>1, <1>2, PTL DEF Spec

\* The types, that connections and their count agree, and that the flag which
\* stops the other threads is up when, and only when, the loop has ended.
THEOREM TypeCorrect == Spec => []TypeOK
<1>1. ServerInvariant => TypeOK
  BY DEF ServerInvariant, Typed, Stops, Numbered, TypeOK
<1> QED
  BY <1>1, ServerCorrect, PTL

\* Whatever the user asks for and whatever packets come in whatever order, the
\* application has the connection that the server has in the transfer phase,
\* or is about to learn of it, or has asked for its end itself.
THEOREM ApplicationFollows == Spec => []InstanceFollows
<1>1. ServerInvariant => InstanceFollows
  BY DEF ServerInvariant
<1> QED
  BY <1>1, ServerCorrect, PTL

\* The application never goes back to a connection that was replaced.
THEOREM ApplicationNeverOlder == Spec => NeverOlder
<1>1. ServerInvariant /\ [Next]_vars =>
          [\A a \in Address : instances'[a] # 0 => instances'[a] >= instances[a]]_vars
  <2> SUFFICES ASSUME ServerInvariant, Next
               PROVE  \A a \in Address : instances'[a] # 0 => instances'[a] >= instances[a]
    OBVIOUS
  <2>1. \A a \in Address : instances[a] \in Nat
    BY DEF ServerInvariant, Typed
  <2>2. CASE Poll
    <3> DEFINE n == IF Len(news) < NewsSize THEN Len(news) ELSE NewsSize
    <3>1. /\ instances' = Applied(SubSeq(news, 1, n))
          /\ news' = SubSeq(news, n + 1, Len(news))
          /\ UNCHANGED <<connections, made>>
      BY <2>2 DEF Poll, loopVars
    <3>2. n \in 0..Len(news)
      BY NewsTyped, BunchLength, ServerAssumption
    <3> HIDE DEF n
    <3> QED
      BY <3>1, <3>2, PollNumbers
  <2>3. ASSUME NEW event \in Event, Command(event)
        PROVE  \A a \in Address : instances'[a] # 0 => instances'[a] >= instances[a]
    BY <2>1, <2>3 DEF Command, ServerInvariant, Typed
  <2>4. CASE LoopStep \/ ReadLoop \/ WriteLoop \/ NoCommand
    <3>1. instances' = instances
      BY <2>4 DEF LoopStep, TakeBunch, HandleEvent, UpdatePass, SkipPass, ReadLoop,
                  WriteLoop, NoCommand, appVars
    <3> QED
      BY <2>1, <3>1
  <2> QED
    BY <2>2, <2>3, <2>4 DEF Next
<1> QED
  BY <1>1, ServerCorrect, PTL DEF Spec, NeverOlder
=============================================================================
