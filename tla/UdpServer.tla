------------------------------ MODULE UdpServer -----------------------------
(***************************************************************************)
(* A server of src/net/udp.rs: the event loop with its connections, the    *)
(* read and the write thread, and an application like the one of           *)
(* examples/chat.rs, joined by queues (ManyToSingleChannel, here first-in  *)
(* first-out queues, which that module implements).                        *)
(*                                                                         *)
(* A connection is reduced to what decides its state, and a packet to what *)
(* it does to that (Connection has both in detail).  A connection that is  *)
(* closed can come back as a new one, so connections are numbered here.    *)
(* Sending, which does not change a connection's state, is left to         *)
(* Connection.  A tick of the clock is a bit more than DELTA_MIN.          *)
(***************************************************************************)
EXTENDS Naturals, Sequences, SequencesExt

CONSTANTS Address,             \* the peers
          BunchSize,           \* events the loop takes at a time, 16
          NewsSize,            \* and the application, 8
          ConnectionTimeout,   \* CONNECTION_TIMEOUT
          MaxTime,             \* a bound on the clock
          MaxEvents,           \* a bound on the events waiting
          MaxCommands          \* a bound on the application's commands

ASSUME ServerAssumption ==
    /\ {BunchSize, NewsSize} \subseteq Nat \ {0}
    /\ {ConnectionTimeout, MaxTime, MaxEvents, MaxCommands} \subseteq Nat

VARIABLES events,        \* event_queue
          bunch,         \* the events the loop has taken
          connections,   \* the connections of the loop
          loop,          \* where the loop is
          reader,        \* where the read thread is
          writer,        \* where the write thread is
          closed,        \* the flag that stops the two
          news,          \* new_connections
          instances,     \* connection_instances of the application
          application,   \* where the application is in its own loop
          now,           \* the clock
          time0,         \* the time of the last update pass
          made,          \* history: per peer, how many connections there were
          commands       \* the commands given so far, for their bound

loopVars == <<bunch, connections, loop, closed, time0, made>>
appVars  == <<instances, application, commands>>
vars     == <<events, news, reader, writer, now, loopVars, appVars>>

\* What a packet is to the connection it comes on: a registration, the last
\* one, an acknowledgement of the last one, a message or acknowledgement of
\* the transfer phase.
Kind == {"registration", "last", "ack", "data"}

Event == [type : {"Read"}, addr : Address, kind : Kind]
         \cup [type : {"Connect", "CloseConnection"}, addr : Address]
         \cup [type : {"CloseServer"}]

NotConnected == [number |-> 0]

New(n) == [number |-> n, transfer |-> FALSE, received_last |-> FALSE,
           acknowledged |-> FALSE, heard |-> now]

Connected(a) == connections[a] # NotConnected
Transferring(a) == Connected(a) /\ connections[a].transfer
-----------------------------------------------------------------------------
(* The event loop *)

\* What the registration phase makes of a packet: the state changes when the
\* last registration has come and that of this side is acknowledged.
Registered(c, kind) ==
    LET last == c.received_last \/ kind = "last"
        ack  == c.acknowledged \/ kind = "ack"
    IN [c EXCEPT !.received_last = last, !.acknowledged = ack,
                 !.transfer = last /\ ack, !.heard = now]

\* handle_message(): a packet of the transfer phase is known, and changes the
\* state, once the last registration has come; those of the registration
\* phase are unknown from then on.  A packet that came before, that cannot be
\* acknowledged or ordered, or that is a segment of a message with others
\* missing, is not handled to the end: the state may have changed by then, and
\* the peer does not count as heard of.
Handled(c, kind, complete) ==
    CASE kind = "data" /\ (c.transfer \/ c.received_last) ->
             [c EXCEPT !.transfer = TRUE, !.heard = IF complete THEN now ELSE @]
      [] kind \in {"registration", "last", "ack"} /\ ~c.transfer /\ complete ->
             Registered(c, kind)
      [] OTHER -> c

\* The first packet makes the connection (initialize_connection).
Opened(a) == IF Connected(a) THEN connections[a] ELSE New(made[a] + 1)

Announcement(a, c) == [type |-> "Connected", addr |-> a, number |-> c.number]

\* Bug: a connection that a message brought into the transfer phase is not
\* announced.
ReadAnnouncingSome(a, kind, complete) ==
    LET c == Handled(Opened(a), kind, complete) IN
    /\ connections' = [connections EXCEPT ![a] = c]
    /\ made' = [made EXCEPT ![a] = c.number]
    /\ news' = IF kind # "data" /\ c.transfer /\ ~Opened(a).transfer
               THEN Append(news, Announcement(a, c)) ELSE news
    /\ loop' = "handle"
    /\ UNCHANGED closed

\* UdpEvent::Read: a connection that comes into the transfer phase is
\* announced.
Read(a, kind, complete) ==
    LET c == Handled(Opened(a), kind, complete) IN
    /\ connections' = [connections EXCEPT ![a] = c]
    /\ made' = [made EXCEPT ![a] = c.number]
    /\ news' = IF c.transfer /\ ~Opened(a).transfer
               THEN Append(news, Announcement(a, c)) ELSE news
    /\ loop' = "handle"
    /\ UNCHANGED closed

\* UdpEvent::Connect: nothing happens to a connection that is there.
Connect(a) ==
    /\ connections' = [connections EXCEPT ![a] = Opened(a)]
    /\ made' = [made EXCEPT ![a] = Opened(a).number]
    /\ loop' = "handle"
    /\ UNCHANGED <<news, closed>>

\* UdpEvent::CloseConnection: forgotten without a word to the peer.
CloseConnection(a) ==
    /\ connections' = [connections EXCEPT ![a] = NotConnected]
    /\ loop' = "handle"
    /\ UNCHANGED <<made, news, closed>>

\* Bug: the loop ends, and nobody tells the other threads.
CloseServerSilently ==
    /\ loop' = "stopped"
    /\ UNCHANGED <<connections, made, news, closed>>

\* UdpEvent::CloseServer: the rest of the bunch is not handled.
CloseServer ==
    /\ closed' = TRUE
    /\ loop' = "stopped"
    /\ UNCHANGED <<connections, made, news>>

\* wait_and_take_bunch(), whose wait ends by READ_TIMEOUT if not before: this
\* is where time passes.
TakeBunch ==
    LET n == IF Len(events) < BunchSize THEN Len(events) ELSE BunchSize IN
    /\ loop = "take"
    /\ now' \in {t \in {now, now + 1} : t <= MaxTime}
    /\ bunch' = SubSeq(events, 1, n)
    /\ events' = SubSeq(events, n + 1, Len(events))
    /\ loop' = "handle"
    /\ UNCHANGED <<connections, closed, time0, made, news, reader, writer, appVars>>

HandleEvent ==
    /\ loop = "handle" /\ bunch # <<>>
    /\ LET event == Head(bunch) IN
       CASE event.type = "Read"            ->
                \E complete \in BOOLEAN : Read(event.addr, event.kind, complete)
         [] event.type = "Connect"         -> Connect(event.addr)
         [] event.type = "CloseConnection" -> CloseConnection(event.addr)
         [] event.type = "CloseServer"     -> CloseServer
    /\ bunch' = Tail(bunch)
    /\ UNCHANGED <<events, time0, reader, writer, now, appVars>>

\* Instant::duration_since() saturates at zero.
DurationSince(instant, earlier) ==
    IF earlier <= instant THEN instant - earlier ELSE 0

\* The connections an update pass at the present time gives up: the time of
\* the last packet is asked for its distance from the present.
Silent == {a \in Address : /\ Connected(a)
                           /\ DurationSince(connections[a].heard, now) > ConnectionTimeout}

\* The update pass, when more than DELTA_MIN has passed since the last one.
\* Connections that are given up are announced as timed out.
UpdatePass ==
    /\ loop = "handle" /\ bunch = <<>>
    /\ now > time0
    /\ time0' = now
    /\ connections' = [a \in Address |->
                          IF a \in Silent THEN NotConnected ELSE connections[a]]
    /\ news' = news \o SetToSeq({[type |-> "TimedOut", addr |-> a] : a \in Silent})
    /\ loop' = "take"
    /\ UNCHANGED <<events, bunch, closed, made, reader, writer, now, appVars>>

\* The same end of an iteration when less has passed.
SkipPass ==
    /\ loop = "handle" /\ bunch = <<>>
    /\ now = time0
    /\ loop' = "take"
    /\ UNCHANGED <<events, bunch, connections, closed, time0, made, news,
                   reader, writer, now, appVars>>
-----------------------------------------------------------------------------
(* The other threads and the application *)

\* An iteration of udp_read_loop(): a packet or none within its timeout, and
\* then the flag.
ReadLoop ==
    /\ reader = "running"
    /\ \/ UNCHANGED events
       \/ /\ Len(events) < MaxEvents
          /\ \E a \in Address, kind \in Kind :
                 events' = Append(events, [type |-> "Read", addr |-> a, kind |-> kind])
    /\ reader' = IF closed THEN "stopped" ELSE "running"
    /\ UNCHANGED <<news, writer, now, loopVars, appVars>>

\* An iteration of udp_write_loop(), whose wait has a timeout as well.
WriteLoop ==
    /\ writer = "running" /\ closed
    /\ writer' = "stopped"
    /\ UNCHANGED <<events, news, reader, now, loopVars, appVars>>

\* What the application makes of the announcements, in their order.
Applied(batch) ==
    [a \in Address |->
        LET about == {i \in DOMAIN batch : batch[i].addr = a}
            last  == batch[Max(about)]
        IN IF about = {} THEN instances[a]
           ELSE IF last.type = "Connected" THEN last.number ELSE 0]

\* Bug: the announcements are taken from the wrong end of the queue.
PollLatest ==
    /\ application = "poll"
    /\ LET n == IF Len(news) < NewsSize THEN Len(news) ELSE NewsSize IN
       /\ instances' = Applied(SubSeq(Reverse(news), 1, n))
       /\ news' = SubSeq(news, 1, Len(news) - n)
    /\ application' = "command"
    /\ UNCHANGED <<events, reader, writer, now, loopVars, commands>>

\* The beginning of the application's loop: wait_and_take_bunch() without
\* waiting.
Poll ==
    /\ application = "poll"
    /\ LET n == IF Len(news) < NewsSize THEN Len(news) ELSE NewsSize IN
       /\ instances' = Applied(SubSeq(news, 1, n))
       /\ news' = SubSeq(news, n + 1, Len(news))
    /\ application' = "command"
    /\ UNCHANGED <<events, reader, writer, now, loopVars, commands>>

\* The rest of the application's loop: one command, which is an event.  The
\* user who disconnects no longer has the connection.
Command(event) ==
    /\ application = "command"
    /\ commands < MaxCommands /\ Len(events) < MaxEvents
    /\ events' = Append(events, event)
    /\ instances' = IF event.type = "CloseConnection"
                    THEN [instances EXCEPT ![event.addr] = 0] ELSE instances
    /\ application' = "poll"
    /\ commands' = commands + 1
    /\ UNCHANGED <<news, reader, writer, now, loopVars>>

\* Input that is no command.
NoCommand ==
    /\ application = "command"
    /\ application' = "poll"
    /\ UNCHANGED <<events, news, reader, writer, now, loopVars, instances, commands>>

Init == /\ events = <<>> /\ bunch = <<>> /\ news = <<>>
        /\ connections = [a \in Address |-> NotConnected]
        /\ made = [a \in Address |-> 0]
        /\ loop = "take" /\ reader = "running" /\ writer = "running"
        /\ closed = FALSE
        /\ instances = [a \in Address |-> 0]
        /\ application = "poll" /\ commands = 0
        /\ now = 0 /\ time0 = 0

LoopStep == TakeBunch \/ HandleEvent \/ UpdatePass \/ SkipPass

Next == \/ LoopStep \/ ReadLoop \/ WriteLoop
        \/ Poll \/ NoCommand
        \/ \E event \in {e \in Event : e.type # "Read"} : Command(event)

\* No thread waits without a timeout, so each comes round its loop time and
\* again.  The application, which waits for its user, may not.
Spec == /\ Init
        /\ [][Next]_vars
        /\ WF_vars(LoopStep) /\ WF_vars(ReadLoop) /\ WF_vars(WriteLoop)
-----------------------------------------------------------------------------
\* Types; the numbers of the connections go with their count, and the flag that
\* stops the other two threads with the end of the loop.
TypeOK ==
    /\ events \in Seq(Event) /\ bunch \in Seq(Event) /\ Len(bunch) <= BunchSize
    /\ \A a \in Address :
          /\ Connected(a) => connections[a].number = made[a]
          /\ instances[a] \in 0..made[a]
    /\ loop \in {"take", "handle", "stopped"} /\ closed \in BOOLEAN
    /\ {reader, writer} \subseteq {"running", "stopped"}
    /\ application \in {"poll", "command"}
    /\ now \in 0..MaxTime /\ time0 \in 0..now
    /\ closed <=> (loop = "stopped")
    /\ "stopped" \in {reader, writer} => closed

\* What the application can read from is the connection the server has, if
\* that has come into the transfer phase: or it is about to learn of it, or it
\* has asked for its end itself.  Closing forgets a connection that a late
\* packet then brings back under another number, with another buffer.
Waiting(event) == event \in Range(events) \cup Range(bunch)

InstanceFollows ==
    \A a \in Address :
        (Transferring(a) /\ loop # "stopped") =>
            \/ instances[a] = connections[a].number
            \/ Announcement(a, connections[a]) \in Range(news)
            \/ Waiting([type |-> "CloseConnection", addr |-> a])

\* The application never goes back to a connection that was replaced.
NeverOlder ==
    [][\A a \in Address : instances'[a] # 0 => instances'[a] >= instances[a]]_vars

\* Asked to close, the server stops all its threads: the loop, which may have
\* other events before it, and the two that only see the flag.
Shutdown ==
    Waiting([type |-> "CloseServer"])
        ~> (loop = "stopped" /\ reader = "stopped" /\ writer = "stopped")

\* "thus if the client didn't get anything in a long time ..." (the comment in
\* the update pass), "Got no message ... in a long time, hence forgetting about
\* it" (its log): no connection outlives an update pass after a silence of
\* more than CONNECTION_TIMEOUT.
SilentForgotten ==
    \A a \in Address :
        Connected(a) => ~(connections[a].heard + ConnectionTimeout < time0)
=============================================================================
