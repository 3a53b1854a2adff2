------------------------------- MODULE Forza --------------------------------
(***************************************************************************)
(* plugins/forza/forza.cpp: a thread that reads the game's UDP telemetry,  *)
(* hands it to the host, and reports the vehicle gone after a silence.     *)
(*                                                                         *)
(* A packet is abstracted to what ForzaTelemetry.h's parse() makes of it:  *)
(* a frame with or without the dash block, or none.  The game (external)   *)
(* starts, pauses and stops sending at will.  poll() returns before the    *)
(* clock is read: the thread may be delayed, and datagrams may arrive, in  *)
(* between, before recv(), before the publish and before the silence is    *)
(* acted upon.                                                             *)
(***************************************************************************)
EXTENDS StateStore, Sequences

CONSTANTS
    PollWait,     \* 100 ms in the code: the poll() timeout
    PublishGap,   \* 20 ms: publishes are at least this far apart
    Timeout,      \* timeoutMs: silence after which the vehicle is gone
    GameLamps,    \* the lamps a dash block may light: PARK_BRAKE and LOW_FUEL
    MaxLag,       \* how late the thread may be: for poll()'s timeout, for a
                  \* datagram in the socket, and after it has read its clock
    ForzaTime,    \* bound of the model: the clock stops here
    MaxQueue      \* bound of the model: datagrams in the socket

\* create() refuses a timeout below 100 ms.
ForzaConstants ==
    /\ {PollWait, PublishGap} \subseteq Nat \ {0}
    /\ {Timeout, MaxLag, ForzaTime, MaxQueue} \subseteq Nat
    /\ GameLamps \subseteq {"PARK_BRAKE", "LOW_FUEL"}
    /\ PublishGap <= PollWait
    /\ PollWait <= Timeout

VARIABLES
    now,          \* steady clock
    pc,           \* where the plugin thread is
    running,      \* the plugin's running flag
    link,         \* what the host was told by set_link
    published,    \* the vehicle state the host was given last
    publishedAt   \* when

VARIABLES
    queue,        \* datagrams that were not read, with their times of arrival
    wakeBy,       \* when poll() times out
    loopNow,      \* `now` of this pass of the loop
    frame,        \* the frame that is to be published
    linked, lastPacket, lastPublish,
    seenAt        \* history: when the telemetry that was read last had arrived

hostVars  == <<link, published, publishedAt>>
loopVars  == <<wakeBy, loopNow, frame>>
trackVars == <<linked, lastPacket, lastPublish>>
forzaVars == <<queue, loopVars, trackVars, seenAt>>
vars == <<now, pc, running, hostVars, forzaVars>>

Never == -1
NoFrame == [kind |-> "none", lamps |-> {}]

\* A datagram: telemetry with or without a dash block; one of another size or
\* with a value out of range; or an empty one.
Telemetry == {"dash", "sled"}
Packets == [kind: {"dash"}, lamps: SUBSET GameLamps]
              \cup [kind: {"sled", "junk", "empty"}, lamps: {{}}]
Datagrams == [packet: Packets, at: Nat]
parse(packet) == packet.kind \in Telemetry

ForzaInit ==
    /\ queue = <<>>
    /\ wakeBy = 0
    /\ loopNow = 0
    /\ frame = NoFrame
    /\ linked = FALSE
    /\ lastPacket = Never
    /\ lastPublish = 0
    /\ seenAt = Never

\* start() has bound the socket and started the thread.
Init ==
    /\ now = 0
    /\ pc = "top"
    /\ running = TRUE
    /\ link = "unknown"
    /\ published = NoState
    /\ publishedAt = Never
    /\ ForzaInit
-----------------------------------------------------------------------------
\* Mutant: a sled packet is advertised like a dash packet, without the values.
stateFromSled(f) ==
    LET base == {"SPEED", "RPM", "GEAR", "POWER_STATE"}
        dash == {"MOTOR_POWER", "FUEL_LEVEL", "ODOMETER"}
    IN  [capable |-> IF f.kind = "dash" THEN base \cup dash ELSE base,
         valid   |-> base \cup dash, unknown |-> {}, lamps |-> f.lamps]

\* The vehicle state of publish(): everything advertised is valid, and the dash
\* block adds three signals and the lamps.
stateOf(f) ==
    LET cap == {"SPEED", "RPM", "GEAR", "POWER_STATE"}
               \cup IF f.kind = "dash" THEN {"MOTOR_POWER", "FUEL_LEVEL", "ODOMETER"}
                                       ELSE {}
    IN  [capable |-> cap, valid |-> cap, unknown |-> {}, lamps |-> f.lamps]

LoopTop ==
    /\ pc = "top"
    /\ \/ running /\ pc' = "poll" /\ wakeBy' = now + PollWait
       \/ ~running /\ pc' = "done" /\ UNCHANGED wakeBy
    /\ UNCHANGED <<now, running, hostVars, queue, loopNow, frame, trackVars, seenAt>>

\* poll() returns: there is a datagram, or its time is up.
PollReturn ==
    /\ pc = "poll"
    /\ \/ queue # <<>> /\ pc' = "ready"
       \/ queue = <<>> /\ now >= wakeBy /\ pc' = "timedOut"
    /\ UNCHANGED <<now, running, hostVars, queue, loopVars, trackVars, seenAt>>

\* After a timeout the clock is read, and nothing else is done before the check.
PollTimeout ==
    /\ pc = "timedOut"
    /\ loopNow' = now
    /\ pc' = "check"
    /\ UNCHANGED <<now, running, hostVars, queue, wakeBy, frame, trackVars, seenAt>>

\* Otherwise the clock is read and then the first datagram.
receive ==
    /\ pc = "ready"
    /\ queue' = Tail(queue)
    /\ loopNow' = now

\* Mutant: any packet counts as a sign of the game.
ReceiveOtherCounts ==
    /\ receive
    /\ ~parse(Head(queue).packet)
    /\ lastPacket' = now
    /\ pc' = "check"
    /\ UNCHANGED <<now, running, hostVars, wakeBy, frame, linked, lastPublish, seenAt>>

\* A datagram that is no telemetry; the first is logged, and noted as if it were.
ReceiveOther ==
    /\ receive
    /\ ~parse(Head(queue).packet)
    /\ lastPacket' = IF Head(queue).packet.kind # "empty" /\ lastPacket < 0 THEN now
                                                                            ELSE lastPacket
    /\ pc' = "check"
    /\ UNCHANGED <<now, running, hostVars, wakeBy, frame, linked, lastPublish, seenAt>>

\* The rate limit: a packet is published if the last was published long enough ago.
rateLimit ==
    \/ now - lastPublish >= PublishGap /\ pc' = "publish" /\ frame' = Head(queue).packet
    \/ now - lastPublish < PublishGap /\ pc' = "check" /\ UNCHANGED frame

\* Mutant: only the packet that brings the link up counts.
ReceiveTelemetryFirst ==
    /\ receive
    /\ parse(Head(queue).packet)
    /\ link' = IF linked THEN link ELSE "up"
    /\ linked' = TRUE
    /\ lastPacket' = IF linked THEN lastPacket ELSE now
    /\ seenAt' = Head(queue).at
    /\ rateLimit
    /\ UNCHANGED <<now, running, published, publishedAt, wakeBy, lastPublish>>

\* Telemetry: the host is told of the vehicle before it gets its first state.
ReceiveTelemetry ==
    /\ receive
    /\ parse(Head(queue).packet)
    /\ link' = IF linked THEN link ELSE "up"
    /\ linked' = TRUE
    /\ lastPacket' = now
    /\ seenAt' = Head(queue).at
    /\ rateLimit
    /\ UNCHANGED <<now, running, published, publishedAt, wakeBy, lastPublish>>

Publish ==
    /\ pc = "publish"
    /\ published' = stateOf(frame)
    /\ publishedAt' = now
    /\ lastPublish' = loopNow
    /\ frame' = NoFrame
    /\ pc' = "check"
    /\ UNCHANGED <<now, running, link, queue, wakeBy, loopNow, linked, lastPacket, seenAt>>

\* The end of each pass: a silence longer than the timeout ends the session.
CheckSilence ==
    /\ pc = "check"
    /\ pc' = "top"
    /\ loopNow' = 0
    /\ \/ /\ linked /\ loopNow - lastPacket > Timeout
          /\ link' = "down"
          /\ linked' = FALSE
       \/ /\ ~(linked /\ loopNow - lastPacket > Timeout)
          /\ UNCHANGED <<link, linked>>
    /\ UNCHANGED <<now, running, published, publishedAt, queue, wakeBy, frame, lastPacket,
                   lastPublish, seenAt>>

\* stop() clears the flag and joins the thread (pc = "done").
Stop ==
    /\ running
    /\ running' = FALSE
    /\ UNCHANGED <<now, pc, hostVars, forzaVars>>

\* A datagram arrives.
Arrive(packet) ==
    /\ Len(queue) < MaxQueue
    /\ queue' = Append(queue, [packet |-> packet, at |-> now])
    /\ UNCHANGED <<now, pc, running, hostVars, loopVars, trackVars, seenAt>>

\* Time passes while the thread waits in poll(), and up to MaxLag while it could run:
\* until it has read its clock after the timeout, has read a datagram that is in the
\* socket, and has done what follows the clock.
Advance ==
    /\ now < ForzaTime
    /\ pc \in {"poll", "ready", "timedOut", "publish", "check"}
    /\ pc \in {"poll", "ready", "timedOut"} => now < wakeBy + MaxLag
    /\ pc \in {"publish", "check"} => now < loopNow + MaxLag
    /\ queue # <<>> => now < Head(queue).at + MaxLag
    /\ now' = now + 1
    /\ UNCHANGED <<pc, running, hostVars, forzaVars>>

\* The thread has been joined, or the model's clock has run out.
Finished == (pc = "done" \/ now = ForzaTime) /\ UNCHANGED vars

Next ==
    \/ LoopTop \/ PollReturn \/ PollTimeout \/ ReceiveOther \/ ReceiveTelemetry \/ Publish
    \/ CheckSilence \/ Stop \/ Advance \/ Finished
    \/ \E packet \in Packets : Arrive(packet)

Spec == Init /\ [][Next]_vars
-----------------------------------------------------------------------------
\* The link follows the game: it is reported lost by a timeout and one poll()
\* after the last telemetry, whatever other datagrams keep arriving (the thread may
\* be late to read that telemetry, to look at the silence, to leave poll() and to look
\* again)...
SilenceBound == Timeout + PollWait + 4 * MaxLag
LinkTracksGame == link = "up" => now <= seenAt + SilenceBound

\* When telemetry arrived that has not been read.
WaitingSince == {queue[i].at : i \in {j \in 1 .. Len(queue) : parse(queue[j].packet)}}

\* ...and never while telemetry keeps coming at most a timeout less the thread's
\* delay apart: when the loss is reported, no telemetry had arrived for longer than
\* that since the one that was read last, although more may wait in the socket by
\* then.  (A delay between poll()'s timeout and the clock counts as silence, so at
\* longer gaps a game that is sending can be lost.)
NoFalseLoss ==
    [][link = "up" /\ link' = "down"
         => \A t \in WaitingSince \cup {now} : t - seenAt > Timeout - MaxLag]_vars

\* While the publisher shows values as live the game has sent telemetry within
\* the shorter of the two timeouts, the plugin's and the publisher's.
LiveBound == IF PluginTimeout + 2 * MaxLag <= SilenceBound THEN PluginTimeout + 2 * MaxLag
                                                           ELSE SilenceBound
LiveMeansGame ==
    derive(storeOf(link, published, publishedAt), now).live => now <= seenAt + LiveBound
=============================================================================
