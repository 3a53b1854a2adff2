----------------------------- MODULE FeedsProofs ----------------------------
(***************************************************************************)
(* The plugins forza and sim keep what the publisher relies on, for every  *)
(* timeout, tick, delay of their threads and size of the socket's buffer.  *)
(***************************************************************************)
EXTENDS Feeds, SequenceTheorems, TLAPS

HostParts ==
    /\ now \in Nat
    /\ link \in {"unknown", "up", "down"}
    /\ publishedAt \in Nat \cup {-1}
    /\ publishedAt <= now
-----------------------------------------------------------------------------
\* forza's thread: where it is, and the times it remembers.
ForzaParts ==
    /\ pc \in {"top", "poll", "ready", "timedOut", "check", "publish", "done"}
    /\ pc = "ready" => queue # <<>>
    /\ wakeBy \in Nat /\ loopNow \in Nat /\ lastPublish \in Nat
    /\ lastPacket \in Nat \cup {-1} /\ seenAt \in Nat \cup {-1}
    /\ loopNow <= now
    /\ lastPacket <= now
    /\ linked <=> link = "up"
    /\ linked => lastPacket >= 0
    /\ pc = "publish" => linked /\ loopNow = lastPacket
    /\ pc \in {"publish", "check"} => now <= loopNow + MaxLag

\* What waits in the socket arrived in order, after what was read, and none of it
\* has waited for longer than the thread may be late.
QueueInv ==
    /\ queue \in Seq(F!Datagrams)
    /\ \A i \in 1 .. Len(queue) :
          /\ queue[i].at <= now
          /\ now <= queue[i].at + MaxLag
          /\ seenAt <= queue[i].at
          /\ \A j \in i .. Len(queue) : queue[i].at <= queue[j].at

\* What the thread has seen of the game, and what it has published of it, is old by
\* its delays at most.
SeenInv ==
    /\ seenAt <= now
    /\ linked => seenAt <= lastPacket /\ lastPacket <= seenAt + MaxLag
    /\ publishedAt <= seenAt + 2 * MaxLag

\* Each pass of the loop looks at the silence, at the latest a poll after the last.
SilenceInv ==
    /\ linked /\ pc \in {"top", "done"} => now <= lastPacket + Timeout + MaxLag
    /\ pc \in {"poll", "ready", "timedOut"} => now <= wakeBy + MaxLag
    /\ linked /\ pc \in {"poll", "ready", "timedOut"} =>
          wakeBy <= lastPacket + Timeout + MaxLag + PollWait
    /\ linked /\ pc = "check" =>
          loopNow = lastPacket \/ loopNow <= lastPacket + Timeout + 2 * MaxLag + PollWait

ForzaInv == HostParts /\ ForzaParts /\ QueueInv /\ SeenInv /\ SilenceInv

LEMMA ForzaNats ==
    /\ PollWait \in Nat /\ PublishGap \in Nat /\ Timeout \in Nat /\ MaxLag \in Nat
    /\ ForzaTime \in Nat /\ MaxQueue \in Nat /\ PluginTimeout \in Nat
BY FeedsAssumption DEF F!ForzaConstants

LEMMA InitForza == F!Init => ForzaInv
<1> SUFFICES ASSUME F!Init
             PROVE  ForzaInv
  OBVIOUS
<1> USE DEF F!Init, F!ForzaInit, F!Never
<1>1. queue \in Seq(F!Datagrams) /\ Len(queue) = 0
  OBVIOUS
<1>2. HostParts /\ ForzaParts
  BY <1>1, ForzaNats DEF HostParts, ForzaParts
<1>3. QueueInv
  BY <1>1 DEF QueueInv
<1>4. SeenInv /\ SilenceInv
  BY ForzaNats DEF SeenInv, SilenceInv
<1> QED
  BY <1>2, <1>3, <1>4 DEF ForzaInv

\* The steps that read no datagram, add none and take no time.
LEMMA QuietStep ==
    ASSUME ForzaInv,
           F!LoopTop \/ F!PollReturn \/ F!PollTimeout \/ F!Publish \/ F!CheckSilence \/ F!Stop
    PROVE  ForzaInv'
<1> USE DEF F!LoopTop, F!PollReturn, F!PollTimeout, F!Publish, F!CheckSilence, F!Stop,
        F!hostVars, F!loopVars, F!trackVars, F!forzaVars
<1>1. QueueInv'
  <2>1. UNCHANGED <<queue, now, seenAt>>
    OBVIOUS
  <2> QED
    BY <2>1 DEF ForzaInv, QueueInv
<1>2. CASE F!LoopTop
  <2>1. HostParts' /\ ForzaParts' /\ SeenInv' /\ SilenceInv'
    BY <1>2, ForzaNats DEF ForzaInv, HostParts, ForzaParts, SeenInv, SilenceInv
  <2> QED
    BY <1>1, <2>1 DEF ForzaInv
<1>3. CASE F!PollReturn
  <2>1. HostParts' /\ ForzaParts' /\ SeenInv' /\ SilenceInv'
    BY <1>3, ForzaNats DEF ForzaInv, HostParts, ForzaParts, SeenInv, SilenceInv
  <2> QED
    BY <1>1, <2>1 DEF ForzaInv
<1>4. CASE F!PollTimeout
  <2>1. HostParts' /\ ForzaParts' /\ SeenInv' /\ SilenceInv'
    BY <1>4, ForzaNats DEF ForzaInv, HostParts, ForzaParts, SeenInv, SilenceInv
  <2> QED
    BY <1>1, <2>1 DEF ForzaInv
<1>5. CASE F!Publish
  <2>1. HostParts' /\ ForzaParts' /\ SeenInv' /\ SilenceInv'
    BY <1>5, ForzaNats DEF ForzaInv, HostParts, ForzaParts, SeenInv, SilenceInv
  <2> QED
    BY <1>1, <2>1 DEF ForzaInv
<1>6. CASE F!CheckSilence
  <2>1. HostParts' /\ ForzaParts' /\ SeenInv' /\ SilenceInv'
    BY <1>6, ForzaNats DEF ForzaInv, HostParts, ForzaParts, SeenInv, SilenceInv
  <2> QED
    BY <1>1, <2>1 DEF ForzaInv
<1>7. CASE F!Stop
  <2>1. HostParts' /\ ForzaParts' /\ SeenInv' /\ SilenceInv'
    BY <1>7 DEF ForzaInv, HostParts, ForzaParts, SeenInv, SilenceInv
  <2> QED
    BY <1>1, <2>1 DEF ForzaInv
<1> QED
  BY <1>2, <1>3, <1>4, <1>5, <1>6, <1>7

LEMMA AdvanceStep == ForzaInv /\ F!Advance => ForzaInv'
<1> SUFFICES ASSUME ForzaInv, F!Advance
             PROVE  ForzaInv'
  OBVIOUS
<1> USE DEF F!Advance, F!hostVars, F!loopVars, F!trackVars, F!forzaVars
<1>1. HostParts' /\ ForzaParts' /\ SeenInv'
  BY ForzaNats DEF ForzaInv, HostParts, ForzaParts, SeenInv
<1>2. QueueInv'
  <2> SUFFICES ASSUME NEW i \in 1 .. Len(queue)
               PROVE  queue[i].at <= now + 1 /\ now + 1 <= queue[i].at + MaxLag
    BY DEF ForzaInv, QueueInv
  <2>1. queue \in Seq(F!Datagrams) /\ Len(queue) \in Nat /\ 1 \in 1 .. Len(queue)
        /\ i \in 1 .. Len(queue) /\ queue # <<>> /\ Head(queue) = queue[1]
    BY DEF ForzaInv, QueueInv
  <2>2. queue[1].at \in Nat /\ queue[i].at \in Nat
    <3>1. queue[1] \in F!Datagrams /\ queue[i] \in F!Datagrams
      BY <2>1
    <3> QED
      BY <3>1 DEF F!Datagrams
  <2>3. queue[1].at <= queue[i].at /\ queue[i].at <= now
    BY <2>1 DEF ForzaInv, QueueInv
  <2> QED
    BY <2>1, <2>2, <2>3, ForzaNats DEF ForzaInv, HostParts
<1>3. SilenceInv'
  BY ForzaNats DEF ForzaInv, HostParts, ForzaParts, SilenceInv
<1> QED
  BY <1>1, <1>2, <1>3 DEF ForzaInv

\* The datagram that is read, and what it leaves behind.
LEMMA ReadFirst ==
    ASSUME ForzaInv, F!receive, now' = now, seenAt' \in {seenAt, Head(queue).at}
    PROVE  /\ QueueInv'
           /\ Head(queue).at \in Nat
           /\ seenAt <= Head(queue).at
           /\ Head(queue).at <= now /\ now <= Head(queue).at + MaxLag
<1>1. queue \in Seq(F!Datagrams) /\ queue # <<>>
  BY DEF ForzaInv, ForzaParts, QueueInv, F!receive
<1>2. Head(queue) = queue[1] /\ 1 \in 1 .. Len(queue) /\ Len(queue) \in Nat
      /\ queue[1] \in F!Datagrams
  BY <1>1
<1>3. queue' \in Seq(F!Datagrams) /\ Len(queue') = Len(queue) - 1
      /\ \A i \in 1 .. Len(queue) - 1 : queue'[i] = queue[i + 1]
  BY <1>1 DEF F!receive
<1>4. \A i \in 1 .. Len(queue') :
         i + 1 \in 1 .. Len(queue) /\ queue'[i] = queue[i + 1]
  BY <1>2, <1>3
<1>5. \A i \in 1 .. Len(queue) :
         /\ queue[i].at <= now /\ now <= queue[i].at + MaxLag /\ seenAt <= queue[i].at
         /\ \A j \in i .. Len(queue) : queue[i].at <= queue[j].at
  BY DEF ForzaInv, QueueInv
<1>6. Head(queue).at \in Nat
  BY <1>2 DEF F!Datagrams
<1>7. \A j \in 1 .. Len(queue) : Head(queue).at <= queue[j].at
  BY <1>2, <1>5
<1>8. ASSUME NEW i \in 1 .. Len(queue')
      PROVE  queue'[i].at <= now /\ now <= queue'[i].at + MaxLag /\ seenAt' <= queue'[i].at
  BY <1>4, <1>5, <1>7
<1>9. ASSUME NEW i \in 1 .. Len(queue'), NEW j \in i .. Len(queue')
      PROVE  queue'[i].at <= queue'[j].at
  <2>1. i + 1 \in 1 .. Len(queue) /\ j + 1 \in i + 1 .. Len(queue) /\ j \in 1 .. Len(queue')
    BY <1>2, <1>3
  <2>2. queue[i + 1].at <= queue[j + 1].at
    BY <1>5, <2>1
  <2> QED
    BY <1>4, <2>1, <2>2
<1>10. QueueInv'
  BY <1>3, <1>8, <1>9 DEF QueueInv
<1> QED
  BY <1>2, <1>5, <1>6, <1>10

LEMMA OtherStep == ForzaInv /\ F!ReceiveOther => ForzaInv'
<1> SUFFICES ASSUME ForzaInv, F!ReceiveOther
             PROVE  ForzaInv'
  OBVIOUS
<1>1. /\ F!receive /\ pc = "ready" /\ loopNow' = now /\ pc' = "check"
      /\ UNCHANGED <<now, link, publishedAt, wakeBy, linked, lastPublish, seenAt>>
      /\ lastPacket' = lastPacket \/ (lastPacket < 0 /\ lastPacket' = now)
  BY DEF F!ReceiveOther, F!receive, F!hostVars
<1>2. HostParts' /\ ForzaParts' /\ SeenInv'
  BY <1>1, ForzaNats DEF ForzaInv, HostParts, ForzaParts, SeenInv
<1>3. QueueInv'
  BY <1>1, ReadFirst
<1>4. SilenceInv'
  BY <1>1, ForzaNats DEF ForzaInv, HostParts, ForzaParts, SilenceInv
<1> QED
  BY <1>2, <1>3, <1>4 DEF ForzaInv

LEMMA TelemetryStep == ForzaInv /\ F!ReceiveTelemetry => ForzaInv'
<1> SUFFICES ASSUME ForzaInv, F!ReceiveTelemetry
             PROVE  ForzaInv'
  OBVIOUS
<1>1. /\ F!receive /\ pc = "ready" /\ loopNow' = now /\ pc' \in {"publish", "check"}
      /\ UNCHANGED <<now, publishedAt, wakeBy, lastPublish>>
      /\ link' = (IF linked THEN link ELSE "up")
      /\ linked' = TRUE /\ lastPacket' = now /\ seenAt' = Head(queue).at
  BY DEF F!ReceiveTelemetry, F!receive, F!rateLimit
<1>2. HostParts' /\ ForzaParts'
  BY <1>1, ReadFirst, ForzaNats DEF ForzaInv, HostParts, ForzaParts
<1>3. SeenInv'
  BY <1>1, ReadFirst, ForzaNats DEF ForzaInv, HostParts, ForzaParts, SeenInv
<1>4. QueueInv'
  BY <1>1, ReadFirst
<1>5. SilenceInv'
  BY <1>1, ForzaNats DEF ForzaInv, HostParts, ForzaParts, SilenceInv
<1> QED
  BY <1>2, <1>3, <1>4, <1>5 DEF ForzaInv

LEMMA ArriveStep ==
    ASSUME ForzaInv, NEW packet \in F!Packets, F!Arrive(packet)
    PROVE  ForzaInv'
<1> USE DEF F!Arrive, F!hostVars, F!loopVars, F!trackVars
<1> DEFINE new == [packet |-> packet, at |-> now]
<1>1. queue \in Seq(F!Datagrams) /\ new \in F!Datagrams
  BY DEF ForzaInv, HostParts, QueueInv, F!Datagrams
<1>2. /\ queue' \in Seq(F!Datagrams) /\ Len(queue') = Len(queue) + 1 /\ Len(queue) \in Nat
      /\ \A i \in 1 .. Len(queue) : queue'[i] = queue[i]
      /\ queue'[Len(queue) + 1] = new /\ queue' # <<>>
  BY <1>1
<1>3. new.at = now
  OBVIOUS
<1> HIDE DEF new
<1>4. HostParts' /\ ForzaParts' /\ SeenInv' /\ SilenceInv'
  BY <1>2 DEF ForzaInv, HostParts, ForzaParts, SeenInv, SilenceInv
<1>5. \A i \in 1 .. Len(queue') : i \in 1 .. Len(queue) \/ (i = Len(queue) + 1 /\ queue'[i].at = now)
  BY <1>2, <1>3
<1>6. QueueInv'
  <2>1. ASSUME NEW i \in 1 .. Len(queue')
        PROVE  queue'[i].at <= now /\ now <= queue'[i].at + MaxLag /\ seenAt <= queue'[i].at
    BY <1>2, <1>5, ForzaNats DEF ForzaInv, HostParts, QueueInv, SeenInv
  <2>2. ASSUME NEW i \in 1 .. Len(queue'), NEW j \in i .. Len(queue')
        PROVE  queue'[i].at <= queue'[j].at
    <3>1. CASE j \in 1 .. Len(queue)
      <4>1. i \in 1 .. Len(queue) /\ j \in i .. Len(queue)
        BY <1>2, <3>1
      <4> QED
        BY <1>2, <4>1 DEF ForzaInv, QueueInv
    <3>2. CASE queue'[j].at = now
      BY <2>1, <3>2
    <3>3. j \in 1 .. Len(queue')
      BY <1>2
    <3> QED
      BY <1>5, <3>1, <3>2, <3>3
  <2> QED
    BY <1>2, <2>1, <2>2 DEF QueueInv
<1> QED
  BY <1>4, <1>6 DEF ForzaInv

\* forza keeps its invariant.
LEMMA ForzaStep == ForzaInv /\ F!Next => ForzaInv'
<1> SUFFICES ASSUME ForzaInv, F!Next
             PROVE  ForzaInv'
  OBVIOUS
<1>1. CASE F!Finished
  BY <1>1 DEF F!Finished, F!vars, F!hostVars, F!forzaVars, F!loopVars, F!trackVars,
              ForzaInv, HostParts, ForzaParts, QueueInv, SeenInv, SilenceInv
<1> QED
  BY <1>1, QuietStep, AdvanceStep, OtherStep, TelemetryStep, ArriveStep
     DEF F!Next

\* What the invariant says of the game.
LEMMA GameFollowed == ForzaInv => F!LinkTracksGame /\ F!LiveMeansGame
<1> SUFFICES ASSUME ForzaInv
             PROVE  F!LinkTracksGame /\ F!LiveMeansGame
  OBVIOUS
<1>1. F!LinkTracksGame
  <2>1. linked => lastPacket \in Nat /\ lastPacket <= seenAt + MaxLag
    BY DEF ForzaInv, ForzaParts, SeenInv
  <2>2. linked => now <= lastPacket + Timeout + PollWait + 3 * MaxLag
    BY <2>1, ForzaNats DEF ForzaInv, HostParts, ForzaParts, SilenceInv
  <2>3. (link = "up" => linked) /\ now \in Nat /\ seenAt \in Int
    BY DEF ForzaInv, HostParts, ForzaParts
  <2> QED
    BY <2>1, <2>2, <2>3, ForzaNats DEF F!LinkTracksGame, F!SilenceBound
<1>2. ASSUME F!derive(F!storeOf(link, published, publishedAt), now).live
      PROVE  link = "up" /\ now - publishedAt <= PluginTimeout
  <2> DEFINE sn == F!storeOf(link, published, publishedAt)
  <2>1. (sn.linkPresent <=> link = "up") /\ sn.lastPublish = publishedAt
    BY DEF F!storeOf
  <2> HIDE DEF sn
  <2>2. sn.linkPresent /\ ~(now - sn.lastPublish > PluginTimeout)
    BY <1>2 DEF F!derive, sn
  <2> QED
    BY <2>1, <2>2, ForzaNats DEF ForzaInv, HostParts
<1>3. F!LiveMeansGame
  BY <1>1, <1>2, ForzaNats
     DEF F!LiveMeansGame, F!LinkTracksGame, F!LiveBound, F!SilenceBound, ForzaInv,
         HostParts, ForzaParts, SeenInv
<1> QED
  BY <1>1, <1>3

-----------------------------------------------------------------------------
SimParts ==
    /\ pc \in {"start", "unlinked", "top", "sleep", "done"}
    /\ args \in [drivetrain: S!Drivetrains, assist: BOOLEAN, link: BOOLEAN,
                 stallAfter: Stalls \cup {-1}, tick: Ticks]
    /\ next \in Nat /\ elapsed \in Nat /\ phaseElapsed \in Nat
    /\ phase \in 1 .. 12
    /\ phaseElapsed < S!kPhases[phase].dur * Second

\* The simulated time is the time the next step is due: a step that is made late
\* does not move the ones after it.
ClockInv ==
    /\ pc = "start" => now = 0 /\ link = "unknown" /\ next = 0 /\ elapsed = 0
    /\ pc = "unlinked" => link = "down"
    /\ pc \in {"top", "sleep"} => link = "up"
    /\ link = "up" => next = elapsed
    /\ pc = "top" => now >= next
    /\ pc = "sleep" => next <= now + args.tick
    /\ pc \in {"top", "sleep"} => now <= next + SimLag

LampsInv ==
    /\ elapsed = 0 => phase = 1 /\ phaseElapsed = 0 /\ lampBits = {}
    /\ S!PhaseLamps

SimInv == HostParts /\ SimParts /\ ClockInv /\ LampsInv /\ S!StallStops

LEMMA SimNats ==
    /\ Second \in Nat /\ Second > 0 /\ LinkWait \in Nat /\ SimLag \in Nat /\ SimTime \in Nat
    /\ PluginTimeout \in Nat
BY FeedsAssumption DEF S!SimConstants

\* What the script says: twelve phases, each of two seconds at least.
LEMMA PhaseFacts ==
    /\ S!kPhaseCount = 12
    /\ \A ph \in 1 .. 12 : S!kPhases[ph].dur \in Nat /\ S!kPhases[ph].dur >= 2
BY DEF S!kPhaseCount, S!kPhases, S!Phase

Lasts(ph) == S!kPhases[ph].dur * Second

LEMMA LastsFacts ==
    ASSUME NEW ph \in 1 .. 12
    PROVE  Lasts(ph) \in Nat /\ 2 * Second <= Lasts(ph)
<1>1. \A m, k \in Nat : m >= 2 => m * k \in Nat /\ 2 * k <= m * k
  OBVIOUS
<1> QED
  BY <1>1, PhaseFacts, SimNats DEF Lasts

\* The lamps after a phase follow from those before it.
LEMMA NextLamps ==
    ASSUME NEW ph \in 1 .. 11
    PROVE  S!LampsIn(ph + 1) =
             (S!LampsIn(ph) \cup S!kPhases[ph + 1].set) \ S!kPhases[ph + 1].clr
BY DEF S!LampsIn

\* Setting them once more changes nothing.
LEMMA SameLamps ==
    ASSUME NEW ph \in 1 .. 12
    PROVE  S!LampsIn(ph) = (S!LampsIn(ph) \cup S!kPhases[ph].set) \ S!kPhases[ph].clr
BY DEF S!LampsIn

\* And the cycle closes: the first phase finds every lamp put out.
LEMMA FirstLamps ==
    /\ S!LampsIn(1) = S!kPhases[1].set \ S!kPhases[1].clr
    /\ S!LampsIn(12) = {}
BY DEF S!LampsIn, S!kPhases, S!Phase

LEMMA ArgChoices ==
    /\ \A t \in Ticks : t \in Nat /\ 1 <= t /\ t <= Second
    /\ \A t \in Stalls \cup {-1} : t \in Nat \cup {-1}
BY FeedsAssumption DEF S!SimConstants

LEMMA ArgsFacts ==
    SimInv => /\ args.tick \in Nat /\ 1 <= args.tick /\ args.tick <= Second
              /\ args.stallAfter \in Nat \cup {-1}
BY ArgChoices DEF SimInv, SimParts

\* One step of simulated time: within a phase, or into the next, at its beginning.
LEMMA StepFacts ==
    ASSUME SimInv, S!step
    PROVE  /\ elapsed' = elapsed + args.tick
           /\ phase' \in 1 .. 12
           /\ phaseElapsed' \in Nat
           /\ phaseElapsed' < Lasts(phase')
           /\ lampBits' = S!LampsIn(phase')
<1> DEFINE rest == phaseElapsed + args.tick
           after == (phase % 12) + 1
<1>1. /\ phaseElapsed \in Nat /\ phaseElapsed < Lasts(phase) /\ phase \in 1 .. 12
      /\ args.tick \in Nat /\ args.tick <= Second /\ Second \in Nat /\ Second > 0
      /\ elapsed \in Nat
  BY SimNats, ArgsFacts DEF SimInv, SimParts, Lasts
<1>2. elapsed' = elapsed + args.tick
  BY DEF S!step
<1>3. S!kPhaseCount = 12 /\ S!kPhases[phase].dur \in Nat
  BY <1>1, PhaseFacts
<1>4. CASE rest >= Lasts(phase)
  <2>1. phase' = after /\ phaseElapsed' = rest - Lasts(phase)
    BY <1>1, <1>3, <1>4 DEF S!step, Lasts
  <2>2. lampBits' = (lampBits \cup S!kPhases[after].set) \ S!kPhases[after].clr
    <3>1. rest - Lasts(phase) <= args.tick
      BY <1>1, LastsFacts
    <3> QED
      BY <1>1, <1>3, <1>4, <3>1 DEF S!step, S!entered, Lasts
  <2>3. after \in 1 .. 12 /\ after = IF phase = 12 THEN 1 ELSE phase + 1
    BY <1>1
  <2>4. elapsed # 0
    BY <1>1, <1>4, LastsFacts DEF SimInv, LampsInv
  <2>5. lampBits = S!LampsIn(phase)
    BY <1>1, <2>4 DEF SimInv, LampsInv, S!PhaseLamps
  <2>6. lampBits' = S!LampsIn(after)
    <3>1. CASE phase = 12
      BY <2>2, <2>3, <2>5, <3>1, FirstLamps
    <3>2. CASE phase # 12
      <4>1. phase \in 1 .. 11
        BY <1>1, <3>2
      <4> QED
        BY <2>2, <2>3, <2>5, <3>2, <4>1, NextLamps
    <3> QED
      BY <3>1, <3>2
  <2>7. rest - Lasts(phase) \in Nat /\ rest - Lasts(phase) < Second
    BY <1>1, <1>4, LastsFacts
  <2>8. Second < Lasts(after)
    BY <1>1, <2>3, LastsFacts
  <2>9. Lasts(after) \in Nat
    BY <2>3, LastsFacts
  <2> HIDE DEF rest, after
  <2>10. Lasts(phase') = Lasts(after)
    BY <2>1 DEF Lasts
  <2>11. phaseElapsed' < Lasts(phase')
    BY <1>1, <2>1, <2>7, <2>8, <2>9, <2>10
  <2> QED
    BY <1>2, <2>1, <2>3, <2>6, <2>7, <2>11
<1>5. CASE ~(rest >= Lasts(phase))
  <2>1. phase' = phase /\ phaseElapsed' = rest
    BY <1>1, <1>5, PhaseFacts DEF S!step, Lasts
  <2>2. lampBits' = S!LampsIn(phase)
    <3>1. CASE elapsed = 0
      <4>1. phase = 1 /\ phaseElapsed = 0 /\ lampBits = {}
        BY <3>1 DEF SimInv, LampsInv
      <4>2. S!entered(rest)
        BY <1>1, <4>1 DEF S!entered
      <4>3. lampBits' = ({} \cup S!kPhases[1].set) \ S!kPhases[1].clr
        BY <1>1, <1>5, <4>1, <4>2 DEF S!step, Lasts
      <4> QED
        BY <4>1, <4>3, FirstLamps
    <3>2. CASE elapsed # 0
      <4>1. lampBits = S!LampsIn(phase)
        BY <1>1, <3>2 DEF SimInv, LampsInv, S!PhaseLamps
      <4>2. \/ lampBits' = lampBits
            \/ lampBits' = (lampBits \cup S!kPhases[phase].set) \ S!kPhases[phase].clr
        BY <1>1, <1>5 DEF S!step, Lasts
      <4> QED
        BY <1>1, <4>1, <4>2, SameLamps
    <3> QED
      BY <3>1, <3>2
  <2>3. Lasts(phase') = Lasts(phase) /\ Lasts(phase) \in Nat
    BY <1>1, <2>1, LastsFacts DEF Lasts
  <2> QED
    BY <1>1, <1>2, <1>5, <2>1, <2>2, <2>3
<1> QED
  BY <1>4, <1>5

LEMMA InitSim == S!Init => SimInv
<1> SUFFICES ASSUME S!Init
             PROVE  SimInv
  OBVIOUS
<1> USE DEF S!Init, S!SimInit, S!Never
<1>1. 0 < Lasts(1)
  <2>1. 1 \in 1 .. 12
    OBVIOUS
  <2> QED
    BY <2>1, LastsFacts, SimNats
<1>2. HostParts
  BY DEF HostParts
<1>3. SimParts
  BY <1>1 DEF SimParts, Lasts
<1>4. ClockInv
  BY DEF ClockInv
<1>5. LampsInv
  BY DEF LampsInv, S!PhaseLamps
<1>6. S!StallStops
  BY SimNats, ArgChoices DEF S!StallStops
<1> QED
  BY <1>2, <1>3, <1>4, <1>5, <1>6 DEF SimInv

LEMMA TickStep == SimInv /\ S!LoopTop => SimInv'
<1> SUFFICES ASSUME SimInv, S!LoopTop
             PROVE  SimInv'
  OBVIOUS
<1>1. S!step
  BY DEF S!LoopTop
<1>2. /\ pc = "top" /\ pc' = "sleep" /\ next' = next + args.tick
      /\ now' = now /\ link' = link /\ args' = args
  BY DEF S!LoopTop, S!dueAfter
<1>3. \/ publishedAt' = publishedAt
      \/ publishedAt' = now /\ ~S!stalled(elapsed')
  BY DEF S!LoopTop
<1>4. /\ args.tick \in Nat /\ 1 <= args.tick /\ now \in Nat /\ next \in Nat /\ elapsed \in Nat
      /\ args.stallAfter \in Nat \cup {-1}
  BY ArgsFacts DEF SimInv, HostParts, SimParts
<1>5. HostParts'
  BY <1>2, <1>3 DEF SimInv, HostParts
<1>6. SimParts'
  BY <1>1, <1>2, <1>4, StepFacts DEF SimInv, SimParts, Lasts
<1>7. ClockInv'
  BY <1>1, <1>2, <1>4, StepFacts, SimNats DEF SimInv, ClockInv
<1>8. LampsInv'
  BY <1>1, <1>4, StepFacts DEF LampsInv, S!PhaseLamps
<1>9. (S!StallStops)'
  <2>1. CASE publishedAt' = publishedAt
    BY <1>2, <2>1 DEF SimInv, S!StallStops
  <2>2. CASE publishedAt' = now /\ ~S!stalled(elapsed')
    <3>1. now <= elapsed + SimLag
      BY <1>2 DEF SimInv, ClockInv
    <3>2. args.stallAfter >= 0 => elapsed + args.tick < args.stallAfter
      BY <1>1, <1>4, <2>2, StepFacts DEF S!stalled
    <3> QED
      BY <1>2, <1>4, <2>2, <3>1, <3>2, SimNats DEF S!StallStops
  <2> QED
    BY <1>3, <2>1, <2>2
<1> QED
  BY <1>5, <1>6, <1>7, <1>8, <1>9 DEF SimInv

\* sim keeps its invariant.
LEMMA SimStep == SimInv /\ S!Next => SimInv'
<1> SUFFICES ASSUME SimInv, S!Next
             PROVE  SimInv'
  OBVIOUS
<1>1. CASE S!LoopTop
  BY <1>1, TickStep
<1>2. CASE S!Begin
  <2>1. /\ pc = "start" /\ now' = now /\ now = 0 /\ elapsed = 0
        /\ UNCHANGED <<publishedAt, args, phase, phaseElapsed, elapsed, lampBits>>
        /\ \/ link' = "up" /\ next' = 0 /\ pc' = "top"
           \/ link' = "down" /\ next' = LinkWait /\ pc' = "unlinked"
    BY <1>2, SimNats DEF S!Begin, S!stepVars, SimInv, ClockInv
  <2>2. HostParts' /\ SimParts'
    BY <2>1, SimNats DEF SimInv, HostParts, SimParts
  <2>3. ClockInv'
    BY <2>1, SimNats DEF ClockInv
  <2>4. LampsInv' /\ (S!StallStops)'
    BY <2>1 DEF SimInv, LampsInv, S!PhaseLamps, S!StallStops
  <2> QED
    BY <2>2, <2>3, <2>4 DEF SimInv
<1>3. CASE S!NoLink \/ S!LoopExit \/ S!Wake \/ S!Stop \/ S!Advance \/ S!Finished
  <2> USE DEF S!NoLink, S!LoopExit, S!Wake, S!Stop, S!Advance, S!Finished,
              S!vars, S!hostVars, S!simVars, S!stepVars
  <2>1. UNCHANGED <<link, publishedAt, args, phase, phaseElapsed, elapsed, lampBits>>
    BY <1>3
  <2>2. now' \in Nat /\ now <= now' /\ next' \in Nat
    <3>1. now \in Nat /\ next \in Nat /\ LinkWait \in Nat
      BY SimNats DEF SimInv, HostParts, SimParts
    <3> QED
      BY <1>3, <3>1
  <2>3. HostParts'
    BY <2>1, <2>2 DEF SimInv, HostParts
  <2>4. SimParts'
    <3>1. pc' \in {"start", "unlinked", "top", "sleep", "done"}
      BY <1>3 DEF SimInv, SimParts
    <3> QED
      BY <2>1, <2>2, <3>1 DEF SimInv, SimParts
  <2>5. LampsInv' /\ (S!StallStops)'
    BY <2>1 DEF SimInv, LampsInv, S!PhaseLamps, S!StallStops
  <2>6. args.tick \in Nat
    BY ArgsFacts
  <2>7. ClockInv'
    <3>1. CASE S!NoLink \/ S!LoopExit \/ S!Wake
      BY <3>1, SimNats DEF SimInv, HostParts, SimParts, ClockInv
    <3>2. CASE S!Advance
      <4>1. /\ now' = now + 1 /\ now < next + SimLag /\ pc \in {"sleep", "unlinked"}
            /\ UNCHANGED <<pc, next, link, elapsed, args>>
        BY <3>2
      <4>2. now \in Nat /\ next \in Nat /\ SimLag \in Nat
        BY SimNats DEF SimInv, HostParts, SimParts
      <4> QED
        BY <2>6, <4>1, <4>2 DEF SimInv, ClockInv
    <3>3. CASE S!Stop \/ S!Finished
      BY <3>3 DEF SimInv, ClockInv
    <3> QED
      BY <1>3, <3>1, <3>2, <3>3
  <2> QED
    BY <2>3, <2>4, <2>5, <2>7 DEF SimInv
<1> QED
  BY <1>1, <1>2, <1>3 DEF S!Next
-----------------------------------------------------------------------------
\* The stall hook shows, and the simulated clock follows the real one.
LEMMA ScriptFollowed == SimInv => S!PhaseLamps /\ S!TracksClock /\ StallShows
<1> SUFFICES ASSUME SimInv
             PROVE  S!PhaseLamps /\ S!TracksClock /\ StallShows
  OBVIOUS
<1>1. S!PhaseLamps
  BY DEF SimInv, LampsInv
<1>2. S!TracksClock
  BY SimNats DEF S!TracksClock, SimInv, HostParts, SimParts, ClockInv
<1>3. ASSUME derive(storeOf(link, published, publishedAt), now).live
      PROVE  now - publishedAt <= PluginTimeout
  <2> DEFINE sn == storeOf(link, published, publishedAt)
  <2>1. sn.lastPublish = publishedAt
    BY DEF storeOf
  <2> HIDE DEF sn
  <2>2. ~(now - sn.lastPublish > PluginTimeout)
    BY <1>3 DEF derive, sn
  <2> QED
    BY <2>1, <2>2, SimNats DEF SimInv, HostParts
<1>4. StallShows
  <2>1. args.stallAfter >= 0 => S!StallStops
    BY DEF SimInv
  <2>2. args.stallAfter >= 0 => publishedAt <= args.stallAfter + SimLag
    BY DEF SimInv, S!StallStops
  <2>3. ASSUME args.stallAfter >= 0, now > args.stallAfter + SimLag + PluginTimeout,
               now - publishedAt <= PluginTimeout
        PROVE  FALSE
    BY <2>2, <2>3, SimNats, ArgsFacts DEF SimInv, HostParts
  <2> QED
    BY <1>3, <2>1, <2>3 DEF StallShows
<1> QED
  BY <1>1, <1>2, <1>4
-----------------------------------------------------------------------------
\* Whichever plugin is loaded keeps its invariant.
FeedsInv ==
    /\ plugin \in {"forza", "sim"}
    /\ plugin = "forza" => ForzaInv
    /\ plugin = "sim" => SimInv

LEMMA InitFeeds == Init => FeedsInv
BY InitForza, InitSim DEF Init, FeedsInv

LEMMA UnchangedFeeds == FeedsInv /\ UNCHANGED vars => FeedsInv'
BY DEF FeedsInv, vars, forzaVars, simVars, ForzaInv, HostParts, ForzaParts, QueueInv,
       SeenInv, SilenceInv, SimInv, SimParts, ClockInv, LampsInv,
       S!PhaseLamps, S!StallStops

LEMMA NextFeeds == FeedsInv /\ [Next]_vars => FeedsInv'
<1> SUFFICES ASSUME FeedsInv, [Next]_vars
             PROVE  FeedsInv'
  OBVIOUS
<1>1. CASE UNCHANGED vars
  BY <1>1, UnchangedFeeds
<1>2. CASE Next
  <2>1. plugin' = plugin
    BY <1>2 DEF Next
  <2>2. CASE plugin = "forza"
    BY <1>2, <2>1, <2>2, ForzaStep DEF Next, FeedsInv
  <2>3. CASE plugin = "sim"
    BY <1>2, <2>1, <2>3, SimStep DEF Next, FeedsInv
  <2> QED
    BY <2>2, <2>3 DEF FeedsInv
<1> QED
  BY <1>1, <1>2

\* The invariant of the feeds: forza's thread has seen everything but what is
\* in the socket, its loop looks at the silence once per poll, and sim's
\* simulated time is the time its next step is due (run() of forza.cpp and sim.cpp).
THEOREM FeedsInvariance == Spec => []FeedsInv
BY InitFeeds, NextFeeds, PTL DEF Spec

\* forza's link and the values shown as live follow the game, for every timeout,
\* poll, delay and size of the socket's buffer (run() of forza.cpp, derive()).
THEOREM GameIsTracked == Spec => []GameTracked
<1>1. FeedsInv => GameTracked
  BY GameFollowed DEF FeedsInv, GameTracked
<1> QED
  BY <1>1, FeedsInvariance, PTL

\* sim keeps to its script, for every tick of up to a second, every delay of its
\* thread and every stall_after_ms (step() and run() of sim.cpp).
THEOREM ScriptIsKept == Spec => []ScriptKept
<1>1. FeedsInv => ScriptKept
  BY ScriptFollowed DEF FeedsInv, ScriptKept
<1> QED
  BY <1>1, FeedsInvariance, PTL
-----------------------------------------------------------------------------
\* forza does not lose a game whose telemetry arrives at most a timeout less the
\* thread's delay apart: what waits in the socket when the loss is reported arrived
\* later than that after what was read last, wherever the thread was delayed (run() of
\* forza.cpp: poll(), the clock, the silence).
THEOREM NoneFalselyLost == Spec => NoFalseLoss
<1> DEFINE Step == link = "up" /\ link' = "down"
                     => \A t \in F!WaitingSince \cup {now} : t - seenAt > Timeout - MaxLag
<1>1. FeedsInv /\ [Next]_vars => [Step]_(F!vars)
  <2> SUFFICES ASSUME FeedsInv, Next, link = "up", link' = "down",
                      NEW t \in F!WaitingSince \cup {now}
               PROVE  t - seenAt > Timeout - MaxLag
    BY DEF vars, forzaVars, F!vars, F!hostVars, F!forzaVars, F!loopVars, F!trackVars
  <2>1. CASE plugin = "sim"
    <3>1. S!Begin
      BY <2>1 DEF Next, S!Next, S!NoLink, S!LoopTop, S!LoopExit, S!Wake, S!Stop, S!Advance,
                  S!Finished, S!vars, S!hostVars
    <3> QED
      BY <2>1, <3>1 DEF S!Begin, FeedsInv, SimInv, ClockInv
  <2>2. CASE plugin = "forza"
    <3>1. ForzaInv
      BY <2>2 DEF FeedsInv
    <3>2. F!CheckSilence
      BY <2>2 DEF Next, F!Next, F!LoopTop, F!PollReturn, F!PollTimeout, F!ReceiveOther,
                  F!ReceiveTelemetry, F!Publish, F!Stop, F!Advance, F!Finished, F!Arrive,
                  F!vars, F!hostVars
    <3>3. linked /\ loopNow - lastPacket > Timeout
      BY <3>2 DEF F!CheckSilence
    <3>4. loopNow <= now /\ seenAt <= lastPacket
      BY <3>1, <3>3 DEF ForzaInv, ForzaParts, SeenInv
    <3>5. t \in Nat /\ now <= t + MaxLag
      <4>1. CASE t = now
        BY <3>1, <4>1, ForzaNats DEF ForzaInv, HostParts
      <4>2. CASE t \in F!WaitingSince
        <5>1. PICK i \in 1 .. Len(queue) : t = queue[i].at
          BY <4>2 DEF F!WaitingSince
        <5>2. queue[i] \in F!Datagrams
          BY <3>1 DEF ForzaInv, QueueInv
        <5> QED
          BY <3>1, <5>1, <5>2 DEF ForzaInv, QueueInv, F!Datagrams
      <4> QED
        BY <4>1, <4>2
    <3> QED
      BY <3>1, <3>3, <3>4, <3>5, ForzaNats DEF ForzaInv, HostParts, ForzaParts
  <2> QED
    BY <2>1, <2>2 DEF FeedsInv
<1> HIDE DEF Step
<1>2. Spec => [][Step]_(F!vars)
  BY <1>1, FeedsInvariance, PTL DEF Spec
<1> QED
  BY <1>2 DEF Step, NoFalseLoss, F!NoFalseLoss
-----------------------------------------------------------------------------
\* forza hands a state over only after it has reported the game, and never a signal
\* that it does not advertise.
LEMMA ForzaSession ==
    ASSUME ForzaInv, F!Next
    PROVE  [Promise!SessionNext]_(Promise!sessionVars)
<1>1. CASE F!Publish
  <2>1. link = "up" /\ pc = "publish" /\ pc' = "check" /\ link' = link
    BY <1>1 DEF F!Publish, ForzaInv, ForzaParts
  <2>2. published'.valid \subseteq published'.capable
    BY <1>1 DEF F!Publish, F!stateOf
  <2>3. Promise!HandOver
    BY <2>1, <2>2 DEF Promise!HandOver, Promise!Honest
  <2> QED
    BY <2>3 DEF Promise!SessionNext
<1>2. CASE F!ReceiveTelemetry
  <2>1. link' = link \/ link' = "up"
    BY <1>2 DEF F!ReceiveTelemetry
  <2>2. UNCHANGED <<published, publishedAt>> /\ pc # "done" /\ pc' # "done"
    BY <1>2 DEF F!ReceiveTelemetry, F!receive, F!rateLimit
  <2>3. CASE link' = link
    BY <2>2, <2>3 DEF Promise!sessionVars
  <2>4. CASE link' = "up"
    BY <2>2, <2>4 DEF Promise!SetLink, Promise!SessionNext
  <2> QED
    BY <2>1, <2>3, <2>4
<1>3. CASE F!CheckSilence
  <2>1. link' = link \/ link' = "down"
    BY <1>3 DEF F!CheckSilence
  <2>2. UNCHANGED <<published, publishedAt>> /\ pc # "done" /\ pc' # "done"
    BY <1>3 DEF F!CheckSilence
  <2>3. CASE link' = link
    BY <2>2, <2>3 DEF Promise!sessionVars
  <2>4. CASE link' = "down"
    BY <2>2, <2>4 DEF Promise!SetLink, Promise!SessionNext
  <2> QED
    BY <2>1, <2>3, <2>4
<1>4. CASE F!LoopTop
  BY <1>4 DEF F!LoopTop, F!hostVars, Promise!SessionNext, Promise!End, Promise!sessionVars
<1>5. CASE F!PollReturn \/ F!PollTimeout \/ F!ReceiveOther
  BY <1>5 DEF F!PollReturn, F!PollTimeout, F!ReceiveOther, F!receive, F!hostVars,
              Promise!sessionVars
<1>6. CASE F!Stop \/ F!Advance \/ F!Finished \/ \E packet \in F!Packets : F!Arrive(packet)
  BY <1>6 DEF F!Stop, F!Advance, F!Finished, F!Arrive, F!hostVars, F!vars, Promise!sessionVars
<1> QED
  BY <1>1, <1>2, <1>3, <1>4, <1>5, <1>6 DEF F!Next

\* So does sim, and without a link it hands over nothing.
LEMMA SimSession ==
    ASSUME SimInv, S!Next
    PROVE  [Promise!SessionNext]_(Promise!sessionVars)
<1>1. CASE S!LoopTop
  <2>1. link = "up" /\ pc # "done" /\ pc' # "done" /\ link' = link
    BY <1>1 DEF S!LoopTop, SimInv, ClockInv
  <2>2. CASE UNCHANGED <<published, publishedAt>>
    BY <2>1, <2>2 DEF Promise!sessionVars
  <2>3. CASE published'.valid \subseteq published'.capable
    <3>1. Promise!HandOver
      BY <2>1, <2>3 DEF Promise!HandOver, Promise!Honest
    <3> QED
      BY <3>1 DEF Promise!SessionNext
  <2>4. \/ UNCHANGED <<published, publishedAt>>
        \/ published'.valid \subseteq published'.capable
    BY <1>1 DEF S!LoopTop
  <2> QED
    BY <2>2, <2>3, <2>4
<1>2. CASE S!Begin
  <2>1. link' \in {"up", "down"} /\ pc # "done" /\ pc' # "done"
        /\ UNCHANGED <<published, publishedAt>>
    BY <1>2 DEF S!Begin
  <2> QED
    BY <2>1 DEF Promise!SetLink, Promise!SessionNext
<1>3. CASE S!NoLink \/ S!LoopExit \/ S!Wake
  BY <1>3 DEF S!NoLink, S!LoopExit, S!Wake, S!hostVars, Promise!SessionNext, Promise!End,
              Promise!sessionVars
<1>4. CASE S!Stop \/ S!Advance \/ S!Finished
  BY <1>4 DEF S!Stop, S!Advance, S!Finished, S!hostVars, S!vars, Promise!sessionVars
<1> QED
  BY <1>1, <1>2, <1>3, <1>4 DEF S!Next

\* Both plugins implement PluginSession: the host hears of the vehicle before it gets
\* a state, gets current values only while it is present, and nothing after the
\* plugin's stop() has returned (run() of forza.cpp and sim.cpp, plugin.h).
THEOREM FeedsAreSessions == Spec => FeedSession
<1>1. Init => Promise!SessionInit
  BY DEF Init, F!Init, S!Init, Promise!SessionInit, NoState, F!NoState, S!NoState
<1>2. FeedsInv /\ [Next]_vars => [Promise!SessionNext]_(Promise!sessionVars)
  <2> SUFFICES ASSUME FeedsInv, [Next]_vars
               PROVE  [Promise!SessionNext]_(Promise!sessionVars)
    OBVIOUS
  <2>1. CASE UNCHANGED vars
    BY <2>1 DEF vars, Promise!sessionVars
  <2>2. CASE plugin = "forza" /\ F!Next
    BY <2>2, ForzaSession DEF FeedsInv
  <2>3. CASE plugin = "sim" /\ S!Next
    BY <2>3, SimSession DEF FeedsInv
  <2> QED
    BY <2>1, <2>2, <2>3 DEF Next
<1> QED
  BY <1>1, <1>2, FeedsInvariance, PTL DEF Spec, FeedSession, Promise!Session
=============================================================================
