------------------------ MODULE ScheduleTimesProofs -------------------------
(***************************************************************************)
(* The schedule's deadlines, and what a consumer can measure on the bus,   *)
(* proved for every set of frames, every cycle and every scheduling lag.   *)
(***************************************************************************)
EXTENDS ScheduleTimes, TLAPS

\* A slot holds one of the contract's frames.
LEMMA SlotFrame == \A i \in Slots : Order[i] \in FrameIds
BY OrderAssumption DEF Slots

\* A slot has a positive cycle.
LEMMA CycleType == \A i \in Slots : cycle(i) \in Nat /\ cycle(i) > 0
BY SlotFrame, TimingAssumption DEF cycle

\* Serving slot i moves its deadline to the tick or later, by at least one
\* cycle, and to at most one cycle after the tick.
LEMMA NextDueBounds ==
    ASSUME ScheduleTypeOK, NEW i \in Slots, due[i] <= tickNow
    PROVE  /\ NextDue(i) \in Nat
           /\ NextDue(i) >= tickNow
           /\ NextDue(i) >= due[i] + cycle(i)
           /\ NextDue(i) <= tickNow + cycle(i)
BY CycleType DEF ScheduleTypeOK, NextDue

\* The initial state satisfies the invariant.
LEMMA ScheduleInitInv == ScheduleInit => ScheduleInv
<1> SUFFICES ASSUME ScheduleInit PROVE ScheduleInv
  OBVIOUS
<1>1. ScheduleTypeOK
  BY DEF ScheduleInit, ScheduleTypeOK
<1>2. TickInv /\ DeadlineInv
  BY DEF ScheduleInit, TickInv, DeadlineInv, Armed
<1>3. QED
  BY <1>1, <1>2 DEF ScheduleInv

\* Every step of the schedule preserves its invariant.
LEMMA ScheduleStep ==
    ScheduleInv /\ [ScheduleNext]_scheduleVars => ScheduleInv'
<1> SUFFICES ASSUME ScheduleInv, [ScheduleNext]_scheduleVars PROVE ScheduleInv'
  OBVIOUS
<1> USE CycleType, TimingAssumption
    DEF ScheduleInv, ScheduleTypeOK, TickInv, DeadlineInv, Armed
<1>1. CASE ScheduleStart
  BY <1>1 DEF ScheduleStart
<1>2. CASE ScheduleArm
  BY <1>2 DEF ScheduleArm
<1>3. CASE ScheduleTick
  BY <1>3 DEF ScheduleTick, DueSlots
<1>4. CASE ScheduleSnapshot
  BY <1>4 DEF ScheduleSnapshot
<1>5. ASSUME NEW i \in Slots, ScheduleServe(i) PROVE ScheduleInv'
  <2>1. due[i] <= tickNow /\ tickNow <= now
    BY <1>5 DEF ScheduleServe
  <2>2. /\ NextDue(i) \in Nat
        /\ NextDue(i) >= due[i] + cycle(i)
        /\ NextDue(i) <= tickNow + cycle(i)
    BY <2>1, NextDueBounds
  <2>3. ScheduleTypeOK'
    BY <1>5, <2>2 DEF ScheduleServe
  <2>4. TickInv'
    BY <1>5 DEF ScheduleServe
  <2>5. DeadlineInv'
    BY <1>5, <2>1, <2>2 DEF ScheduleServe
  <2>6. QED
    BY <2>3, <2>4, <2>5
<1>6. CASE ScheduleStop
  BY <1>6 DEF ScheduleStop
<1>7. CASE ScheduleExit
  BY <1>7 DEF ScheduleExit
<1>8. CASE AdvanceClock
  BY <1>8 DEF AdvanceClock
<1>9. CASE UNCHANGED scheduleVars
  BY <1>9 DEF scheduleVars
<1>10. QED
  BY <1>1, <1>2, <1>3, <1>4, <1>5, <1>6, <1>7, <1>8, <1>9 DEF ScheduleNext

\* The schedule's deadlines stay between the scheduling lag in the past and one
\* cycle in the future (arm, tick and the resynchronisation in tick).
THEOREM ScheduleInvariant == ScheduleSpec => []ScheduleInv
BY ScheduleInitInv, ScheduleStep, PTL DEF ScheduleSpec
-----------------------------------------------------------------------------
\* Every step here is a step of the schedule.
LEMMA NextIsSchedule == [Next]_vars => [ScheduleNext]_scheduleVars
BY DEF Next, ThreadStep, vars, Arm, Serve, Start, TickBegin, TickSnapshot, Stop,
       Exit, Advance, Terminated, ScheduleNext

\* The initial state satisfies the invariant.
LEMMA InitInv == Init => Inv
<1> SUFFICES ASSUME Init PROVE Inv
  OBVIOUS
<1>1. ScheduleInv
  BY ScheduleInitInv DEF Init
<1>2. TypeOK
  BY <1>1 DEF Init, TypeOK, ScheduleInv
<1>3. TimesInv
  BY WatchedAssumption DEF Init, TimesInv, SendsInv, ScheduleInit
<1>4. QED
  BY <1>1, <1>2, <1>3 DEF Inv

\* One more service is one more cycle.
LEMMA OneMoreCycle ==
    ASSUME NEW n \in Nat, NEW c \in Nat
    PROVE  (n + 1) * c = n * c + c /\ n * c \in Nat
OBVIOUS

\* What is recorded when slot i is served: its two frames before, and this one.
LEMMA SentNow ==
    ASSUME TypeOK, NEW i \in Watched
    PROVE  /\ sentNow(i) \in [1 .. 3 -> Nat]
           /\ sentNow(i)[1] = now
           /\ sentNow(i)[2] = sentAt[i][1]
           /\ sentNow(i)[3] = sentAt[i][2]
<1>1. sentAt[i] \in [1 .. 3 -> Nat] /\ now \in Nat
  BY DEF TypeOK, ScheduleTypeOK
<1>2. 1 \in 1 .. 3 /\ 2 \in 1 .. 3 /\ 3 \in 1 .. 3
  OBVIOUS
<1>3. ASSUME NEW n \in 1 .. 3
      PROVE  (IF n = 1 THEN now ELSE sentAt[i][n - 1]) \in Nat
  <2>1. n = 1 \/ n - 1 \in 1 .. 3
    BY <1>3
  <2> QED
    BY <1>1, <2>1
<1>4. sentNow(i) \in [1 .. 3 -> Nat]
  BY <1>3 DEF sentNow
<1> QED
  BY <1>2, <1>4 DEF sentNow

\* Serving a slot preserves what is known of the sends.
LEMMA SendsServed ==
    ASSUME Inv, NEW i \in Slots, Serve(i)
    PROVE  SendsInv' /\ sentAt' \in [Watched -> [1 .. 3 -> Nat]]
<1> USE CycleType, WatchedAssumption DEF Serve, ScheduleServe
<1>1. TypeOK /\ ScheduleTypeOK /\ SendsInv
  BY DEF Inv, TypeOK, TimesInv
<1>2. /\ pc = "send" /\ i \in pending /\ due[i] <= tickNow /\ tickNow <= now
      /\ served[i] > 0 => lastTick[i] <= due[i]
  BY DEF Inv, ScheduleInv, TickInv, TimesInv
<1>3. NextDue(i) \in Nat /\ NextDue(i) >= due[i] + cycle(i)
  BY <1>1, <1>2, NextDueBounds
<1>4. /\ now' = now /\ pending' = pending \ {i}
      /\ pending' # {} => tickNow' = tickNow
  OBVIOUS
<1>5. /\ served' = [served EXCEPT ![i] = @ + 1]
      /\ lastTick' = [lastTick EXCEPT ![i] = tickNow]
      /\ due' = [due EXCEPT ![i] = NextDue(i)]
      /\ sentAt' = [j \in Watched |-> IF j = i THEN sentNow(i) ELSE sentAt[j]]
  OBVIOUS
<1>6. ASSUME NEW j \in Watched
      PROVE  /\ served'[j] > 0 => sentAt'[j][1] <= now'
             /\ served'[j] > 0 /\ j \in pending' => sentAt'[j][1] <= tickNow'
             /\ served'[j] > 1 => sentAt'[j][2] <= lastTick'[j]
             /\ served'[j] > 2 => sentAt'[j][3] + cycle(j) <= due'[j]
  <2>1. /\ served[j] > 0 => sentAt[j][1] <= now
        /\ served[j] > 0 /\ j \in pending => sentAt[j][1] <= tickNow
        /\ served[j] > 1 => sentAt[j][2] <= lastTick[j]
        /\ served[j] > 2 => sentAt[j][3] + cycle(j) <= due[j]
    BY <1>1 DEF SendsInv
  <2>2. CASE j # i
    BY <1>1, <1>4, <1>5, <2>1, <2>2 DEF TypeOK, ScheduleTypeOK
  <2>3. CASE j = i
    <3>1. /\ sentAt'[i][1] = now /\ sentAt'[i][2] = sentAt[i][1]
          /\ sentAt'[i][3] = sentAt[i][2] /\ i \notin pending'
      BY <1>1, <1>4, <1>5, <2>3, SentNow
    <3>2. /\ served'[i] = served[i] + 1 /\ lastTick'[i] = tickNow /\ due'[i] = NextDue(i)
      BY <1>1, <1>5 DEF TypeOK, ScheduleTypeOK
    <3>3. /\ sentAt[i][1] \in Nat /\ sentAt[i][2] \in Nat /\ now \in Nat
          /\ served[i] \in Nat /\ lastTick[i] \in Nat /\ due[i] \in Nat
          /\ tickNow \in Nat /\ cycle(i) \in Nat
      BY <1>1, <2>3 DEF TypeOK, ScheduleTypeOK
    <3> QED
      BY <1>2, <1>3, <1>4, <2>1, <2>3, <3>1, <3>2, <3>3
  <2> QED
    BY <2>2, <2>3
<1>7. sentAt' \in [Watched -> [1 .. 3 -> Nat]]
  <2>1. \A j \in Watched : (IF j = i THEN sentNow(i) ELSE sentAt[j]) \in [1 .. 3 -> Nat]
    BY <1>1, SentNow DEF TypeOK
  <2> QED
    BY <1>5, <2>1
<1> QED
  BY <1>6, <1>7 DEF SendsInv

\* Every step preserves the history's part of the invariant.
LEMMA TimesStep ==
    ASSUME Inv, ScheduleInv', [Next]_vars PROVE TypeOK' /\ TimesInv'
<1> USE CycleType, TimingAssumption DEF Inv, TypeOK
<1>1. ASSUME NEW i \in Slots, Serve(i) PROVE TypeOK' /\ TimesInv'
  <2> USE <1>1 DEF Serve, ScheduleServe
  <2>1. /\ due[i] <= tickNow /\ tickNow <= now /\ now <= due[i] + MaxLag
        /\ armTime <= tickNow
        /\ pc = "send"
    BY DEF ScheduleInv, ScheduleTypeOK, TickInv, DeadlineInv, Armed, TimesInv
  <2>2. /\ NextDue(i) \in Nat
        /\ NextDue(i) >= tickNow
        /\ NextDue(i) >= due[i] + cycle(i)
        /\ NextDue(i) <= tickNow + cycle(i)
    BY <2>1, NextDueBounds
  <2>3. MaxLag <= cycle(i) => NextDue(i) = due[i] + cycle(i)
    BY <2>1 DEF NextDue, ScheduleTypeOK
  <2>4. TypeOK'
    <3>1. sentAt' \in [Watched -> [1 .. 3 -> Nat]]
      BY <1>1, SendsServed
    <3>2. QED
      BY <3>1 DEF ScheduleInv, ScheduleTypeOK
  <2>5. pc' \notin {"off", "arm"} /\ armTime' <= now'
        /\ (pc' \in {"snapshot", "send"} => armTime' <= tickNow')
    BY <2>1 DEF ScheduleTypeOK
  <2>6. ASSUME NEW j \in Slots
        PROVE  /\ served'[j] * cycle(j) <= due'[j] - armTime'
               /\ MaxLag <= cycle(j)
                    => due'[j] = armTime' + served'[j] * cycle(j)
               /\ served'[j] > 0 => /\ lastTick'[j] <= due'[j]
                                    /\ due'[j] <= lastTick'[j] + cycle(j)
    <3>0. /\ served[j] * cycle(j) <= due[j] - armTime
          /\ MaxLag <= cycle(j) => due[j] = armTime + served[j] * cycle(j)
          /\ served[j] > 0 => /\ lastTick[j] <= due[j]
                              /\ due[j] <= lastTick[j] + cycle(j)
      BY <2>1 DEF TimesInv
    <3>1. CASE j # i
      BY <3>0, <3>1 DEF ScheduleTypeOK
    <3>2. CASE j = i
      <4>1. /\ served'[i] = served[i] + 1 /\ lastTick'[i] = tickNow
            /\ due'[i] = NextDue(i)
            /\ armTime' = armTime
        BY DEF ScheduleTypeOK
      <4>2. (served[i] + 1) * cycle(i) = served[i] * cycle(i) + cycle(i)
            /\ served[i] * cycle(i) \in Nat
        BY OneMoreCycle
      <4>3. /\ due[i] \in Nat /\ tickNow \in Nat /\ armTime \in Nat
            /\ served[i] \in Nat /\ lastTick[i] \in Nat /\ cycle(i) \in Nat
        BY DEF ScheduleTypeOK
      <4>4. (served[i] + 1) * cycle(i) <= NextDue(i) - armTime
        BY <3>0, <3>2, <4>2, <4>3, <2>2
      <4>5. MaxLag <= cycle(i)
               => NextDue(i) = armTime + (served[i] + 1) * cycle(i)
        BY <3>0, <3>2, <4>2, <4>3, <2>3
      <4>6. QED
        BY <3>2, <4>1, <4>4, <4>5, <4>3, <2>2
    <3>3. QED
      BY <3>1, <3>2
  <2>7. SendsInv'
    BY <1>1, <2>1, SendsServed
  <2>8. QED
    BY <2>4, <2>5, <2>6, <2>7 DEF TimesInv
<1>2. CASE Arm
  <2> USE <1>2 DEF Arm, ScheduleArm
  <2>1. TypeOK'
    BY DEF ScheduleInv, ScheduleTypeOK
  <2>2. \A i \in Slots : served[i] = 0 /\ due'[i] = now
    BY DEF TimesInv
  <2>3. \A i \in Slots : 0 * cycle(i) = 0
    OBVIOUS
  <2>4. TimesInv'
    BY <2>2, <2>3, WatchedAssumption DEF TimesInv, SendsInv, ScheduleTypeOK
  <2>5. QED
    BY <2>1, <2>4
<1>3. CASE TickBegin
  BY <1>3, WatchedAssumption
     DEF TickBegin, ScheduleTick, ScheduleTypeOK, ScheduleInv, TimesInv, SendsInv, TickInv,
         historyVars
<1>4. CASE Advance
  BY <1>4, WatchedAssumption
     DEF Advance, AdvanceClock, ScheduleTypeOK, ScheduleInv, TimesInv, SendsInv,
         historyVars
<1>5. CASE Start \/ TickSnapshot \/ Stop \/ Exit \/ Terminated
           \/ UNCHANGED vars
  BY <1>5, WatchedAssumption
     DEF Start, TickSnapshot, Stop, Exit, Terminated, ScheduleStart, ScheduleSnapshot,
         ScheduleStop, ScheduleExit, ScheduleTypeOK, ScheduleInv, TimesInv, SendsInv,
         TickInv, historyVars, vars, scheduleVars
<1>6. QED
  BY <1>1, <1>2, <1>3, <1>4, <1>5 DEF Next, ThreadStep

\* Every step preserves the whole invariant.
LEMMA InvStep == Inv /\ [Next]_vars => Inv'
BY NextIsSchedule, ScheduleStep, TimesStep DEF Inv

\* The invariant holds in every reachable state of the schedule.
THEOREM Invariance == Spec => []Inv
BY InitInv, InvStep, PTL DEF Spec

\* Types of the thread's and the history's variables.
THEOREM TypeCorrect == Spec => []TypeOK
BY Invariance, PTL DEF Inv

\* tick() keeps a slot on arm()'s grid when the lag is at most its cycle.
THEOREM DriftFree == Spec => []NoDrift
<1>1. Inv => NoDrift
  BY DEF Inv, TimesInv, NoDrift, Armed
<1>2. QED
  BY Invariance, <1>1, PTL

\* No stale window of the contract expires while the publisher runs.
THEOREM StaleFree == Spec => []NeverStale
<1>1. ASSUME Inv, Armed, NEW i \in Slots, served[i] > 0
      PROVE  now - lastTick[i] <= cycle(i) + MaxLag
  <2>1. due[i] <= lastTick[i] + cycle(i) /\ now <= due[i] + MaxLag
    BY <1>1 DEF Inv, TimesInv, ScheduleInv, DeadlineInv, Armed
  <2>2. QED
    BY <1>1, <2>1, CycleType, TimingAssumption DEF Inv, TypeOK, ScheduleTypeOK
<1>2. ASSUME Inv, Armed, NEW i \in Slots, served[i] > 0,
             cycle(i) + MaxLag <= Stale[Order[i]]
      PROVE  now - lastTick[i] <= Stale[Order[i]]
  <2>1. Stale[Order[i]] \in Nat
    BY SlotFrame, StaleAssumption
  <2>2. QED
    BY <1>1, <1>2, <2>1, CycleType, TimingAssumption
       DEF Inv, TypeOK, ScheduleTypeOK
<1>3. Inv => NeverStale
  BY <1>2 DEF NeverStale
<1>4. QED
  BY Invariance, <1>3, PTL

\* tick()'s resynchronisation never replays missed cycles as a burst: four frames of
\* a slot are never sent within one cycle, whenever the thread reads its clock and
\* whenever it gets to send.
THEOREM BurstFree == Spec => NoBurst
<1>1. Inv /\ [Next]_vars =>
        [\A i \in Watched : served'[i] > served[i] /\ served[i] >= 3
            => sentAt'[i][1] - sentAt[i][3] >= cycle(i)]_vars
  <2> SUFFICES ASSUME Inv, Next, NEW i \in Watched,
                      served'[i] > served[i], served[i] >= 3
               PROVE  sentAt'[i][1] - sentAt[i][3] >= cycle(i)
    OBVIOUS
  <2>1. i \in Slots /\ TypeOK
    BY WatchedAssumption DEF Inv
  <2>2. Serve(i)
    BY <2>1 DEF Next, ThreadStep, Arm, Serve, Start, TickBegin, TickSnapshot, Stop,
           Exit, Advance, Terminated, historyVars, vars, TypeOK
  <2>3. sentAt'[i][1] = now
    BY <2>1, <2>2, SentNow DEF Serve
  <2>4. due[i] <= tickNow /\ tickNow <= now /\ sentAt[i][3] + cycle(i) <= due[i]
    <3>1. pc = "send" /\ i \in pending
      BY <2>2 DEF Serve, ScheduleServe
    <3>2. due[i] <= tickNow /\ tickNow <= now
      BY <3>1 DEF Inv, ScheduleInv, TickInv
    <3>3. SendsInv
      <4>1. TimesInv
        BY DEF Inv
      <4> QED
        BY <4>1 DEF TimesInv
    <3>4. served[i] > 2 => sentAt[i][3] + cycle(i) <= due[i]
      BY <3>3 DEF SendsInv
    <3>5. served[i] > 2
      BY <2>1 DEF TypeOK
    <3> QED
      BY <3>2, <3>4, <3>5
  <2>5. /\ now \in Nat /\ due[i] \in Nat /\ tickNow \in Nat /\ cycle(i) \in Nat
        /\ sentAt[i][3] \in Nat
    BY <2>1, CycleType DEF TypeOK, ScheduleTypeOK
  <2>6. QED
    BY <2>3, <2>4, <2>5
<1>2. QED
  BY Invariance, <1>1, PTL DEF Spec, NoBurst

\* Since arm() a slot is served at most once per elapsed cycle, plus once.
THEOREM RateBounded == Spec => []RateBound
<1>1. ASSUME Inv, NEW i \in Slots, served[i] > 0
      PROVE  (served[i] - 1) * cycle(i) <= lastTick[i] - armTime
  <2>1. /\ served[i] - 1 \in Nat /\ cycle(i) \in Nat /\ due[i] \in Nat
        /\ lastTick[i] \in Nat /\ armTime \in Nat /\ served[i] \in Nat
    BY <1>1, CycleType DEF Inv, TypeOK, ScheduleTypeOK
  <2>2. /\ served[i] * cycle(i) <= due[i] - armTime
        /\ due[i] <= lastTick[i] + cycle(i)
    BY <1>1, <2>1 DEF Inv, TypeOK, TimesInv
  <2>3. ((served[i] - 1) + 1) * cycle(i) = (served[i] - 1) * cycle(i) + cycle(i)
        /\ (served[i] - 1) * cycle(i) \in Nat
    BY <2>1, OneMoreCycle
  <2>4. (served[i] - 1) + 1 = served[i]
    BY <2>1
  <2>5. QED
    BY <2>1, <2>2, <2>3, <2>4
<1>2. Inv => RateBound
  BY <1>1 DEF RateBound
<1>3. QED
  BY Invariance, <1>2, PTL
=============================================================================
