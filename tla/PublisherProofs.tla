-------------------------- MODULE PublisherProofs ---------------------------
(***************************************************************************)
(* The publisher's promises to a consumer, proved for every schedule, any  *)
(* number of plugin threads and any set of vehicle states: what is on the  *)
(* bus has a bounded age, a lost link is reported in bounded time, and the *)
(* status frame keeps what it says from one frame to the next.             *)
(***************************************************************************)
EXTENDS Publisher, TLAPS

(***************************************************************************)
(* The schedule's invariant, which ScheduleTimesProofs has for the bare    *)
(* schedule, as far as the publisher's steps need it.                      *)
(***************************************************************************)

\* A slot holds one of the contract's frames.
LEMMA SlotFrame == \A i \in Slots : Order[i] \in FrameIds
BY OrderAssumption DEF Slots

\* A slot has a positive cycle.
LEMMA CycleType == \A i \in Slots : cycle(i) \in Nat /\ cycle(i) > 0
BY SlotFrame, TimingAssumption DEF cycle

\* Serving slot i moves its deadline to the tick or later, by at least one
\* cycle, and to at most one cycle after the tick.
LEMMA NextDueBounds ==
    ASSUME ScheduleTypeOK, NEW i \in Slots, due[i] <= tickNow
    PROVE  /\ NextDue(i) \in Nat
           /\ NextDue(i) >= tickNow
           /\ NextDue(i) >= due[i] + cycle(i)
           /\ NextDue(i) <= tickNow + cycle(i)
BY CycleType DEF ScheduleTypeOK, NextDue

\* The initial state satisfies the invariant.
LEMMA ScheduleInitInv == ScheduleInit => ScheduleInv
<1> SUFFICES ASSUME ScheduleInit PROVE ScheduleInv
  OBVIOUS
<1>1. ScheduleTypeOK
  BY DEF ScheduleInit, ScheduleTypeOK
<1>2. TickInv /\ DeadlineInv
  BY DEF ScheduleInit, TickInv, DeadlineInv, Armed
<1>3. QED
  BY <1>1, <1>2 DEF ScheduleInv

\* Every step of the schedule preserves its invariant.
LEMMA ScheduleStep ==
    ScheduleInv /\ [ScheduleNext]_scheduleVars => ScheduleInv'
<1> SUFFICES ASSUME ScheduleInv, [ScheduleNext]_scheduleVars PROVE ScheduleInv'
  OBVIOUS
<1> USE CycleType, TimingAssumption
    DEF ScheduleInv, ScheduleTypeOK, TickInv, DeadlineInv, Armed
<1>1. CASE ScheduleStart
  BY <1>1 DEF ScheduleStart
<1>2. CASE ScheduleArm
  BY <1>2 DEF ScheduleArm
<1>3. CASE ScheduleTick
  BY <1>3 DEF ScheduleTick, DueSlots
<1>4. CASE ScheduleSnapshot
  BY <1>4 DEF ScheduleSnapshot
<1>5. ASSUME NEW i \in Slots, ScheduleServe(i) PROVE ScheduleInv'
  <2>1. due[i] <= tickNow /\ tickNow <= now
    BY <1>5 DEF ScheduleServe
  <2>2. /\ NextDue(i) \in Nat
        /\ NextDue(i) >= due[i] + cycle(i)
        /\ NextDue(i) <= tickNow + cycle(i)
    BY <2>1, NextDueBounds
  <2>3. ScheduleTypeOK'
    BY <1>5, <2>2 DEF ScheduleServe
  <2>4. TickInv'
    BY <1>5 DEF ScheduleServe
  <2>5. DeadlineInv'
    BY <1>5, <2>1, <2>2 DEF ScheduleServe
  <2>6. QED
    BY <2>3, <2>4, <2>5
<1>6. CASE ScheduleStop
  BY <1>6 DEF ScheduleStop
<1>7. CASE ScheduleExit
  BY <1>7 DEF ScheduleExit
<1>8. CASE AdvanceClock
  BY <1>8 DEF AdvanceClock
<1>9. CASE UNCHANGED scheduleVars
  BY <1>9 DEF scheduleVars
<1>10. QED
  BY <1>1, <1>2, <1>3, <1>4, <1>5, <1>6, <1>7, <1>8, <1>9 DEF ScheduleNext
-----------------------------------------------------------------------------
\* Every step of the publisher is a step of the schedule, or leaves it alone.
LEMMA NextIsSchedule == [Next]_vars => [ScheduleNext]_scheduleVars
BY DEF Next, ThreadStep, PluginStep, vars, Arm, ServeSlot, Start, TickBegin,
       TickSnapshot, Stop, Exit, Advance, Terminated, HostPublish, StorePublish,
       SetLink, ScheduleNext

\* derive() is live only for a present link and a recent publish, and says
\* no-vehicle for a link that is down.
LEMMA DeriveFacts ==
    ASSUME NEW sn \in StoreType, NEW t \in Nat
    PROVE  /\ derive(sn, t).proxyState \in ProxyStates
           /\ derive(sn, t).proxyState = OK => derive(sn, t).live
           /\ derive(sn, t).live => /\ t - sn.lastPublish <= PluginTimeout
                                    /\ ~Down(sn)
           /\ Down(sn) => derive(sn, t).proxyState = NO_VEHICLE
BY PublisherAssumption
   DEF derive, StoreType, Down, ProxyStates, STARTING, NO_VEHICLE, DEGRADED, OK

\* A frame shows nothing unless its values are live.
LEMMA PayloadLive ==
    ASSUME NEW id, NEW s, NEW live \in BOOLEAN, NEW ps, NEW c,
           payload(id, framesFrom(s, live, ps, c)) # {}
    PROVE  live
BY DEF payload, framesFrom, has

\* What a frame says is well typed.
LEMMA FrameType ==
    ASSUME NEW s \in VehicleStates, NEW live \in BOOLEAN, NEW ps \in ProxyStates,
           NEW c \in 0 .. (CounterModulus - 1), NEW id
    PROVE  /\ payload(id, framesFrom(s, live, ps, c)) \in SUBSET (Signals \cup Lamps)
           /\ framesFrom(s, live, ps, c).status
                \in [proxyState: ProxyStates, counter: 0 .. (CounterModulus - 1),
                    caps: SUBSET Capabilities]
<1>1. s.capable \subseteq Signals /\ s.lamps \subseteq Lamps
  <2>1. CASE s \in States
    BY <2>1, PublisherAssumption DEF Lamps
  <2>2. CASE s = NoState
    BY <2>2 DEF NoState
  <2>3. QED
    BY <2>1, <2>2 DEF VehicleStates
<1>2. payload(id, framesFrom(s, live, ps, c)) \in SUBSET (Signals \cup Lamps)
  BY <1>1 DEF payload, framesFrom, telltalesFrom
<1>3. capabilitiesFrom(s.capable) \in SUBSET Capabilities
  BY <1>1 DEF capabilitiesFrom, Capabilities
<1>4. QED
  BY <1>2, <1>3 DEF framesFrom

\* The initial state satisfies the invariant.
LEMMA InitInv == Init => Inv
<1> SUFFICES ASSUME Init PROVE Inv
  OBVIOUS
<1>1. ScheduleInv
  BY ScheduleInitInv DEF Init
<1>2. NoState \in VehicleStates
  BY DEF VehicleStates
<1>3. EmptyStore \in StoreType
  BY <1>2 DEF EmptyStore, StoreType
<1>4. 0 \in 0 .. (CounterModulus - 1)
  BY PublisherAssumption
<1>5. NoHeartbeat \in [proxyState: ProxyStates, counter: 0 .. (CounterModulus - 1),
                      caps: SUBSET Capabilities]
  BY <1>4 DEF NoHeartbeat, ProxyStates
<1>6. TypeOK
  BY <1>1, <1>2, <1>3, <1>4, <1>5
     DEF Init, TypeOK, ScheduleInv, NoCall, NoFrame, Never
<1>7. FreshInv
  BY DEF Init, ScheduleInit, FreshInv, Armed
<1>8. LinkInv
  BY DEF Init, ScheduleInit, LinkInv, Armed, Down, EmptyStore, Never
<1>9. QED
  BY <1>1, <1>6, <1>7, <1>8 DEF Inv

\* The clock is a natural number, so never before the clock's start.
LEMMA NowFacts == TypeOK => now \in Nat /\ now # Never /\ Never <= now /\ now <= now
BY DEF TypeOK, ScheduleTypeOK, Never

\* A plugin thread's step preserves the invariant.
LEMMA PluginStepInv ==
    ASSUME Inv, ScheduleInv', PluginStep PROVE TypeOK' /\ FreshInv' /\ LinkInv'
<1> USE DEF Inv, TypeOK
<1> PICK t \in Threads : \/ \E s \in States : HostPublish(t, s)
                         \/ StorePublish(t)
                         \/ \E present \in BOOLEAN : SetLink(t, present)
  BY DEF PluginStep
<1>1. ASSUME NEW s \in States, HostPublish(t, s)
      PROVE  TypeOK' /\ FreshInv' /\ LinkInv'
  <2> USE <1>1 DEF HostPublish, scheduleVars
  <2>1. TypeOK'
    BY DEF ScheduleTypeOK, VehicleStates
  <2>2. FreshInv'
    BY DEF FreshInv, Armed, Asserts
  <2>3. LinkInv'
    BY DEF LinkInv, Armed, Unaware, Down
  <2>4. QED
    BY <2>1, <2>2, <2>3
<1>2. CASE StorePublish(t)
  <2> USE <1>2 DEF StorePublish, scheduleVars
  <2>0. NoCall \in [active: BOOLEAN, at: Nat, state: VehicleStates]
    BY DEF NoCall, VehicleStates
  <2>1. TypeOK'
    <3>1. store' \in StoreType
      BY DEF StoreType
    <3>2. call' \in [Threads -> [active: BOOLEAN, at: Nat, state: VehicleStates]]
      BY <2>0
    <3>3. QED
      BY <3>1, <3>2 DEF ScheduleTypeOK
  <2>2. FreshInv'
    BY DEF FreshInv, Armed, Asserts
  <2>3. Down(store)' <=> Down(store)
    BY DEF Down, StoreType
  <2>4. LinkInv'
    BY <2>3 DEF LinkInv, Armed, Unaware, Down
  <2>5. QED
    BY <2>1, <2>2, <2>4
<1>3. ASSUME NEW present \in BOOLEAN, SetLink(t, present)
      PROVE  TypeOK' /\ FreshInv' /\ LinkInv'
  <2> USE <1>3 DEF SetLink, scheduleVars
  <2>1. TypeOK'
    <3>1. store' \in StoreType
      BY DEF StoreType
    <3>2. downSince' \in Nat \cup {Never}
      BY DEF ScheduleTypeOK
    <3>3. QED
      BY <3>1, <3>2 DEF ScheduleTypeOK
  <2>2. FreshInv'
    BY DEF FreshInv, Armed, Asserts
  <2>3. Down(store)' <=> ~present
    BY DEF Down, StoreType
  <2>4. CASE present
    <3>1. downSince' = Never
      BY <2>4
    <3>2. Never <= now
      BY NowFacts
    <3>3. LinkInv'
      BY <2>3, <2>4, <3>1, <3>2 DEF LinkInv
    <3>4. QED
      BY <2>1, <2>2, <3>3
  <2>5. CASE ~present /\ downSince = Never
    <3>1. downSince' = now /\ now # Never
      BY <2>5, NowFacts
    <3>2. \A i \in Slots : Armed => due[i] <= now + cycle(i)
      BY DEF ScheduleInv, DeadlineInv
    <3>3. pc = "send" => tickNow <= now
      BY DEF ScheduleInv, TickInv
    <3>4. LinkInv'
      <4>1. Down(store)' /\ downSince' # Never /\ downSince' <= now'
        BY <2>3, <2>5, <3>1, NowFacts
      <4>2. (pc = "send" /\ ~Down(snap) => tickNow <= downSince)'
        BY <3>1, <3>3
      <4>3. (Armed => \A i \in Mandatory :
                Unaware(i) => due[i] <= downSince + cycle(i))'
        BY <3>1, <3>2 DEF Armed, Mandatory, cycle
      <4>4. QED
        BY <4>1, <4>2, <4>3 DEF LinkInv
    <3>5. QED
      BY <2>1, <2>2, <3>4
  <2>6. CASE ~present /\ downSince # Never
    <3>1. downSince' = downSince
      BY <2>6
    <3>2. LinkInv'
      BY <2>3, <2>6, <3>1 DEF LinkInv, Armed, Unaware, Down
    <3>3. QED
      BY <2>1, <2>2, <3>2
  <2>7. QED
    BY <2>4, <2>5, <2>6
<1>4. QED
  BY <1>1, <1>2, <1>3

\* Serving a slot preserves the invariant: the frame asserts something only if
\* the snapshot is live, and its slot is due again within a cycle of the tick.
LEMMA ServeStepInv ==
    ASSUME Inv, ScheduleInv', NEW i \in Slots, ServeSlot(i)
    PROVE  TypeOK' /\ FreshInv' /\ LinkInv'
<1> DEFINE dv == derive(snap, tickNow)
<1> DEFINE f == framesFrom(snap.state, dv.live, dv.proxyState, counter)
<1> USE DEF Inv, TypeOK
<1>1. /\ pc = "send" /\ Armed
      /\ due[i] <= tickNow /\ tickNow \in Nat
      /\ due'[i] = NextDue(i)
      /\ \A j \in Slots : j # i => due'[j] = due[j]
      /\ now' = now
  BY DEF ServeSlot, ScheduleServe, ScheduleInv, TickInv, ScheduleTypeOK, Armed
<1>2. NextDue(i) <= tickNow + cycle(i) /\ NextDue(i) \in Nat
  BY <1>1, NextDueBounds
<1>3. /\ dv.proxyState \in ProxyStates
      /\ dv.proxyState = OK => dv.live
      /\ dv.live => tickNow - snap.lastPublish <= PluginTimeout /\ ~Down(snap)
      /\ Down(snap) => dv.proxyState = NO_VEHICLE
  BY <1>1, DeriveFacts
<1>4. dv.live \in BOOLEAN
  BY DEF derive
<1>5. snap.state \in VehicleStates /\ snap.lastPublish \in Nat
  BY DEF StoreType
<1>6. TickFrames = f
  BY DEF TickFrames
<1>7. /\ payload(Order[i], f) \in SUBSET (Signals \cup Lamps)
      /\ f.status \in [proxyState: ProxyStates, counter: 0 .. (CounterModulus - 1),
                       caps: SUBSET Capabilities]
  BY <1>3, <1>4, <1>5, FrameType
<1>8. f.status.proxyState = dv.proxyState
  BY DEF framesFrom
<1>9. payload(Order[i], f) # {} => dv.live
  BY <1>4, PayloadLive
<1> HIDE DEF dv, f
<1>10. /\ \A j \in Slots : j # i => bus'[j] = bus[j]
       /\ Order[i] # "ASSIST" =>
             bus'[i] = [sent |-> TRUE, payload |-> payload(Order[i], f),
                        sample |-> snap.lastPublish]
       /\ Order[i] = "STATUS" => heartbeat' = f.status
       /\ Order[i] # "STATUS" => heartbeat' = heartbeat
  BY <1>6 DEF ServeSlot, sendFrame
<1>11. TypeOK'
  <2>1. counter' \in 0 .. (CounterModulus - 1)
    BY PublisherAssumption DEF nextCounter, ServeSlot
  <2>2. snap' \in StoreType
    BY DEF ServeSlot, EmptyStore, StoreType, VehicleStates
  <2> DEFINE FrameRec == [sent |-> TRUE, payload |-> payload(Order[i], f),
                          sample |-> snap.lastPublish]
  <2>3. FrameRec \in [sent: BOOLEAN, payload: SUBSET (Signals \cup Lamps),
                     sample: Nat]
    BY <1>5, <1>7
  <2>4. bus' = bus \/ bus' = [bus EXCEPT ![i] = FrameRec]
    BY <1>6 DEF ServeSlot, sendFrame
  <2> HIDE DEF FrameRec
  <2>5. bus' \in [Slots -> [sent: BOOLEAN, payload: SUBSET (Signals \cup Lamps),
                           sample: Nat]]
    BY <2>3, <2>4
  <2>6. heartbeat' = heartbeat \/ heartbeat' = f.status
    BY <1>10
  <2>7. heartbeat' \in [proxyState: ProxyStates,
                       counter: 0 .. (CounterModulus - 1),
                       caps: SUBSET Capabilities]
    BY <2>6, <1>7
  <2>8. QED
    BY <2>1, <2>2, <2>5, <2>7 DEF ServeSlot, ScheduleInv
<1>12. \A j \in Slots : j # i /\ Order[j] = "STATUS" => Order[i] # "STATUS"
  BY OrderAssumption DEF Slots
<1>13. ASSUME NEW j \in Mandatory, j # i
       PROVE  /\ Asserts(j)' <=> Asserts(j)
              /\ Unaware(j)' <=> Unaware(j)
              /\ bus'[j] = bus[j] /\ due'[j] = due[j]
  <2>1. j \in Slots /\ bus'[j] = bus[j] /\ due'[j] = due[j]
    BY <1>13, <1>1, <1>10 DEF Mandatory
  <2>2. Order[j] = "STATUS" => heartbeat' = heartbeat
    BY <1>13, <2>1, <1>10, <1>12
  <2>3. QED
    BY <2>1, <2>2 DEF Asserts, Unaware
<1>14. FreshInv'
  <2>1. Armed' \/ pc' = "done"
    BY DEF ServeSlot, ScheduleServe, Armed
  <2>2. ASSUME NEW j \in Mandatory, Asserts(j)'
        PROVE  due'[j] <= bus'[j].sample + PluginTimeout + cycle(j)
    <3>1. CASE j # i
      BY <2>2, <3>1, <1>1, <1>13 DEF FreshInv
    <3>2. CASE j = i
      <4>1. bus'[i] = [sent |-> TRUE, payload |-> payload(Order[i], f),
                       sample |-> snap.lastPublish]
        BY <3>2, <1>10 DEF Mandatory
      <4>2. dv.live
        BY <2>2, <3>2, <4>1, <1>3, <1>8, <1>9, <1>10 DEF Asserts
      <4>3. due'[i] <= tickNow + cycle(i) /\ tickNow - snap.lastPublish <= PluginTimeout
        BY <4>2, <1>1, <1>2, <1>3
      <4>4. QED
        BY <3>2, <4>1, <4>3, <1>1, <1>2, <1>5, CycleType, PublisherAssumption
    <3>3. QED
      BY <3>1, <3>2
  <2>3. QED
    BY <2>1, <2>2 DEF FreshInv, Mandatory, cycle
<1>15. LinkInv'
  <2>1. /\ store' = store /\ downSince' = downSince
    BY DEF ServeSlot
  <2>2. (downSince # Never <=> Down(store))' /\ (downSince <= now)'
    BY <2>1, <1>1 DEF LinkInv, Down
  <2>3. ASSUME downSince # Never, pc' = "send", ~Down(snap)'
        PROVE  tickNow' <= downSince
    <3>1. snap' = snap /\ tickNow' = tickNow
      BY <2>3 DEF ServeSlot, ScheduleServe
    <3>2. QED
      BY <2>3, <3>1, <1>1 DEF LinkInv, Down
  <2>4. ASSUME downSince # Never, NEW j \in Mandatory, Unaware(j)'
        PROVE  due'[j] <= downSince + cycle(j)
    <3>1. CASE j # i
      BY <2>4, <3>1, <1>1, <1>13 DEF LinkInv
    <3>2. CASE j = i
      <4>1. bus'[i] = [sent |-> TRUE, payload |-> payload(Order[i], f),
                       sample |-> snap.lastPublish]
        BY <3>2, <1>10 DEF Mandatory
      <4>2. ~Down(snap)
        BY <2>4, <3>2, <4>1, <1>3, <1>8, <1>9, <1>10 DEF Unaware
      <4>3. tickNow <= downSince
        BY <4>2, <2>4, <1>1 DEF LinkInv
      <4>4. downSince \in Nat
        BY <2>4
      <4>5. QED
        BY <3>2, <4>3, <4>4, <1>1, <1>2, CycleType
    <3>3. QED
      BY <3>1, <3>2
  <2>5. QED
    BY <2>1, <2>2, <2>3, <2>4 DEF LinkInv, Mandatory, cycle
<1>16. QED
  BY <1>11, <1>14, <1>15

\* The publisher thread's other steps, the clock and the daemon's calls preserve
\* the invariant.
LEMMA OtherStepInv ==
    ASSUME Inv, ScheduleInv',
           \/ Arm \/ TickBegin \/ TickSnapshot \/ Exit \/ Start \/ Stop
           \/ Advance \/ Terminated \/ UNCHANGED vars
    PROVE  TypeOK' /\ FreshInv' /\ LinkInv'
<1> USE DEF Inv, TypeOK, dataVars
<1>1. CASE Arm
  <2> USE <1>1 DEF Arm, ScheduleArm
  <2>1. TypeOK'
    BY DEF ScheduleInv
  <2>2. \A i \in Slots : bus[i] = NoFrame
    BY DEF FreshInv, Armed
  <2>3. \A i \in Mandatory : ~Asserts(i)' /\ ~Unaware(i)'
    BY <2>2 DEF Asserts, Unaware, NoFrame, Mandatory
  <2>4. FreshInv' /\ LinkInv'
    BY <2>3 DEF FreshInv, LinkInv, Armed, Mandatory, Down
  <2>5. QED
    BY <2>1, <2>4
<1>2. CASE TickSnapshot
  <2> USE <1>2 DEF TickSnapshot, ScheduleSnapshot
  <2>1. TypeOK'
    BY DEF ScheduleInv
  <2>2. FreshInv'
    BY DEF FreshInv, Armed, Asserts
  <2>3. Down(snap)' <=> Down(store)
    BY DEF Down
  <2>4. LinkInv'
    BY <2>3 DEF LinkInv, Armed, Unaware, Down
  <2>5. QED
    BY <2>1, <2>2, <2>4
<1>3. CASE Advance
  <2> USE <1>3 DEF Advance, AdvanceClock
  <2>1. TypeOK'
    BY DEF ScheduleInv
  <2>2. FreshInv'
    BY DEF FreshInv, Armed, Asserts
  <2>3. now' = now + 1 /\ now \in Nat /\ downSince \in Int
    BY DEF ScheduleTypeOK, Never
  <2>4. downSince' <= now'
    BY <2>3 DEF LinkInv
  <2>5. LinkInv'
    BY <2>4 DEF LinkInv, Armed, Unaware, Down
  <2>6. QED
    BY <2>1, <2>2, <2>5
<1>4. CASE TickBegin \/ Exit \/ Start \/ Stop \/ Terminated \/ UNCHANGED vars
  <2>1. UNCHANGED dataVars /\ UNCHANGED <<now, due>>
    BY <1>4 DEF TickBegin, Exit, Start, Stop, Terminated, vars, scheduleVars,
                ScheduleTick, ScheduleExit, ScheduleStart, ScheduleStop
  <2>2. /\ Armed' => Armed
        /\ ~Armed' /\ pc' # "done" => ~Armed /\ pc # "done"
        /\ pc' = "send" => pc = "send" /\ tickNow' = tickNow
    BY <1>4 DEF TickBegin, Exit, Start, Stop, Terminated, vars, scheduleVars,
                ScheduleTick, ScheduleExit, ScheduleStart, ScheduleStop, Armed
  <2>3. TypeOK'
    BY <2>1 DEF ScheduleInv
  <2>4. FreshInv'
    BY <2>1, <2>2 DEF FreshInv, Asserts
  <2>5. LinkInv'
    BY <2>1, <2>2 DEF LinkInv, Unaware, Down
  <2>6. QED
    BY <2>3, <2>4, <2>5
<1>5. QED
  BY <1>1, <1>2, <1>3, <1>4

\* Every step preserves the invariant.
LEMMA InvStep == Inv /\ [Next]_vars => Inv'
<1> SUFFICES ASSUME Inv, [Next]_vars PROVE Inv'
  OBVIOUS
<1>1. ScheduleInv'
  BY NextIsSchedule, ScheduleStep DEF Inv
<1>2. CASE PluginStep
  BY <1>1, <1>2, PluginStepInv DEF Inv
<1>3. CASE \E i \in Slots : ServeSlot(i)
  BY <1>1, <1>3, ServeStepInv DEF Inv
<1>4. CASE \/ Arm \/ TickBegin \/ TickSnapshot \/ Exit \/ Start \/ Stop
           \/ Advance \/ Terminated \/ UNCHANGED vars
  BY <1>1, <1>4, OtherStepInv DEF Inv
<1>5. QED
  BY <1>2, <1>3, <1>4 DEF Next, ThreadStep

\* The invariant holds in every reachable state of the publisher.
THEOREM Invariance == Spec => []Inv
BY InitInv, InvStep, PTL DEF Spec

\* Types of the store, the thread and the bus; m_counter stays in its byte.
THEOREM TypeCorrect == Spec => []TypeOK
BY Invariance, PTL DEF Inv

\* Nothing older than the plugin timeout and one cycle is asserted on the bus
\* (derive, framesFrom and the schedule of tick).
THEOREM BoundedAge == Spec => []BusFresh
<1>1. ASSUME Inv, Armed, NEW i \in Mandatory, Asserts(i)
      PROVE  now - bus[i].sample <= PluginTimeout + cycle(i) + MaxLag
  <2>1. i \in Slots
    BY DEF Mandatory
  <2>2. /\ due[i] <= bus[i].sample + PluginTimeout + cycle(i)
        /\ now <= due[i] + MaxLag
    BY <1>1, <2>1 DEF Inv, FreshInv, ScheduleInv, DeadlineInv
  <2>3. /\ now \in Nat /\ due[i] \in Nat /\ bus[i].sample \in Nat
        /\ cycle(i) \in Nat /\ MaxLag \in Nat /\ PluginTimeout \in Nat
    BY <1>1, <2>1, CycleType, TimingAssumption, PublisherAssumption
       DEF Inv, TypeOK, ScheduleTypeOK
  <2>4. QED
    BY <2>2, <2>3
<1>2. Inv => BusFresh
  BY <1>1 DEF BusFresh
<1>3. QED
  BY Invariance, <1>2, PTL

\* One cycle after set_link(0) the bus says so (setLink, derive, tick).
THEOREM LossReported == Spec => []LinkLossReported
<1>1. ASSUME Inv, Armed, downSince # Never, NEW i \in Mandatory,
             now > downSince + cycle(i) + MaxLag
      PROVE  ~Unaware(i)
  <2>1. i \in Slots
    BY DEF Mandatory
  <2>2. /\ Unaware(i) => due[i] <= downSince + cycle(i)
        /\ now <= due[i] + MaxLag
    BY <1>1, <2>1 DEF Inv, LinkInv, ScheduleInv, DeadlineInv
  <2>3. /\ now \in Nat /\ due[i] \in Nat /\ downSince \in Nat
        /\ cycle(i) \in Nat /\ MaxLag \in Nat
    BY <1>1, <2>1, CycleType, TimingAssumption DEF Inv, TypeOK, ScheduleTypeOK
  <2>4. QED
    BY <1>1, <2>2, <2>3
<1>2. Inv => LinkLossReported
  BY <1>1 DEF LinkLossReported, Unaware
<1>3. QED
  BY Invariance, <1>2, PTL
-----------------------------------------------------------------------------
(***************************************************************************)
(* What one frame says compared with the one before.                       *)
(***************************************************************************)

\* A capability bit is advertised exactly when a signal is.
LEMMA CapsFacts == ASSUME NEW s PROVE capabilitiesFrom(s) = {} <=> s = {}
BY DEF capabilitiesFrom

LEMMA HistoryInit == Init => HistoryInv
<1> SUFFICES ASSUME Init PROVE HistoryInv
  OBVIOUS
<1>1. CounterInv
  BY DEF Init, CounterInv, NoFrame
<1>2. CapabilityInv
  BY DEF Init, ScheduleInit, CapabilityInv, NoCall, NoHeartbeat, EmptyStore
<1>3. AgeInv
  BY DEF Init, ScheduleInit, AgeInv, NoCall, NoFrame, EmptyStore
<1>4. QED
  BY <1>1, <1>2, <1>3 DEF HistoryInv

\* A plugin thread's step preserves what relates the store to the bus.
LEMMA HistoryPlugin == ASSUME Inv, HistoryInv, PluginStep PROVE HistoryInv'
<1> USE DEF HistoryInv, Inv, TypeOK
<1> PICK t \in Threads : \/ \E s \in States : HostPublish(t, s)
                         \/ StorePublish(t)
                         \/ \E present \in BOOLEAN : SetLink(t, present)
  BY DEF PluginStep
<1>1. ASSUME NEW s \in States, HostPublish(t, s) PROVE HistoryInv'
  <2> USE <1>1 DEF HostPublish, scheduleVars
  <2>1. CounterInv'
    BY DEF CounterInv
  <2>2. CapabilityInv'
    BY DEF CapabilityInv
  <2>3. AgeInv'
    BY DEF AgeInv, ScheduleTypeOK
  <2>4. QED
    BY <2>1, <2>2, <2>3
<1>2. CASE StorePublish(t)
  <2> USE <1>2 DEF StorePublish, scheduleVars
  <2>0. store'.state = call[t].state /\ store'.lastPublish = call[t].at
    BY DEF StoreType
  <2>1. CounterInv'
    BY DEF CounterInv
  <2>2. CapabilityInv'
    BY <2>0 DEF CapabilityInv, NoCall
  <2>3. AgeInv'
    <3>1. SUFFICES ASSUME \A u, v \in Threads : u = v PROVE AgeInv'
      BY DEF AgeInv
    <3>2. /\ store.lastPublish \in Nat /\ snap.lastPublish \in Nat /\ call[t].at \in Nat
          /\ \A i \in Slots : bus[i].sample \in Nat
      BY DEF StoreType
    <3>3. store.lastPublish <= call[t].at /\ call[t].at <= now
      BY <3>1 DEF AgeInv
    <3>4. \A u \in Threads : ~call'[u].active
      BY <3>1 DEF NoCall
    <3>5. QED
      BY <2>0, <3>1, <3>2, <3>3, <3>4 DEF AgeInv
  <2>4. QED
    BY <2>1, <2>2, <2>3
<1>3. ASSUME NEW present \in BOOLEAN, SetLink(t, present) PROVE HistoryInv'
  <2> USE <1>3 DEF SetLink, scheduleVars
  <2>0. store'.state = store.state /\ store'.lastPublish = store.lastPublish
    BY DEF StoreType
  <2>1. CounterInv'
    BY DEF CounterInv
  <2>2. CapabilityInv'
    BY <2>0 DEF CapabilityInv
  <2>3. AgeInv'
    BY <2>0 DEF AgeInv
  <2>4. QED
    BY <2>1, <2>2, <2>3
<1>4. QED
  BY <1>1, <1>2, <1>3

\* The frame of a served slot is built from the snapshot and the counter.
LEMMA ServeFacts ==
    ASSUME Inv, NEW i \in Slots, ServeSlot(i)
    PROVE  /\ pc = "send" /\ now' = now /\ store' = store /\ call' = call
           /\ \A j \in Slots : \/ bus'[j] = bus[j]
                               \/ j = i /\ bus'[j].sample = snap.lastPublish
           /\ Order[i] = "STATUS" =>
                 /\ heartbeat'.counter = counter
                 /\ heartbeat'.caps = capabilitiesFrom(snap.state.capable)
                 /\ counter' = (counter + 1) % CounterModulus
           /\ Order[i] # "STATUS" =>
                 /\ heartbeat' = heartbeat /\ counter' = counter
                 /\ \A j \in Slots : Order[j] = "STATUS" => bus'[j] = bus[j]
           /\ pc' = "send" => snap' = snap
           /\ snap' = snap \/ snap' = EmptyStore
<1> USE DEF Inv, TypeOK
<1>1. pc = "send" /\ now' = now /\ store' = store /\ call' = call
  BY DEF ServeSlot, ScheduleServe
<1>2. \A j \in Slots : \/ bus'[j] = bus[j]
                       \/ j = i /\ bus'[j].sample = snap.lastPublish
  BY DEF ServeSlot, sendFrame
<1>3. Order[i] = "STATUS" =>
         /\ heartbeat'.counter = counter
         /\ heartbeat'.caps = capabilitiesFrom(snap.state.capable)
         /\ counter' = (counter + 1) % CounterModulus
  BY DEF ServeSlot, sendFrame, TickFrames, framesFrom, nextCounter
<1>4. Order[i] # "STATUS" =>
         /\ heartbeat' = heartbeat /\ counter' = counter
         /\ \A j \in Slots : Order[j] = "STATUS" => bus'[j] = bus[j]
  BY DEF ServeSlot, sendFrame, nextCounter
<1>5. (pc' = "send" => snap' = snap) /\ (snap' = snap \/ snap' = EmptyStore)
  BY DEF ServeSlot, ScheduleServe
<1>6. QED
  BY <1>1, <1>2, <1>3, <1>4, <1>5

LEMMA HistoryServe ==
    ASSUME Inv, HistoryInv, NEW i \in Slots, ServeSlot(i) PROVE HistoryInv'
<1> USE ServeFacts DEF HistoryInv
<1>1. CounterInv'
  <2>1. CASE Order[i] = "STATUS"
    BY <2>1 DEF CounterInv
  <2>2. CASE Order[i] # "STATUS"
    BY <2>2 DEF CounterInv
  <2>3. QED
    BY <2>1, <2>2
<1>2. CapabilityInv'
  <2>1. SUFFICES ASSUME \A s \in States : s.capable # {} PROVE CapabilityInv'
    BY DEF CapabilityInv
  <2>2. snap'.state.capable # {} => store'.state.capable # {}
    BY <2>1 DEF CapabilityInv, EmptyStore, NoState
  <2>3. heartbeat'.caps # {} => heartbeat.caps # {} \/ snap.state.capable # {}
    BY CapsFacts
  <2>4. heartbeat'.caps # {} => store'.state.capable # {} /\ snap.state.capable # {}
    BY <2>1, <2>3 DEF CapabilityInv
  <2>5. QED
    BY <2>1, <2>2, <2>4 DEF CapabilityInv
<1>3. AgeInv'
  <2>1. SUFFICES ASSUME \A u, v \in Threads : u = v PROVE AgeInv'
    BY DEF AgeInv
  <2>2. store.lastPublish \in Nat
    BY DEF Inv, TypeOK, StoreType
  <2>3. snap'.lastPublish <= store'.lastPublish
    BY <2>1, <2>2 DEF AgeInv, EmptyStore
  <2>4. \A j \in Slots : /\ bus'[j].sample <= store'.lastPublish
                         /\ pc' = "send" => bus'[j].sample <= snap'.lastPublish
    <3>1. snap.lastPublish <= snap.lastPublish
      BY DEF Inv, TypeOK, StoreType
    <3>2. QED
      BY <2>1, <3>1 DEF AgeInv
  <2>5. QED
    BY <2>1, <2>3, <2>4 DEF AgeInv
<1>4. QED
  BY <1>1, <1>2, <1>3

LEMMA HistoryOther ==
    ASSUME Inv, HistoryInv,
           \/ Arm \/ TickBegin \/ TickSnapshot \/ Exit \/ Start \/ Stop
           \/ Advance \/ Terminated \/ UNCHANGED vars
    PROVE  HistoryInv'
<1> USE DEF HistoryInv, Inv, TypeOK, dataVars
<1>1. CASE TickSnapshot
  <2> USE <1>1 DEF TickSnapshot, ScheduleSnapshot
  <2>1. CounterInv'
    BY DEF CounterInv
  <2>2. CapabilityInv'
    BY DEF CapabilityInv
  <2>3. AgeInv'
    BY DEF AgeInv, StoreType
  <2>4. QED
    BY <2>1, <2>2, <2>3
<1>2. CASE Advance
  <2> USE <1>2 DEF Advance, AdvanceClock
  <2>1. CounterInv'
    BY DEF CounterInv
  <2>2. CapabilityInv'
    BY DEF CapabilityInv
  <2>3. AgeInv'
    BY DEF AgeInv, StoreType, ScheduleTypeOK
  <2>4. QED
    BY <2>1, <2>2, <2>3
<1>3. CASE Arm \/ TickBegin \/ Exit \/ Start \/ Stop \/ Terminated \/ UNCHANGED vars
  <2>1. UNCHANGED dataVars /\ now' = now /\ (pc' = "send" => pc = "send")
    BY <1>3 DEF Arm, TickBegin, Exit, Start, Stop, Terminated, vars, scheduleVars,
                ScheduleArm, ScheduleTick, ScheduleExit, ScheduleStart, ScheduleStop
  <2>2. CounterInv'
    BY <2>1 DEF CounterInv
  <2>3. CapabilityInv'
    BY <2>1 DEF CapabilityInv
  <2>4. AgeInv'
    BY <2>1 DEF AgeInv
  <2>5. QED
    BY <2>2, <2>3, <2>4
<1>4. QED
  BY <1>1, <1>2, <1>3

\* What relates the store, the snapshot and the frames holds in every state.
THEOREM HistoryInvariance == Spec => []HistoryInv
<1>1. Inv /\ HistoryInv /\ [Next]_vars => HistoryInv'
  <2> SUFFICES ASSUME Inv, HistoryInv, [Next]_vars PROVE HistoryInv'
    OBVIOUS
  <2>1. CASE PluginStep
    BY <2>1, HistoryPlugin
  <2>2. CASE \E i \in Slots : ServeSlot(i)
    BY <2>2, HistoryServe
  <2>3. CASE \/ Arm \/ TickBegin \/ TickSnapshot \/ Exit \/ Start \/ Stop
             \/ Advance \/ Terminated \/ UNCHANGED vars
    BY <2>3, HistoryOther
  <2>4. QED
    BY <2>1, <2>2, <2>3 DEF Next, ThreadStep
<1>2. QED
  BY Invariance, HistoryInit, <1>1, PTL DEF Spec

\* A step that serves no slot puts nothing on the bus.
LEMMA OnlyServeSends ==
    ASSUME [Next]_vars, ~\E i \in Slots : ServeSlot(i)
    PROVE  heartbeat' = heartbeat /\ bus' = bus
BY DEF Next, ThreadStep, PluginStep, Arm, TickBegin, TickSnapshot, Exit, Start, Stop,
       Advance, Terminated, HostPublish, StorePublish, SetLink, vars, dataVars

\* A slot leaves the tick's pending ones only when it is served.
LEMMA ServedByServe ==
    ASSUME Inv, [Next]_vars, NEW i \in Slots, IsServed(i)
    PROVE  ServeSlot(i)
<1> USE DEF IsServed
<1>1. CASE \E j \in Slots : ServeSlot(j)
  <2>1. PICK j \in Slots : ServeSlot(j)
    BY <1>1
  <2>2. pending' = pending \ {j}
    BY <2>1 DEF ServeSlot, ScheduleServe
  <2>3. i = j
    BY <2>2
  <2>4. QED
    BY <2>1, <2>3
<1>2. CASE TickBegin
  BY <1>2 DEF TickBegin, ScheduleTick, Inv, ScheduleInv, TickInv
<1>3. CASE ~(\E j \in Slots : ServeSlot(j)) /\ ~TickBegin
  <2>1. pending' = pending
    BY <1>3 DEF Next, ThreadStep, PluginStep, Arm, TickSnapshot, Exit, Start, Stop, Advance,
           Terminated, HostPublish, StorePublish, SetLink, ScheduleArm, ScheduleSnapshot,
           ScheduleExit, ScheduleStart, ScheduleStop, AdvanceClock, vars, scheduleVars
  <2>2. QED
    BY <2>1
<1>4. QED
  BY <1>1, <1>2, <1>3

\* Each status frame carries the counter of the one before plus one, for every width
\* of the counter and any number of plugin threads (tick() and sendFrame()).
THEOREM CounterAdvances == Spec => CounterContinuity
<1>1. ASSUME Inv, HistoryInv, [Next]_vars, NEW i \in Slots,
             Order[i] = "STATUS", bus[i].sent, IsServed(i)
      PROVE  heartbeat'.counter = (heartbeat.counter + 1) % CounterModulus
  <2>1. ServeSlot(i)
    BY <1>1, ServedByServe
  <2>2. heartbeat'.counter = counter
    BY <1>1, <2>1, ServeFacts
  <2>3. QED
    BY <1>1, <2>2 DEF HistoryInv, CounterInv
<1> DEFINE Step == \A i \in Slots :
         Order[i] = "STATUS" /\ bus[i].sent /\ IsServed(i)
            => heartbeat'.counter = (heartbeat.counter + 1) % CounterModulus
<1>2. Inv /\ HistoryInv /\ [Next]_vars => [Step]_vars
  BY <1>1
<1> HIDE DEF Step
<1>3. Spec => [][Step]_vars
  BY Invariance, HistoryInvariance, <1>2, PTL DEF Spec
<1>4. QED
  BY <1>3 DEF Step, CounterContinuity

\* Capabilities once advertised are never withdrawn altogether: not by a lost link,
\* a plugin timeout or a new state (framesFrom sends them whether or not live).
THEOREM CapabilitiesKept == Spec => CapabilitiesStay
<1> DEFINE Step == (\A s \in States : s.capable # {}) /\ heartbeat.caps # {}
                      => heartbeat'.caps # {}
<1>1. Inv /\ HistoryInv /\ [Next]_vars => [Step]_vars
  <2> SUFFICES ASSUME Inv, HistoryInv, [Next]_vars,
                      \A s \in States : s.capable # {}, heartbeat.caps # {}
               PROVE  heartbeat'.caps # {}
    OBVIOUS
  <2>1. CASE ~\E i \in Slots : ServeSlot(i)
    BY <2>1, OnlyServeSends
  <2>2. ASSUME NEW i \in Slots, ServeSlot(i) PROVE heartbeat'.caps # {}
    BY <2>2, ServeFacts, CapsFacts DEF HistoryInv, CapabilityInv
  <2>3. QED
    BY <2>1, <2>2
<1> HIDE DEF Step
<1>2. Spec => [][Step]_vars
  BY Invariance, HistoryInvariance, <1>1, PTL DEF Spec
<1>3. QED
  BY <1>2 DEF Step, CapabilitiesStay

\* With one plugin thread no slot goes back to an older vehicle state, although
\* hostPublish reads the clock before it takes the store's mutex.
THEOREM NothingOlder == Spec => NeverOlder
<1> DEFINE Step == (\A t, u \in Threads : t = u)
                      => \A i \in Slots : bus'[i].sample >= bus[i].sample
<1>1. Inv /\ HistoryInv /\ [Next]_vars => [Step]_vars
  <2> SUFFICES ASSUME Inv, HistoryInv, [Next]_vars, \A t, u \in Threads : t = u,
                      NEW i \in Slots
               PROVE  bus'[i].sample >= bus[i].sample
    OBVIOUS
  <2>1. bus[i].sample \in Nat
    BY DEF Inv, TypeOK
  <2>2. CASE ~\E j \in Slots : ServeSlot(j)
    BY <2>1, <2>2, OnlyServeSends
  <2>3. ASSUME NEW j \in Slots, ServeSlot(j) PROVE bus'[i].sample >= bus[i].sample
    <3>1. bus'[i] = bus[i] \/ bus'[i].sample = snap.lastPublish
      BY <2>3, ServeFacts
    <3>2. bus[i].sample <= snap.lastPublish
      BY <2>3, ServeFacts DEF HistoryInv, AgeInv
    <3>3. snap.lastPublish \in Nat
      BY DEF Inv, TypeOK, StoreType
    <3>4. QED
      BY <2>1, <3>1, <3>2, <3>3
  <2>4. QED
    BY <2>2, <2>3
<1> HIDE DEF Step
<1>2. Spec => [][Step]_vars
  BY Invariance, HistoryInvariance, <1>1, PTL DEF Spec
<1>3. QED
  BY <1>2 DEF Step, NeverOlder
=============================================================================
