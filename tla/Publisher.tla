----------------------------- MODULE Publisher ------------------------------
(***************************************************************************)
(* core/Publisher.cpp: the state store that plugin threads write through   *)
(* PluginHost, and the publisher thread that derives the proxy state from  *)
(* it and puts the contract frames on the bus.                             *)
(*                                                                         *)
(* Every step reads the clock where the code does: hostPublish before it   *)
(* takes the store's mutex, the publisher before it takes the snapshot.    *)
(***************************************************************************)
EXTENDS Schedule, StateStore

CONSTANTS
    CounterModulus, \* 256 in the code: the heartbeat counter is one byte
    Threads,        \* plugin threads that call the host
    States          \* vehicle states a plugin may publish

VehicleStates == States \cup {NoState}

ASSUME PublisherAssumption ==
    /\ PluginTimeout \in Nat
    /\ CounterModulus \in Nat \ {0}
    /\ \A s \in States : s.capable \subseteq Signals /\ s.unknown \subseteq EnumSignals

VARIABLES
    store,    \* StateStore::m_data
    call,     \* per plugin thread: the hostPublish call it is inside
    counter,  \* m_counter
    snap      \* the snapshot of this tick; empty between ticks

\* History variables: what a consumer received last, and when the link was lost.
VARIABLES
    bus,        \* per slot: the last frame, with the time its data was handed over
    heartbeat,  \* the content of the last status frame
    downSince   \* when the link was reported lost, if it is

dataVars == <<store, call, counter, snap, bus, heartbeat, downSince>>
vars == <<scheduleVars, dataVars>>

Never == -1  \* a time before the clock starts
NoCall == [active |-> FALSE, at |-> 0, state |-> NoState]
NoFrame == [sent |-> FALSE, payload |-> {}, sample |-> 0]
NoHeartbeat == [proxyState |-> STARTING, counter |-> 0, caps |-> {}]

Init ==
    /\ ScheduleInit
    /\ store = EmptyStore
    /\ call = [t \in Threads |-> NoCall]
    /\ counter = 0
    /\ snap = EmptyStore
    /\ bus = [i \in Slots |-> NoFrame]
    /\ heartbeat = NoHeartbeat
    /\ downSince = Never
-----------------------------------------------------------------------------
(***************************************************************************)
(* The state store, written by plugin threads.  main() starts the          *)
(* publisher before the plugin and stops it after the plugin, so plugin    *)
(* threads call the host only while the publisher runs.                    *)
(***************************************************************************)

\* hostPublish has read the clock; StateStore::publish has not locked yet.
HostPublish(t, s) ==
    /\ running
    /\ ~call[t].active
    /\ call' = [call EXCEPT ![t] = [active |-> TRUE, at |-> now, state |-> s]]
    /\ UNCHANGED <<scheduleVars, store, counter, snap, bus, heartbeat, downSince>>

StorePublish(t) ==
    /\ call[t].active
    /\ store' = [store EXCEPT !.state = call[t].state,
                              !.everPublished = TRUE,
                              !.lastPublish = call[t].at]
    /\ call' = [call EXCEPT ![t] = NoCall]
    /\ UNCHANGED <<scheduleVars, counter, snap, bus, heartbeat, downSince>>

\* Mutant: losing the link forgets what the plugin published.
SetLinkForgets(t, present) ==
    /\ running
    /\ ~call[t].active
    /\ store' = [(IF present THEN store ELSE EmptyStore)
                    EXCEPT !.linkKnown = TRUE, !.linkPresent = present]
    /\ downSince' = IF present THEN Never
                    ELSE IF downSince = Never THEN now ELSE downSince
    /\ UNCHANGED <<scheduleVars, call, counter, snap, bus, heartbeat>>

\* hostSetLink: the time argument is ignored, so the call is one locked step.
SetLink(t, present) ==
    /\ running
    /\ ~call[t].active
    /\ store' = [store EXCEPT !.linkKnown = TRUE, !.linkPresent = present]
    /\ downSince' = IF present THEN Never
                    ELSE IF downSince = Never THEN now ELSE downSince
    /\ UNCHANGED <<scheduleVars, call, counter, snap, bus, heartbeat>>
-----------------------------------------------------------------------------
(***************************************************************************)
(* The publisher thread.                                                   *)
(***************************************************************************)

\* The frames of the tick.  framesFrom() is called before the counter is
\* incremented for a status frame, and only the status frame carries it.
TickFrames ==
    LET dv == derive(snap, tickNow)
    IN  framesFrom(snap.state, dv.live, dv.proxyState, counter)

\* The one locked read of a tick.
TickSnapshot ==
    /\ ScheduleSnapshot
    /\ snap' = store
    /\ UNCHANGED <<store, call, counter, bus, heartbeat, downSince>>

\* sendFrame() leaves out the driver-assist frame of a vehicle without one.
sendFrame(i, f) ==
    IF Order[i] = "ASSIST" /\ "ASSIST" \notin f.status.caps
    THEN UNCHANGED <<bus, heartbeat>>
    ELSE /\ bus' = [bus EXCEPT ![i] = [sent    |-> TRUE,
                                       payload |-> payload(Order[i], f),
                                       sample  |-> snap.lastPublish]]
         /\ heartbeat' = IF Order[i] = "STATUS" THEN f.status ELSE heartbeat

\* Mutant: the counter saturates instead of wrapping.
nextCounterSaturates(i) ==
    IF Order[i] = "STATUS" /\ counter < CounterModulus - 1 THEN counter + 1 ELSE counter

\* The status frame's heartbeat counter is a byte that wraps.
nextCounter(i) ==
    IF Order[i] = "STATUS" THEN (counter + 1) % CounterModulus ELSE counter

ServeSlot(i) ==
    /\ ScheduleServe(i)
    /\ counter' = nextCounter(i)
    /\ sendFrame(i, TickFrames)
    /\ snap' = IF pending' = {} THEN EmptyStore ELSE snap
    /\ UNCHANGED <<store, call, downSince>>

Start     == ScheduleStart /\ UNCHANGED dataVars
Arm       == ScheduleArm   /\ UNCHANGED dataVars
TickBegin == ScheduleTick  /\ UNCHANGED dataVars
Exit      == ScheduleExit  /\ UNCHANGED dataVars
Advance   == AdvanceClock  /\ UNCHANGED dataVars

Stop ==
    /\ \A t \in Threads : ~call[t].active
    /\ ScheduleStop
    /\ UNCHANGED dataVars

\* The daemon has stopped the publisher.
Terminated == pc = "done" /\ UNCHANGED vars

ThreadStep == \/ Arm \/ TickBegin \/ TickSnapshot \/ Exit
              \/ \E i \in Slots : ServeSlot(i)

PluginStep == \E t \in Threads :
                  \/ \E s \in States : HostPublish(t, s)
                  \/ StorePublish(t)
                  \/ \E present \in BOOLEAN : SetLink(t, present)

Next == PluginStep \/ ThreadStep \/ Start \/ Stop \/ Advance \/ Terminated

Spec == Init /\ [][Next]_vars
-----------------------------------------------------------------------------
(***************************************************************************)
(* Properties.                                                             *)
(***************************************************************************)
Capabilities == capabilitiesFrom(Signals)
Lamps == UNION {s.lamps : s \in States}
StoreType == [state: VehicleStates, everPublished: BOOLEAN, linkKnown: BOOLEAN,
              linkPresent: BOOLEAN, lastPublish: Nat]

\* Every variable of the store, the publisher thread and the history has its
\* type; m_counter stays in its byte.
TypeOK ==
    /\ ScheduleTypeOK
    /\ store \in StoreType
    /\ call \in [Threads -> [active: BOOLEAN, at: Nat, state: VehicleStates]]
    /\ counter \in 0 .. (CounterModulus - 1)
    /\ snap \in StoreType
    /\ bus \in [Slots -> [sent: BOOLEAN, payload: SUBSET (Signals \cup Lamps),
                          sample: Nat]]
    /\ heartbeat \in [proxyState: ProxyStates, counter: 0 .. (CounterModulus - 1),
                      caps: SUBSET Capabilities]
    /\ downSince \in Nat \cup {Never}

\* The frames every vehicle has: all but driver assist.
Mandatory == {i \in Slots : Order[i] # "ASSIST"}

\* Slot i's last frame tells a consumer something about the vehicle as it is now.
Asserts(i) ==
    \/ bus[i].payload # {}
    \/ Order[i] = "STATUS" /\ bus[i].sent /\ heartbeat.proxyState = OK

\* Bounded age: whatever a consumer is being told about the vehicle was handed
\* to the host at most PluginTimeout plus one cycle (plus the scheduling lag)
\* ago, although plugin threads, the clock and the publisher interleave.  A
\* plugin that hangs is off the bus by then.
BusFresh ==
    Armed => \A i \in Mandatory :
        Asserts(i) => now - bus[i].sample <= PluginTimeout + cycle(i) + MaxLag

\* Link loss is reported: one cycle (plus the lag) after set_link(0) no frame
\* shows a value any more and the status frame says no-vehicle, although a tick
\* may have taken its snapshot just before the call.
LinkLossReported ==
    Armed /\ downSince # Never => \A i \in Mandatory :
        now > downSince + cycle(i) + MaxLag =>
            /\ bus[i].payload = {}
            /\ Order[i] = "STATUS" /\ bus[i].sent
                  => heartbeat.proxyState = NO_VEHICLE

\* What the two bounds rest on.  A frame that asserts something was built from
\* data younger than PluginTimeout, and its slot comes up again within a cycle.
FreshInv ==
    /\ ~Armed /\ pc # "done" => \A i \in Slots : bus[i] = NoFrame
    /\ Armed => \A i \in Mandatory :
           Asserts(i) => due[i] <= bus[i].sample + PluginTimeout + cycle(i)

Down(sn) == sn.linkKnown /\ ~sn.linkPresent

\* Slot i's last frame does not tell that the link is down.
Unaware(i) ==
    \/ bus[i].payload # {}
    \/ Order[i] = "STATUS" /\ bus[i].sent /\ heartbeat.proxyState # NO_VEHICLE

\* While the link is down, a snapshot or a frame that does not say so is from a
\* tick no later than the loss, so the slot comes up again within a cycle of it.
LinkInv ==
    /\ downSince # Never <=> Down(store)
    /\ downSince <= now
    /\ downSince # Never =>
        /\ pc = "send" /\ ~Down(snap) => tickNow <= downSince
        /\ Armed => \A i \in Mandatory :
               Unaware(i) => due[i] <= downSince + cycle(i)

\* The inductive invariant behind BusFresh and LinkLossReported.
Inv == TypeOK /\ ScheduleInv /\ FreshInv /\ LinkInv

\* Slot i is served in this step.
IsServed(i) == i \in pending /\ i \notin pending'

\* A consumer that watches the heartbeat counter sees it advance by one, modulo
\* its width, with every status frame: none repeats the counter of the one before
\* or skips a value, whatever state and capabilities the two carry.
CounterContinuity ==
    [][\A i \in Slots :
         Order[i] = "STATUS" /\ bus[i].sent /\ IsServed(i)
            => heartbeat'.counter = (heartbeat.counter + 1) % CounterModulus]_vars

\* The cluster's layout does not collapse: once capabilities are advertised the
\* status frame goes on advertising some, in every proxy state, as long as
\* every state the plugin publishes has a capability.
CapabilitiesStay ==
    [][(\A s \in States : s.capable # {}) /\ heartbeat.caps # {}
          => heartbeat'.caps # {}]_vars

\* With a single plugin thread a slot never goes back to an older vehicle
\* state (hostPublish reads the clock outside the store's mutex).
NeverOlder ==
    [][(\A t, u \in Threads : t = u)
         => \A i \in Slots : bus'[i].sample >= bus[i].sample]_vars

\* What the three rest on.  The counter of the next status frame follows the one
\* that was sent last.
CounterInv ==
    \A i \in Slots : Order[i] = "STATUS" /\ bus[i].sent
        => counter = (heartbeat.counter + 1) % CounterModulus

\* Capabilities once seen are on their way to every later status frame: they are in
\* the store, in the call that is about to replace it, and in the tick's snapshot.
CapabilityInv ==
    (\A s \in States : s.capable # {}) =>
        /\ \A t \in Threads : call[t].active => call[t].state.capable # {}
        /\ snap.state.capable # {} => store.state.capable # {}
        /\ heartbeat.caps # {} => store.state.capable # {}
        /\ pc = "send" /\ heartbeat.caps # {} => snap.state.capable # {}

\* The only plugin thread's clock readings reach the store in their order, the store
\* is never behind the tick's snapshot, nor this behind a frame.
AgeInv ==
    (\A t, u \in Threads : t = u) =>
        /\ store.lastPublish <= now
        /\ \A t \in Threads : call[t].active => /\ store.lastPublish <= call[t].at
                                                /\ call[t].at <= now
        /\ snap.lastPublish <= store.lastPublish
        /\ \A i \in Slots : /\ bus[i].sample <= store.lastPublish
                            /\ pc = "send" => bus[i].sample <= snap.lastPublish

\* The inductive invariant behind CounterContinuity, CapabilitiesStay and NeverOlder.
HistoryInv == CounterInv /\ CapabilityInv /\ AgeInv
=============================================================================
