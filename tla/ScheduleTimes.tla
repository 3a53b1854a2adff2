--------------------------- MODULE ScheduleTimes ----------------------------
(***************************************************************************)
(* The schedule of core/Publisher.cpp with a history of when each slot was *)
(* served: what a consumer on the contract bus can measure.                *)
(***************************************************************************)
EXTENDS Schedule

CONSTANTS
    Stale,    \* age at which a consumer treats a frame as missing
    Watched   \* the slots whose sends are recorded: all, or fewer to bound a run

ASSUME StaleAssumption == Stale \in [FrameIds -> Nat]
ASSUME WatchedAssumption == Watched \subseteq Slots

VARIABLES
    served,    \* per slot: how many times tick() has served it
    lastTick,  \* per slot: clock of the last tick that served it
    sentAt,    \* per watched slot: when its last three frames were sent, newest first
    armTime    \* when arm() ran

historyVars == <<served, lastTick, sentAt, armTime>>
vars == <<scheduleVars, historyVars>>

Init ==
    /\ ScheduleInit
    /\ served = [i \in Slots |-> 0]
    /\ lastTick = [i \in Slots |-> 0]
    /\ sentAt = [i \in Watched |-> [n \in 1 .. 3 |-> 0]]
    /\ armTime = 0

Arm ==
    /\ ScheduleArm
    /\ armTime' = now
    /\ UNCHANGED <<served, lastTick, sentAt>>

\* A frame of slot i is sent now.
sentNow(i) == [n \in 1 .. 3 |-> IF n = 1 THEN now ELSE sentAt[i][n - 1]]

Serve(i) ==
    /\ ScheduleServe(i)
    /\ served' = [served EXCEPT ![i] = @ + 1]
    /\ lastTick' = [lastTick EXCEPT ![i] = tickNow]
    /\ sentAt' = [j \in Watched |-> IF j = i THEN sentNow(i) ELSE sentAt[j]]
    /\ UNCHANGED armTime

Start         == ScheduleStart    /\ UNCHANGED historyVars
TickBegin     == ScheduleTick     /\ UNCHANGED historyVars
TickSnapshot  == ScheduleSnapshot /\ UNCHANGED historyVars
Stop          == ScheduleStop     /\ UNCHANGED historyVars
Exit          == ScheduleExit     /\ UNCHANGED historyVars
Advance       == AdvanceClock     /\ UNCHANGED historyVars

\* The daemon has stopped the publisher.
Terminated == pc = "done" /\ UNCHANGED vars

ThreadStep == \/ Arm \/ TickBegin \/ TickSnapshot \/ Exit
              \/ \E i \in Slots : Serve(i)

Next == ThreadStep \/ Start \/ Stop \/ Advance \/ Terminated

Spec == Init /\ [][Next]_vars

\* The publisher thread is scheduled, and time does not stop before the bound;
\* nothing says that the daemon is ever stopped.
FairSpec == Spec /\ WF_vars(Start) /\ WF_vars(ThreadStep) /\ WF_vars(Advance)
-----------------------------------------------------------------------------
\* Every variable of the thread and of the history has its type.
TypeOK ==
    /\ ScheduleTypeOK
    /\ served \in [Slots -> Nat]
    /\ lastTick \in [Slots -> Nat]
    /\ sentAt \in [Watched -> [1 .. 3 -> Nat]]
    /\ armTime \in Nat

\* No burst: however late the publisher thread wakes, and however late it sends
\* after it has read its clock, four frames of one slot are never sent within one
\* cycle (tick() resynchronises instead of replaying the cycles it missed).  Three
\* can leave together: one whose tick was delayed before it was sent, the one that
\* was missed meanwhile, and the one that is due by then.
NoBurst ==
    [][\A i \in Watched :
         served'[i] > served[i] /\ served[i] >= 3
            => sentAt'[i][1] - sentAt[i][3] >= cycle(i)]_vars

\* No drift: a slot whose cycle is not shorter than the scheduling lag stays on
\* the grid that arm() laid down, since tick() advances the deadline by whole
\* cycles and not from the time it happens to run.
NoDrift ==
    Armed => \A i \in Slots :
        MaxLag <= cycle(i) => due[i] = armTime + served[i] * cycle(i)

\* A consumer that applies the contract's stale windows never declares a frame
\* of a running publisher missing, as long as the scheduling lag fits between
\* the cycle and the window; resynchronisation does not stretch a gap.
NeverStale ==
    Armed => \A i \in Slots :
        served[i] > 0 /\ cycle(i) + MaxLag <= Stale[Order[i]]
            => now - lastTick[i] <= Stale[Order[i]]

\* The bus is not flooded in the long run either: since arm() a slot has been
\* served at most once per elapsed cycle, plus the first time.
RateBound ==
    \A i \in Slots :
        served[i] > 0 => (served[i] - 1) * cycle(i) <= lastTick[i] - armTime

\* A frame was sent before the clock was read for the next one, and so at least a
\* cycle before the deadline that the second after it left.
SendsInv ==
    \A i \in Watched :
        /\ served[i] > 0 => sentAt[i][1] <= now
        /\ served[i] > 0 /\ i \in pending => sentAt[i][1] <= tickNow
        /\ served[i] > 1 => sentAt[i][2] <= lastTick[i]
        /\ served[i] > 2 => sentAt[i][3] + cycle(i) <= due[i]

\* What the bounds above rest on.  While the thread has not armed its slots none
\* has been served; afterwards each deadline records at least one cycle for
\* every service, is at the last tick that served the slot or later but within
\* one cycle of it.
TimesInv ==
    /\ pc \in {"off", "arm"} => \A i \in Slots : served[i] = 0
    /\ pc \notin {"off", "arm"} =>
        /\ armTime <= now
        /\ pc \in {"snapshot", "send"} => armTime <= tickNow
        /\ \A i \in Slots :
            /\ served[i] * cycle(i) <= due[i] - armTime
            /\ MaxLag <= cycle(i) => due[i] = armTime + served[i] * cycle(i)
            /\ served[i] > 0 => /\ lastTick[i] <= due[i]
                               /\ due[i] <= lastTick[i] + cycle(i)
    /\ SendsInv

\* The inductive invariant behind this module's properties.
Inv == TypeOK /\ ScheduleInv /\ TimesInv

\* The schedule never stalls: once started, and unless it is stopped, the thread
\* serves every slot again and again until the clock reaches its bound.
KeepsServing ==
    pc # "off" ~> \/ ~running
                  \/ now = MaxTime /\ \A i \in Slots : due[i] > now
=============================================================================
