------------------------------ MODULE Schedule ------------------------------
(***************************************************************************)
(* The contract schedule of core/Publisher.cpp: the publisher thread, its  *)
(* slots and their deadlines.  What a frame says is left to Publisher,     *)
(* which adds the data to these actions; ScheduleTimes adds a history of   *)
(* when each slot was served.                                              *)
(*                                                                         *)
(* Time is a counter in units chosen by the model.  tick() works with the  *)
(* clock it was given, tickNow, while time goes on.                        *)
(***************************************************************************)
EXTENDS Contract, Sequences

CONSTANTS
    Order,    \* the frames of the schedule, in the order tick() serves them
    Cycle,    \* send cycle of each frame
    MaxLag,   \* how late the publisher thread may serve a slot that is due
    MaxTime   \* bound of the model: the clock stops here

ASSUME OrderAssumption ==
    /\ Order \in Seq(FrameIds)
    /\ Order # <<>>
    /\ \A i, j \in 1 .. Len(Order) : Order[i] = Order[j] => i = j
ASSUME TimingAssumption ==
    /\ Cycle \in [FrameIds -> Nat \ {0}]
    /\ MaxLag \in Nat
    /\ MaxTime \in Nat

Slots == 1 .. Len(Order)
cycle(i) == Cycle[Order[i]]

VARIABLES
    now,      \* CLOCK_MONOTONIC
    pc,       \* where the publisher thread is
    running,  \* m_running
    due,      \* m_slots[i].due
    tickNow,  \* the argument of tick(); 0 between ticks
    pending   \* slots that this tick found due and has not served yet

scheduleVars == <<now, pc, running, due, tickNow, pending>>

ScheduleInit ==
    /\ now = 0
    /\ pc = "off"
    /\ running = FALSE
    /\ due = [i \in Slots |-> 0]
    /\ tickNow = 0
    /\ pending = {}

Armed == pc \notin {"off", "arm", "done"}
DueSlots == {i \in Slots : now >= due[i]}

\* start(): the thread exists and will arm the slots when it first runs.
ScheduleStart ==
    /\ pc = "off"
    /\ running' = TRUE
    /\ pc' = "arm"
    /\ UNCHANGED <<now, due, tickNow, pending>>

ScheduleArm ==
    /\ pc = "arm"
    /\ due' = [i \in Slots |-> now]
    /\ pc' = "sleep"
    /\ UNCHANGED <<now, running, tickNow, pending>>

\* Mutant: the thread sleeps until the latest deadline instead of the earliest.
ScheduleTickLatest ==
    /\ pc = "sleep"
    /\ running
    /\ DueSlots = Slots
    /\ tickNow' = now
    /\ pending' = DueSlots
    /\ pc' = "snapshot"
    /\ UNCHANGED <<now, running, due>>

\* The thread leaves clock_nanosleep at or after the earliest deadline, finds
\* m_running set and calls tick(m_clock()).  Waking late, or a gap between the
\* two reads, is this step taken later.
ScheduleTick ==
    /\ pc = "sleep"
    /\ running
    /\ DueSlots # {}
    /\ tickNow' = now
    /\ pending' = DueSlots
    /\ pc' = "snapshot"
    /\ UNCHANGED <<now, running, due>>

\* tick() asks the store for its snapshot.
ScheduleSnapshot ==
    /\ pc = "snapshot"
    /\ pc' = "send"
    /\ UNCHANGED <<now, running, due, tickNow, pending>>

\* Mutants: missed cycles are replayed; deadlines follow the time of the tick;
\* resynchronisation skips a cycle.
NextDueReplays(i) == due[i] + cycle(i)
NextDueDrifts(i)  == tickNow + cycle(i)
NextDueSkips(i)   == IF due[i] + cycle(i) < tickNow THEN tickNow + 2 * cycle(i)
                                                    ELSE due[i] + cycle(i)

\* The deadline after serving slot i: the next cycle or, if that has passed
\* already, one cycle from this tick instead of a burst.
NextDue(i) ==
    IF due[i] + cycle(i) < tickNow THEN tickNow + cycle(i)
                                   ELSE due[i] + cycle(i)

\* One round of tick()'s loop: the first slot that is due and not yet served.
\* The last round returns from tick().
ScheduleServe(i) ==
    /\ pc = "send"
    /\ i \in pending
    /\ \A j \in pending : i <= j
    /\ due' = [due EXCEPT ![i] = NextDue(i)]
    /\ pending' = pending \ {i}
    /\ pc' = IF pending' = {} THEN "sleep" ELSE "send"
    /\ tickNow' = IF pending' = {} THEN 0 ELSE tickNow
    /\ UNCHANGED <<now, running>>

\* stop() clears m_running; its join waits for pc = "done".
ScheduleStop ==
    /\ running
    /\ running' = FALSE
    /\ UNCHANGED <<now, pc, due, tickNow, pending>>

\* The loop ends once m_running is clear: at the next deadline, or at once when
\* a signal interrupts the sleep.
ScheduleExit ==
    /\ pc = "sleep"
    /\ ~running
    /\ pc' = "done"
    /\ UNCHANGED <<now, running, due, tickNow, pending>>

\* Time passes.  MaxLag is the assumption on the system's scheduler: a slot is
\* served, and a new thread runs, at most MaxLag after it could have been.
AdvanceClock ==
    /\ now < MaxTime
    /\ pc \notin {"off", "done"}
    /\ pc = "arm" => now < MaxLag
    /\ Armed => \A i \in Slots : now < due[i] + MaxLag
    /\ now' = now + 1
    /\ UNCHANGED <<pc, running, due, tickNow, pending>>

ScheduleNext ==
    \/ ScheduleStart \/ ScheduleArm \/ ScheduleTick \/ ScheduleSnapshot
    \/ \E i \in Slots : ScheduleServe(i)
    \/ ScheduleStop \/ ScheduleExit \/ AdvanceClock

ScheduleSpec == ScheduleInit /\ [][ScheduleNext]_scheduleVars
-----------------------------------------------------------------------------
ScheduleTypeOK ==
    /\ now \in Nat
    /\ pc \in {"off", "arm", "sleep", "snapshot", "send", "done"}
    /\ running \in BOOLEAN
    /\ due \in [Slots -> Nat]
    /\ tickNow \in Nat
    /\ pending \in SUBSET Slots

\* While the thread is in tick(), its clock is in the past and the slots it has
\* still to serve were due by it; otherwise nothing is pending.
TickInv ==
    /\ pc \in {"snapshot", "send"} =>
           /\ tickNow <= now
           /\ pending # {}
           /\ \A i \in pending : due[i] <= tickNow
    /\ pc \notin {"snapshot", "send"} => pending = {} /\ tickNow = 0

\* Every deadline is within one cycle of the future and at most the scheduling
\* lag in the past, whatever resynchronisations have happened.
DeadlineInv ==
    Armed => \A i \in Slots : /\ due[i] <= now + cycle(i)
                              /\ now <= due[i] + MaxLag

\* The inductive invariant of the schedule.
ScheduleInv == ScheduleTypeOK /\ TickInv /\ DeadlineInv
=============================================================================
