-------------------------------- MODULE Sim ---------------------------------
(***************************************************************************)
(* plugins/sim/sim.cpp: a scripted drive cycle that needs no vehicle.  Its *)
(* thread makes one step of simulated time per tick and sleeps until the   *)
(* next one is due, so a thread that was delayed catches up in a burst.    *)
(*                                                                         *)
(* Of the simulated quantities only the phases and their lamps are kept;   *)
(* whether fuel or charge has run low is left open.                        *)
(***************************************************************************)
EXTENDS StateStore, Sequences

CONSTANTS
    Second,       \* units of time per second
    Ticks,        \* values of tick_ms that are tried
    Stalls,       \* values of stall_after_ms that are tried, besides none
    LinkWait,     \* 100 ms: sleep between looks at the flag without a link
    SimLag,       \* how late the thread may return from its sleep
    SimTime       \* bound of the model: the clock stops here

\* create() refuses a tick above a second; every phase takes at least two.
SimConstants ==
    /\ Second \in Nat \ {0}
    /\ Ticks \subseteq 1 .. Second
    /\ Stalls \subseteq Nat
    /\ {LinkWait, SimLag, SimTime} \subseteq Nat

VARIABLES
    now,          \* steady clock
    pc,           \* where the plugin thread is
    running,      \* the plugin's running flag
    link,         \* what the host was told by set_link
    published,    \* the vehicle state the host was given last
    publishedAt   \* when

VARIABLES
    args,         \* what create() read from the plugin's arguments
    next,         \* when the next step is due
    phase, phaseElapsed, elapsed,
    lampBits

hostVars == <<link, published, publishedAt>>
stepVars == <<phase, phaseElapsed, elapsed, lampBits>>
simVars  == <<args, next, stepVars>>
vars == <<now, pc, running, hostVars, simVars>>

Never == -1

\* The drive cycle: the duration of each phase in seconds, the lamps it lights
\* and the ones it puts out.
Phase(dur, set, clr) == [dur |-> dur, set |-> set, clr |-> clr]
kPhases == <<
    Phase(2, {"TURN_LEFT", "SEATBELT"}, {}),
    Phase(2, {}, {"TURN_LEFT", "SEATBELT"}),
    Phase(3, {"ENGINE"}, {}),
    Phase(8, {"HIGH_BEAM"}, {"ENGINE"}),
    Phase(3, {"TPMS"}, {"HIGH_BEAM"}),
    Phase(6, {"ABS"}, {"TPMS"}),
    Phase(3, {"TRACTION"}, {"ABS"}),
    Phase(4, {"OIL", "BATTERY"}, {"TRACTION"}),
    Phase(4, {"BRAKE"}, {"OIL", "BATTERY"}),
    Phase(3, {"TURN_RIGHT", "DOOR"}, {}),
    Phase(3, {}, {"TURN_RIGHT", "DOOR"}),
    Phase(3, {}, {"BRAKE"}) >>
kPhaseCount == Len(kPhases)

Drivetrains == {"ice", "bev", "hev", "phev"}
electric(drivetrain)   == drivetrain # "ice"
combustion(drivetrain) == drivetrain \in {"ice", "hev", "phev"}

\* The signals the simulated vehicle provides.
capable ==
    {"SPEED", "RPM", "GEAR", "POWER_STATE", "ODOMETER", "AMBIENT_TEMP", "CABIN_TEMP",
     "COOLANT_TEMP", "AUX_BATTERY"}
    \cup (IF combustion(args.drivetrain) THEN {"FUEL_LEVEL"} ELSE {})
    \cup (IF electric(args.drivetrain)
          THEN SignalsIn["EDRIVE"] \cup SignalsIn["ENERGY"] ELSE {})
    \cup (IF args.assist THEN SignalsIn["ASSIST"] ELSE {})

SimInit ==
    /\ args \in [drivetrain: Drivetrains, assist: BOOLEAN, link: BOOLEAN,
                 stallAfter: Stalls \cup {-1}, tick: Ticks]
    /\ next = 0
    /\ phase = 1
    /\ phaseElapsed = 0
    /\ elapsed = 0
    /\ lampBits = {}

\* simStart() has started the thread.
Init ==
    /\ now = 0
    /\ pc = "start"
    /\ running = TRUE
    /\ link = "unknown"
    /\ published = NoState
    /\ publishedAt = Never
    /\ SimInit
-----------------------------------------------------------------------------
\* run() up to its loop.
Begin ==
    /\ pc = "start"
    /\ link' = IF args.link THEN "up" ELSE "down"
    /\ next' = IF args.link THEN now ELSE now + LinkWait
    /\ pc' = IF args.link THEN "top" ELSE "unlinked"
    /\ UNCHANGED <<now, running, published, publishedAt, args, stepVars>>

\* link=0: nothing is ever published.
NoLink ==
    /\ pc = "unlinked"
    /\ now >= next
    /\ \/ running /\ next' = now + LinkWait /\ UNCHANGED pc
       \/ ~running /\ pc' = "done" /\ UNCHANGED next
    /\ UNCHANGED <<now, running, hostVars, args, stepVars>>

\* Mutant: a phase is only entered when a step ends on its very beginning.
enteredExactly(rest) == rest = 0

\* The test by which step() finds that it has entered a phase, from the time spent
\* in it; true again for the second step of one entered on its very beginning.
entered(rest) == rest <= args.tick

\* step(): the simulated time moves on by one tick, into the next phase at the end
\* of this one, whose lamps are set on entry.
step ==
    LET p    == kPhases
        dur  == p[phase].dur * Second
        ends == phaseElapsed + args.tick >= dur
        rest == phaseElapsed + args.tick - IF ends THEN dur ELSE 0
        q    == IF ends THEN (phase % kPhaseCount) + 1 ELSE phase
    IN  /\ elapsed' = elapsed + args.tick
        /\ phaseElapsed' = rest
        /\ phase' = q
        /\ lampBits' = IF entered(rest) THEN (lampBits \cup p[q].set) \ p[q].clr
                                        ELSE lampBits

\* The lamps that go with a step: those of the phase, the drivetrain's own, and
\* warnings that depend on simulated fuel and charge.  The vehicle stands still in
\* the last phase.
lampsOf(bits, ph, low) ==
    bits \cup (IF args.drivetrain = "bev" THEN {"EV_READY"} ELSE {})
         \cup (IF combustion(args.drivetrain) /\ low THEN {"LOW_FUEL"} ELSE {})
         \cup (IF electric(args.drivetrain) /\ low THEN {"LOW_TRACTION_BATTERY"} ELSE {})
         \cup (IF ph = kPhaseCount THEN {"PARK_BRAKE"} ELSE {})

\* When the step after this one is due.
dueAfter == next + args.tick

\* The stall hook: has simulated time t reached stall_after_ms?
stalled(t) == args.stallAfter >= 0 /\ t >= args.stallAfter

LoopTop ==
    /\ pc = "top"
    /\ running
    /\ next' = dueAfter
    /\ step
    /\ \/ stalled(elapsed') /\ UNCHANGED <<published, publishedAt>>
       \/ /\ ~stalled(elapsed')
          /\ \E low \in BOOLEAN :
                published' = [capable |-> capable, valid |-> capable, unknown |-> {},
                              lamps |-> lampsOf(lampBits', phase', low)]
          /\ publishedAt' = now
    /\ pc' = "sleep"
    /\ UNCHANGED <<now, running, link, args>>

LoopExit ==
    /\ pc = "top"
    /\ ~running
    /\ pc' = "done"
    /\ UNCHANGED <<now, running, hostVars, simVars>>

\* sleep_until() returns, at once when the step is already due.
Wake ==
    /\ pc = "sleep"
    /\ now >= next
    /\ pc' = "top"
    /\ UNCHANGED <<now, running, hostVars, simVars>>

\* simStop() clears the flag and joins the thread (pc = "done").
Stop ==
    /\ running
    /\ running' = FALSE
    /\ UNCHANGED <<now, pc, hostVars, simVars>>

Advance ==
    /\ now < SimTime
    /\ pc \in {"sleep", "unlinked"}
    /\ now < next + SimLag
    /\ now' = now + 1
    /\ UNCHANGED <<pc, running, hostVars, simVars>>

\* The thread has been joined, or the model's clock has run out.
Finished == (pc = "done" \/ now = SimTime) /\ UNCHANGED vars

Next == Begin \/ NoLink \/ LoopTop \/ LoopExit \/ Wake \/ Stop \/ Advance \/ Finished

Spec == Init /\ [][Next]_vars
-----------------------------------------------------------------------------
\* The lamps are a function of the phase, for every length of the tick and however
\* often the cycle repeats: a lamp is lit from the phase that lights it to the one
\* that puts it out, so no entry into a phase is missed.
LampsIn(ph) ==
    LET p == kPhases
    IN  {l \in UNION {p[a].set : a \in 1 .. ph} :
            \E a \in 1 .. ph : l \in p[a].set /\ \A b \in a .. ph : l \notin p[b].clr}
PhaseLamps == elapsed > 0 => lampBits = LampsIn(phase)

\* The simulated time keeps up with the clock through any delays of the thread: it
\* is never more than a tick ahead, and behind only by the delay of this very step.
TracksClock ==
    link = "up" /\ pc = "sleep" =>
        /\ elapsed <= now + args.tick
        /\ now <= elapsed + SimLag

\* Nothing is published any more once stall_after_ms have passed, so that the
\* publisher must notice.
StallStops ==
    args.stallAfter >= 0 => publishedAt <= args.stallAfter + SimLag
=============================================================================
