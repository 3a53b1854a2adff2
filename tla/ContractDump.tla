---------------------------- MODULE ContractDump ----------------------------
(***************************************************************************)
(* A consumer of the contract: tools/contract-dump.cpp, reading from a bus *)
(* that may lose frames what the proxy packs.  In its decoding mode it     *)
(* shows every data frame; with --stats it counts the gaps in the status   *)
(* frame's rolling counter and exits with a verdict.                       *)
(***************************************************************************)
EXTENDS Wire

CONSTANTS
    Measured,    \* per data frame, what the fields of its signals may hold
    MaxLost,     \* bound on the status frames lost in a row
    MaxSkips     \* bound on the skips counted in a run

ASSUME ConsumerAssumption == MaxLost \in Nat /\ MaxSkips \in Nat

VARIABLES
    statsMode,    \* statsSec > 0
    bus,          \* the frame on its way, if there is one
    state,        \* the snapshot the data frame `about` is packed from
    about,
    shown,        \* what was decoded last: per signal, known and value
    counter,      \* Publisher::m_counter
    lastCounter,  \* -1 before the first status frame
    counterSkips,
    lost,         \* history: status frames lost since the one read last
    missed,       \* history: a status frame was read after a loss the counter shows
    rc            \* exit status; -1 while the tool runs

snapshot  == <<statsMode, state, about>>
countVars == <<counter, lastCounter, counterSkips, lost, missed>>
vars == <<snapshot, bus, shown, countVars, rc>>

NoFrame == [id |-> "none"]
DataIds == {id \in FrameIds : SignalsIn[id] # {}}

\* A field holds a number of its smallest steps.
ASSUME MeasuredAssumption ==
    \A id \in DataIds : \A v \in Measured[id] : \A sig \in SignalsIn[id] : v[sig] \in Int

\* The snapshots of frame id: any one field or all may be invalid and the vehicle may
\* not have the signals, or the values are valid but not live.
Snapshots(id) ==
    LET all == SignalsIn[id] IN
    [value: Measured[id], live: {TRUE}, capable: {{}, all},
     valid: {{}, all} \cup {all \ {sig} : sig \in all}]
    \cup [value: Measured[id], live: {FALSE}, capable: {all}, valid: {all}]

\* The tool starts, with --stats or without.
InitOf(mode) ==
    /\ statsMode = mode
    /\ \/ statsMode /\ about = "STATUS" /\ state = NoFrame
       \/ ~statsMode /\ about \in DataIds /\ state \in Snapshots(about)
    /\ bus = NoFrame
    /\ shown = NoFrame
    /\ counter = 0
    /\ lastCounter = -1
    /\ counterSkips = 0
    /\ lost = 0
    /\ missed = FALSE
    /\ rc = -1

Init == \E mode \in BOOLEAN : InitOf(mode)
-----------------------------------------------------------------------------
(***************************************************************************)
(* The proxy and the bus.                                                  *)
(***************************************************************************)

\* sendFrame of a data frame.
SendData ==
    /\ ~statsMode /\ bus = NoFrame
    /\ bus' = [id |-> about, data |-> pack(about, state)]
    /\ UNCHANGED <<snapshot, shown, countVars, rc>>

\* sendFrame of the status frame, whose counter is one byte.
SendStatus ==
    /\ statsMode /\ bus = NoFrame /\ rc = -1 /\ counterSkips < MaxSkips
    /\ bus' = [id |-> "STATUS", counter |-> counter]
    /\ counter' = (counter + 1) % 256
    /\ UNCHANGED <<snapshot, shown, lastCounter, counterSkips, lost, missed, rc>>

\* The frame does not reach the tool: its socket's queue is full.
Lose ==
    /\ bus.id = "STATUS" /\ rc = -1 /\ lost < MaxLost
    /\ bus' = NoFrame
    /\ lost' = lost + 1
    /\ UNCHANGED <<snapshot, shown, counter, lastCounter, counterSkips, missed, rc>>
-----------------------------------------------------------------------------
(***************************************************************************)
(* The tool.                                                               *)
(***************************************************************************)

\* printDecoded: unpack the frame.
Decode ==
    /\ ~statsMode /\ bus # NoFrame
    /\ shown' = [id |-> bus.id,
                 signals |-> [sig \in SignalsIn[bus.id] |-> unpack(sig, bus.data)]]
    /\ bus' = NoFrame
    /\ UNCHANGED <<snapshot, countVars, rc>>

\* Mutant: the expected counter is not cut to a byte.
skippedWide(c) == lastCounter >= 0 /\ c # lastCounter + 1

skipped(c) == lastCounter >= 0 /\ c # (lastCounter + 1) % 256

\* A status frame read with --stats.
Count ==
    /\ statsMode /\ bus # NoFrame /\ rc = -1
    /\ counterSkips' = counterSkips + (IF skipped(bus.counter) THEN 1 ELSE 0)
    /\ lastCounter' = bus.counter
    /\ missed' = (missed \/ (lastCounter # -1 /\ lost % 256 # 0))
    /\ lost' = 0
    /\ bus' = NoFrame
    /\ UNCHANGED <<snapshot, shown, counter, rc>>

\* The time is up: the verdict of --require-counter.
Finish ==
    /\ statsMode /\ rc = -1
    /\ rc' = IF counterSkips > 0 THEN 1 ELSE 0
    /\ UNCHANGED <<snapshot, bus, shown, countVars>>

Exited == rc # -1 /\ UNCHANGED vars

Next == SendData \/ SendStatus \/ Lose \/ Decode \/ Count \/ Finish \/ Exited

Spec == Init /\ [][Next]_vars
-----------------------------------------------------------------------------
(***************************************************************************)
(* What the contract promises of a value, from the ranges its structures   *)
(* give: nothing is out of range on the wire, the nearest code is sent.    *)
(***************************************************************************)
Tenths    == {"MOTOR_POWER", "PACK_VOLTAGE", "PACK_CURRENT", "LEAD_GAP", "ODOMETER"}
Hundredths == {"SPEED", "AUX_BATTERY"}
Whole     == {"RPM", "RANGE", "CONSUMPTION", "AMBIENT_TEMP", "CABIN_TEMP", "COOLANT_TEMP"}
Resolution(sig) == CASE sig \in Hundredths -> 4
                     [] sig \in Tenths    -> 40
                     [] sig \in Percent   -> 200
                     [] sig \in Whole     -> 400
                     [] OTHER             -> 1

\* The range of a signal, in 1/400 of its unit or in codes.
Bounds(sig) ==
    CASE sig \in Hundredths                                         -> <<0, 4 * 65534>>
      [] sig \in {"MOTOR_POWER", "PACK_CURRENT"}                   -> <<-40 * 32767, 40 * 32767>>
      [] sig \in {"PACK_VOLTAGE", "LEAD_GAP"}                      -> <<0, 40 * 65534>>
      [] sig = "ODOMETER"                                          -> <<0, 40 * U32Top>>
      [] sig \in Percent                                           -> <<0, 40000>>
      [] sig \in {"RPM", "RANGE"}                                  -> <<0, 400 * 65534>>
      [] sig = "CONSUMPTION"                                       -> <<-400 * 32767, 400 * 32767>>
      [] sig \in {"AMBIENT_TEMP", "CABIN_TEMP", "COOLANT_TEMP"}    -> <<-50800, 50800>>
      [] sig = "ECO_SCORE"                                         -> <<0, 100>>
      [] sig = "SPEED_LIMIT"                                       -> <<0, 254>>
      [] sig = "LANE_STATE"                                        -> <<0, 15>>
      [] OTHER                                                     -> <<0, lastOf(sig)>>

\* v is shown as w: w is in range and the nearest the field can say, or v is past
\* the end of the range and w is that end.
Conveys(sig, v, w) ==
    LET lo == Bounds(sig)[1]  hi == Bounds(sig)[2] IN
    /\ lo <= w /\ w <= hi
    /\ CASE sig = "LANE_STATE"                       -> w = v % 16
         [] sig = "COLLISION_RISK" /\ ~inEnum(sig, v) -> w = 0
         [] OTHER -> /\ v > hi => w = hi
                     /\ v < lo => w = lo
                     /\ v \in lo .. hi => /\ 2 * (w - v) <= Resolution(sig)
                                          /\ 2 * (v - w) <= Resolution(sig)

\* A consumer sees what the plugin measured: a signal is known exactly when its
\* value is live, valid, of this vehicle and, for an enumeration, meaningful, so no
\* value is ever taken for SNA nor SNA for a value; and what is shown conveys the
\* value, whatever the other signals of the frame hold.
ShownIsMeasured ==
    shown # NoFrame => \A sig \in SignalsIn[about] :
        LET s == state  got == shown.signals[sig] IN
        /\ got.known <=> /\ s.live /\ sig \in s.valid \cap s.capable
                         /\ sig \in EnumSignals => inEnum(sig, s.value[sig])
        /\ got.known => Conveys(sig, s.value[sig], got.value)

\* The verdict of --stats --require-counter is right: 1 exactly when status frames
\* were lost between two that were read; the one loss a one-byte counter cannot show
\* is a multiple of 256 in a row.
VerdictRight == rc # -1 => (rc = 1 <=> missed)
=============================================================================
