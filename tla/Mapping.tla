------------------------------ MODULE Mapping -------------------------------
(***************************************************************************)
(* core/Mapping.cpp: from the vehicle state a plugin publishes to what the *)
(* contract frames show.  A vehicle state is abstracted to                  *)
(*   capable  the signals the vehicle can ever provide,                     *)
(*   valid    the signals whose field holds a current measurement,          *)
(*   unknown  the enumerated signals whose field holds no value of the      *)
(*            enumeration (gearFrom, powerStateFrom and chargingStateFrom   *)
(*            map those to SNA), and                                        *)
(*   lamps    the lamps that are lit.                                       *)
(* The numeric fields are copied or clamped and carry no control.           *)
(***************************************************************************)
EXTENDS Contract

\* The signals each frame carries; STATUS, IDENTITY and TELLTALES carry none.
SignalsIn ==
    [id \in FrameIds |->
        CASE id = "MOTION"  -> {"SPEED", "RPM", "GEAR", "POWER_STATE"}
          [] id = "EDRIVE"  -> {"MOTOR_POWER", "PACK_VOLTAGE", "PACK_CURRENT"}
          [] id = "ENERGY"  -> {"SOC", "SOH", "RANGE", "CONSUMPTION",
                                "CHARGING_STATE"}
          [] id = "TRIP"    -> {"ODOMETER", "AMBIENT_TEMP", "CABIN_TEMP"}
          [] id = "THERMAL" -> {"COOLANT_TEMP", "FUEL_LEVEL", "AUX_BATTERY"}
          [] id = "ASSIST"  -> {"ECO_SCORE", "SPEED_LIMIT", "COLLISION_RISK",
                                "LANE_STATE", "LEAD_GAP"}
          [] OTHER          -> {}]

Signals == UNION {SignalsIn[id] : id \in FrameIds}

\* The signals that are sent as one byte of an enumeration with an SNA code.
EnumSignals == {"GEAR", "POWER_STATE", "CHARGING_STATE"}

\* The capability bit that advertises a signal: the pack's voltage and current
\* share one bit, and so do the five driver-assist signals.
capabilityBitFor(sig) ==
    CASE sig \in {"PACK_VOLTAGE", "PACK_CURRENT"} -> "PACK_VI"
      [] sig \in SignalsIn["ASSIST"]              -> "ASSIST"
      [] OTHER                                    -> sig

capabilitiesFrom(capable) == {capabilityBitFor(sig) : sig \in capable}

\* The lamps that have a telltale bit; a bit beyond them lights nothing.
KnownLamps == {"ENGINE", "OIL", "BATTERY", "BRAKE", "TURN_LEFT", "TURN_RIGHT",
               "HIGH_BEAM", "DOOR", "SEATBELT", "ABS", "TRACTION", "TPMS", "EV_READY",
               "CHARGING", "LIMITED_POWER", "LOW_TRACTION_BATTERY", "PARK_BRAKE",
               "LOW_FUEL", "FOG", "HV_SYSTEM_FAULT"}
telltalesFrom(lamps) == lamps \cap KnownLamps

has(s, live, sig) == live /\ sig \in s.valid /\ sig \in s.capable

\* Mutant: capabilities are sent only with live values.
framesFromLiveCaps(s, live, proxyState, counter) ==
    [status |-> [proxyState |-> proxyState, counter |-> counter,
                 caps |-> IF live THEN capabilitiesFrom(s.capable) ELSE {}],
     lamps  |-> IF live THEN telltalesFrom(s.lamps) ELSE {},
     shown  |-> {sig \in Signals : has(s, live, sig) /\ sig \notin s.unknown}]

\* The frames built from one vehicle state.  The capability bits are published
\* whether or not the values are live; signals and lamps only while they are.
framesFrom(s, live, proxyState, counter) ==
    [status |-> [proxyState |-> proxyState, counter |-> counter,
                 caps |-> capabilitiesFrom(s.capable)],
     lamps  |-> IF live THEN telltalesFrom(s.lamps) ELSE {},
     shown  |-> {sig \in Signals : has(s, live, sig) /\ sig \notin s.unknown}]

\* What frame id asserts about the vehicle: the signals it shows as values (the
\* others are SNA), or the lamps it shows as lit.
payload(id, f) == IF id = "TELLTALES" THEN f.lamps
                                      ELSE f.shown \cap SignalsIn[id]
=============================================================================
