------------------------------ MODULE MCBench -------------------------------
(***************************************************************************)
(* Model of Bench for TLC.  Two ECUs answer the same request: the engine's,*)
(* with a chain of two blocks, and the gearbox's, with one.  For each      *)
(* field of the contract the values on both sides of every boundary, of    *)
(* the range, of a code and of a byte; the 32-bit field is cut to 24 bits, *)
(* since TLC's integers have 32.                                           *)
(***************************************************************************)
EXTENDS Bench

TwoEcus == [engine |-> <<{"RPM"}, {"SPEED"}>>, gearbox |-> <<{"SPEED"}>>]

\* Below, at and above the value whose code is c, by less and more than half a step.
Around(c, lsb) == {c * lsb + d : d \in {-(lsb \div 2) - 1, -(lsb \div 2), 0,
                                        (lsb \div 2) - 1, lsb \div 2}}
AtEnds(lo, hi, lsb) == Around(lo, lsb) \cup Around(hi, lsb)
Enum == {-1, 0, 3, 4, 5, 255}
Degrees == AtEnds(-128, 128, 400) \cup {0}

MCU32Top == 16777214

MCMeasured ==
    [MOTION  |-> [SPEED: AtEnds(0, 65535, 4) \cup Around(255, 4), RPM: AtEnds(0, 65535, 400),
                  GEAR: Enum, POWER_STATE: Enum],
     EDRIVE  |-> [MOTOR_POWER: AtEnds(-32768, 32768, 40) \cup {0},
                  PACK_VOLTAGE: AtEnds(0, 65535, 40),
                  PACK_CURRENT: AtEnds(-32768, 32768, 40) \cup {-40}],
     ENERGY  |-> [SOC: Around(201, 200), SOH: {-1, 40000}, RANGE: Around(65535, 400),
                  CONSUMPTION: AtEnds(-32768, 32768, 400), CHARGING_STATE: Enum],
     TRIP    |-> [ODOMETER: AtEnds(0, MCU32Top, 40) \cup Around(65535, 40),
                  AMBIENT_TEMP: Degrees, CABIN_TEMP: Degrees],
     THERMAL |-> [COOLANT_TEMP: Degrees, FUEL_LEVEL: AtEnds(0, 201, 200),
                  AUX_BATTERY: AtEnds(0, 65535, 4)],
     ASSIST  |-> [ECO_SCORE: {-1, 0, 100, 101, 256}, SPEED_LIMIT: {-1, 0, 254, 255, 256},
                  COLLISION_RISK: Enum, LANE_STATE: {0, 15, 16, 255},
                  LEAD_GAP: Around(65535, 40)]]
=============================================================================
