-------------------------------- MODULE Wire --------------------------------
(***************************************************************************)
(* The numbers on the wire: core/Mapping.cpp's conversion of each field of *)
(* the vehicle state, and the encoders and the pack and unpack functions   *)
(* of contract/can_proxy_contract.h.                                       *)
(*                                                                         *)
(* A measured quantity is an integer number of 1/400 of its unit (km/h, V, *)
(* %, ...), a quarter of the finest resolution on the wire, so that every  *)
(* rounding case occurs; doubles are exact here.  The integers of the      *)
(* vehicle state (gear, eco score, ...) are themselves.                    *)
(***************************************************************************)
EXTENDS Mapping

CONSTANT U32Top  \* the largest 32-bit code below SNA, 4294967294 on the wire

ASSUME U32TopAssumption == U32Top \in Nat /\ U32Top \div 16777216 < 256

Unit == 400

\* Where a frame carries a signal: first byte, number of bytes, whether the code is
\* signed, and its resolution in 1/400 of a unit.
field(at, bytes, signed, lsb) ==
    [at |-> at, bytes |-> bytes, signed |-> signed, lsb |-> lsb]

Layout ==
    [SPEED        |-> field(0, 2, FALSE, 4),   RPM            |-> field(2, 2, FALSE, 400),
     GEAR         |-> field(4, 1, FALSE, 1),   POWER_STATE    |-> field(5, 1, FALSE, 1),
     MOTOR_POWER  |-> field(0, 2, TRUE, 40),   PACK_VOLTAGE   |-> field(2, 2, FALSE, 40),
     PACK_CURRENT |-> field(4, 2, TRUE, 40),
     SOC          |-> field(0, 1, FALSE, 200), SOH            |-> field(1, 1, FALSE, 200),
     RANGE        |-> field(2, 2, FALSE, 400), CONSUMPTION    |-> field(4, 2, TRUE, 400),
     CHARGING_STATE |-> field(6, 1, FALSE, 1),
     ODOMETER     |-> field(0, 4, FALSE, 40),  AMBIENT_TEMP   |-> field(4, 1, TRUE, 400),
     CABIN_TEMP   |-> field(5, 1, TRUE, 400),
     COOLANT_TEMP |-> field(0, 1, TRUE, 400),  FUEL_LEVEL     |-> field(1, 1, FALSE, 200),
     AUX_BATTERY  |-> field(2, 2, FALSE, 4),
     ECO_SCORE    |-> field(0, 1, FALSE, 1),   SPEED_LIMIT    |-> field(1, 1, FALSE, 1),
     COLLISION_RISK |-> field(2, 1, FALSE, 1), LANE_STATE     |-> field(3, 1, FALSE, 1),
     LEAD_GAP     |-> field(4, 2, FALSE, 40)]

\* The code that means "signal not available": the highest of an unsigned field,
\* the lowest of a signed one.
SNA(sig) == LET f == Layout[sig] IN
    CASE f.bytes = 4                -> U32Top + 1
      [] f.bytes = 2 /\ ~f.signed   -> 65535
      [] f.bytes = 2 /\ f.signed    -> -32768
      [] f.bytes = 1 /\ ~f.signed   -> 255
      [] f.bytes = 1 /\ f.signed    -> -128
-----------------------------------------------------------------------------
clamp(v, lo, hi) == IF v < lo THEN lo ELSE IF v > hi THEN hi ELSE v

\* v / lsb rounded to the nearest integer, half away from zero.
canproxy_round(v, lsb) ==
    IF v >= 0 THEN (2 * v + lsb) \div (2 * lsb) ELSE -((lsb - 2 * v) \div (2 * lsb))

\* The largest percentage code: 100 % in halves.
Percent == {"SOC", "SOH", "FUEL_LEVEL"}

\* Mutant: the clamp of an unsigned field lets its highest code through.
topOfSna(sig) == CASE sig \in Percent           -> 200
                   [] sig = "ECO_SCORE"         -> 100
                   [] Layout[sig].bytes = 1 /\ Layout[sig].signed -> 127
                   [] Layout[sig].bytes = 2 /\ Layout[sig].signed -> 32767
                   [] Layout[sig].bytes = 4     -> U32Top
                   [] OTHER                     -> 65535

\* The largest code a value is clamped to.
topOf(sig) == CASE sig \in Percent           -> 200
                [] sig = "ECO_SCORE"         -> 100
                [] Layout[sig].bytes = 1 /\ Layout[sig].signed -> 127
                [] Layout[sig].bytes = 2 /\ Layout[sig].signed -> 32767
                [] Layout[sig].bytes = 4     -> U32Top
                [] OTHER                     -> 65534
bottomOf(sig) == IF Layout[sig].signed THEN -topOf(sig) ELSE 0

\* canproxy_enc_u8, _i8, _u16, _i16 and _u32 of a valid value.
canproxy_enc(sig, v) == clamp(canproxy_round(v, Layout[sig].lsb), bottomOf(sig), topOf(sig))

\* The enumerations whose codes the contract shares: P R N D L, OFF ACC ON READY,
\* NONE AC DC COMPLETE, NONE LOW MEDIUM HIGH.
lastOf(sig) == IF sig = "GEAR" THEN 4 ELSE 3
inEnum(sig, v) == v \in 0 .. lastOf(sig)

\* framesFrom: whether a frame carries a value for the signal or SNA.
sentFrom(s, sig) == /\ has(s, s.live, sig)
                    /\ sig \in EnumSignals => inEnum(sig, s.value[sig])

\* framesFrom and the pack functions: the code of a signal that is sent.  RPM, range
\* and consumption are clamped before they are rounded, the temperatures are
\* encoded twice, an unknown collision risk is none.
codeOf(sig, v) ==
    CASE sig \in {"RPM", "RANGE"} ->
            IF v < 0 THEN 0 ELSE IF v > 65534 * Unit THEN 65534
                                 ELSE (v + Unit \div 2) \div Unit
      [] sig = "CONSUMPTION" -> canproxy_round(clamp(v, -32767 * Unit, 32767 * Unit), Unit)
      [] sig \in {"AMBIENT_TEMP", "CABIN_TEMP", "COOLANT_TEMP"} ->
            canproxy_enc(sig, Unit * canproxy_enc(sig, v))
      [] sig \in EnumSignals      -> v
      [] sig = "COLLISION_RISK"   -> IF inEnum(sig, v) THEN v ELSE 0
      [] sig = "LANE_STATE"       -> v % 16
      [] sig = "SPEED_LIMIT"      -> clamp(v, 0, 254)
      [] OTHER                    -> canproxy_enc(sig, v)

wireCode(s, sig) == IF sentFrom(s, sig) THEN codeOf(sig, s.value[sig]) ELSE SNA(sig)
-----------------------------------------------------------------------------
\* The two's complement of a code, and byte i of it, least significant first.
unsigned(sig, c) == IF c >= 0 THEN c ELSE c + (IF Layout[sig].bytes = 1 THEN 256 ELSE 65536)
byteOf(u, i) == CASE i = 0 -> u % 256
                  [] i = 1 -> (u \div 256) % 256
                  [] i = 2 -> (u \div 65536) % 256
                  [] i = 3 -> u \div 16777216

covers(sig, i) == i \in Layout[sig].at .. Layout[sig].at + Layout[sig].bytes - 1

\* The eight bytes of frame id; bytes no signal covers are zero.
pack(id, s) ==
    [i \in 0 .. 7 |->
        IF \E sig \in SignalsIn[id] : covers(sig, i)
        THEN LET sig == CHOOSE g \in SignalsIn[id] : covers(g, i)
             IN  byteOf(unsigned(sig, wireCode(s, sig)), i - Layout[sig].at)
        ELSE 0]

\* The code in the bytes of a signal.
get(sig, d) == LET f == Layout[sig] IN
    CASE f.bytes = 1 -> d[f.at]
      [] f.bytes = 2 -> d[f.at] + 256 * d[f.at + 1]
      [] f.bytes = 4 -> d[f.at] + 256 * d[f.at + 1] + 65536 * d[f.at + 2]
                        + 16777216 * d[f.at + 3]

signedOf(sig, u) == LET f == Layout[sig] IN
    IF f.signed /\ f.bytes = 1 /\ u > 127 THEN u - 256
    ELSE IF f.signed /\ f.bytes = 2 /\ u > 32767 THEN u - 65536 ELSE u

\* What unpack makes of a signal: known, and its value in the field's resolution.
unpack(sig, d) ==
    LET c == signedOf(sig, get(sig, d))
    IN  [known |-> c # SNA(sig), value |-> IF c # SNA(sig) THEN c * Layout[sig].lsb ELSE 0]
=============================================================================
