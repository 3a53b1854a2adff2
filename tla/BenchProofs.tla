---------------------------- MODULE BenchProofs -----------------------------
(***************************************************************************)
(* What holds of the programs of Bench.                                    *)
(*                                                                         *)
(* Of contract-dump: what the numbers on the wire are worth, for every     *)
(* value a field of the vehicle state can hold and for the full width of   *)
(* every field (no value is ever sent as SNA, what is decoded is the code  *)
(* that was packed, and it conveys what was measured), and the verdict on  *)
(* lost status frames, for losses of any length.  Of the client: for any   *)
(* number of ECUs, any chains of blocks, any delay and any number of       *)
(* requests.  Of a replayed session: for any length of it and any window.  *)
(***************************************************************************)
EXTENDS Bench, SequenceTheorems, FiniteSetTheorems, WellFoundedInduction, TLAPS

\* The codes a field has for values: all but the one that means SNA.
Codes(sig) == IF Layout[sig].signed THEN (SNA(sig) + 1) .. -(SNA(sig) + 1)
                                    ELSE 0 .. (SNA(sig) - 1)
-----------------------------------------------------------------------------
(***************************************************************************)
(* Arithmetic.                                                             *)
(***************************************************************************)

\* The resolutions of the fields, in 1/400 of a unit.
Steps == {1, 4, 40, 200, 400}

\* canproxy_round returns the nearest integer.
LEMMA RoundFacts ==
    ASSUME NEW v \in Int, NEW lsb \in Steps
    PROVE  /\ canproxy_round(v, lsb) \in Int
           /\ 2 * (lsb * canproxy_round(v, lsb) - v) <= lsb
           /\ 2 * (v - lsb * canproxy_round(v, lsb)) <= lsb
BY DEF canproxy_round, Steps

\* Clamping what was rounded gives a code of the range, the nearest one for a value
\* in the range and the end of it for one outside.
LEMMA EncodeFacts ==
    ASSUME NEW v \in Int, NEW lsb \in Steps,
           NEW lo \in Int, NEW hi \in Int, lo <= hi
    PROVE  LET c == clamp(canproxy_round(v, lsb), lo, hi)
           IN  /\ c \in lo .. hi
               /\ v > lsb * hi => c = hi
               /\ v < lsb * lo => c = lo
               /\ lsb * lo <= v /\ v <= lsb * hi =>
                     2 * (lsb * c - v) <= lsb /\ 2 * (v - lsb * c) <= lsb
<1> DEFINE r == canproxy_round(v, lsb)
<1>1. r \in Int /\ 2 * (lsb * r - v) <= lsb /\ 2 * (v - lsb * r) <= lsb
  BY RoundFacts
<1> HIDE DEF r
<1>2. SUFFICES LET c == clamp(r, lo, hi)
               IN  /\ c \in lo .. hi
                   /\ v > lsb * hi => c = hi
                   /\ v < lsb * lo => c = lo
                   /\ lsb * lo <= v /\ v <= lsb * hi =>
                         2 * (lsb * c - v) <= lsb /\ 2 * (v - lsb * c) <= lsb
  BY DEF r
<1>3. CASE lsb = 1
  BY <1>1, <1>3 DEF clamp
<1>4. CASE lsb = 4
  BY <1>1, <1>4 DEF clamp
<1>5. CASE lsb = 40
  BY <1>1, <1>5 DEF clamp
<1>6. CASE lsb = 200
  BY <1>1, <1>6 DEF clamp
<1>7. CASE lsb = 400
  BY <1>1, <1>7 DEF clamp
<1>8. QED
  BY <1>3, <1>4, <1>5, <1>6, <1>7 DEF Steps

\* Dropping bytes one by one drops them together.
LEMMA DivFacts ==
    ASSUME NEW u \in Int, 0 <= u
    PROVE  /\ u \div 65536 = (u \div 256) \div 256
           /\ u \div 16777216 = ((u \div 256) \div 256) \div 256
OBVIOUS

LEMMA LowByte ==
    ASSUME NEW u \in Int, 0 <= u
    PROVE  /\ u \div 256 \in Int /\ 0 <= u \div 256
           /\ u % 256 \in Int /\ 0 <= u % 256 /\ u % 256 < 256
           /\ u = 256 * (u \div 256) + (u % 256)
OBVIOUS

\* The bytes of a number make it up again.
LEMMA ByteFacts ==
    ASSUME NEW u \in Int, 0 <= u
    PROVE  /\ u < 256 => byteOf(u, 0) = u
           /\ u < 65536 => byteOf(u, 0) + 256 * byteOf(u, 1) = u
           /\ byteOf(u, 0) + 256 * byteOf(u, 1) + 65536 * byteOf(u, 2)
                + 16777216 * byteOf(u, 3) = u
<1> DEFINE a == u \div 256
           b == a \div 256
           c == b \div 256
           u0 == u % 256
           a0 == a % 256
           b0 == b % 256
<1>1. a \in Int /\ 0 <= a /\ u0 \in Int /\ 0 <= u0 /\ u0 < 256 /\ u = 256 * a + u0
  BY LowByte
<1>2. b \in Int /\ 0 <= b /\ a0 \in Int /\ 0 <= a0 /\ a0 < 256 /\ a = 256 * b + a0
  BY <1>1, LowByte
<1>3. c \in Int /\ 0 <= c /\ b0 \in Int /\ 0 <= b0 /\ b0 < 256 /\ b = 256 * c + b0
  BY <1>2, LowByte
<1>4. byteOf(u, 0) = u0 /\ byteOf(u, 1) = a0
  BY DEF byteOf
<1>5. u \div 65536 = b /\ u \div 16777216 = c
  BY DivFacts
<1>6. byteOf(u, 2) = b0 /\ byteOf(u, 3) = c
  BY <1>5 DEF byteOf
<1> HIDE DEF a, b, c, u0, a0, b0
<1>7. QED
  BY <1>1, <1>2, <1>3, <1>4, <1>6
-----------------------------------------------------------------------------
(***************************************************************************)
(* The layout of the frames.                                               *)
(***************************************************************************)

\* The data frames and their signals.
LEMMA FrameSignals ==
    /\ DataIds = {"MOTION", "EDRIVE", "ENERGY", "TRIP", "THERMAL", "ASSIST"}
    /\ SignalsIn["MOTION"] = {"SPEED", "RPM", "GEAR", "POWER_STATE"}
    /\ SignalsIn["EDRIVE"] = {"MOTOR_POWER", "PACK_VOLTAGE", "PACK_CURRENT"}
    /\ SignalsIn["ENERGY"] = {"SOC", "SOH", "RANGE", "CONSUMPTION", "CHARGING_STATE"}
    /\ SignalsIn["TRIP"] = {"ODOMETER", "AMBIENT_TEMP", "CABIN_TEMP"}
    /\ SignalsIn["THERMAL"] = {"COOLANT_TEMP", "FUEL_LEVEL", "AUX_BATTERY"}
    /\ SignalsIn["ASSIST"] = {"ECO_SCORE", "SPEED_LIMIT", "COLLISION_RISK",
                              "LANE_STATE", "LEAD_GAP"}
BY DEF DataIds, SignalsIn, FrameIds

\* Two signals of one frame share no byte of it.
LEMMA FieldsApart ==
    ASSUME NEW id \in DataIds, NEW sig \in SignalsIn[id], NEW g \in SignalsIn[id],
           NEW i \in Int, covers(sig, i), covers(g, i)
    PROVE  sig = g
<1>1. CASE id = "MOTION"
  BY <1>1, FrameSignals DEF Layout, field, covers
<1>2. CASE id = "EDRIVE"
  BY <1>2, FrameSignals DEF Layout, field, covers
<1>3. CASE id = "ENERGY"
  BY <1>3, FrameSignals DEF Layout, field, covers
<1>4. CASE id = "TRIP"
  BY <1>4, FrameSignals DEF Layout, field, covers
<1>5. CASE id = "THERMAL"
  BY <1>5, FrameSignals DEF Layout, field, covers
<1>6. CASE id = "ASSIST"
  BY <1>6, FrameSignals DEF Layout, field, covers
<1>7. QED
  BY <1>1, <1>2, <1>3, <1>4, <1>5, <1>6, FrameSignals

\* Every field is one, two or four bytes within the eight of the frame, and its
\* resolution is one of the five.
LEMMA FieldFacts ==
    ASSUME NEW id \in DataIds, NEW sig \in SignalsIn[id]
    PROVE  /\ Layout[sig].at \in Int /\ 0 <= Layout[sig].at
           /\ Layout[sig].bytes = 1 \/ Layout[sig].bytes = 2 \/ Layout[sig].bytes = 4
           /\ Layout[sig].at + Layout[sig].bytes <= 8
           /\ Layout[sig].bytes = 4 => ~Layout[sig].signed
           /\ Layout[sig].lsb \in Steps
<1>1. CASE id = "MOTION"
  BY <1>1, FrameSignals DEF Layout, field, Steps
<1>2. CASE id = "EDRIVE"
  BY <1>2, FrameSignals DEF Layout, field, Steps
<1>3. CASE id = "ENERGY"
  BY <1>3, FrameSignals DEF Layout, field, Steps
<1>4. CASE id = "TRIP"
  BY <1>4, FrameSignals DEF Layout, field, Steps
<1>5. CASE id = "THERMAL"
  BY <1>5, FrameSignals DEF Layout, field, Steps
<1>6. CASE id = "ASSIST"
  BY <1>6, FrameSignals DEF Layout, field, Steps
<1>7. QED
  BY <1>1, <1>2, <1>3, <1>4, <1>5, <1>6, FrameSignals

\* A byte of a packed frame is the byte of the one field that covers it.
LEMMA PackByte ==
    ASSUME NEW id \in DataIds, NEW s, NEW sig \in SignalsIn[id],
           NEW k \in Int, 0 <= k, k < Layout[sig].bytes
    PROVE  pack(id, s)[Layout[sig].at + k] = byteOf(unsigned(sig, wireCode(s, sig)), k)
<1> DEFINE i == Layout[sig].at + k
<1>1. i \in Int /\ 0 <= i /\ i <= 7 /\ i - Layout[sig].at = k /\ covers(sig, i)
  BY FieldFacts DEF covers
<1> HIDE DEF i
<1>2. (CHOOSE g \in SignalsIn[id] : covers(g, i)) = sig
  BY <1>1, FieldsApart
<1>3. pack(id, s)[i] = byteOf(unsigned(sig, wireCode(s, sig)), i - Layout[sig].at)
  <2> DEFINE g == CHOOSE g \in SignalsIn[id] : covers(g, i)
  <2>1. i \in 0 .. 7 /\ \E h \in SignalsIn[id] : covers(h, i)
    BY <1>1
  <2>2. pack(id, s)[i] = byteOf(unsigned(g, wireCode(s, g)), i - Layout[g].at)
    BY <2>1, Zenon DEF pack
  <2>3. QED
    BY <1>2, <2>2
<1>4. QED
  BY <1>1, <1>3 DEF i

\* What a consumer reads in the bytes of a field is the code that was packed, signed or
\* not, whatever the other fields hold.
LEMMA RoundTrip ==
    ASSUME NEW id \in DataIds, NEW s, NEW sig \in SignalsIn[id],
           wireCode(s, sig) \in Codes(sig) \cup {SNA(sig)}
    PROVE  signedOf(sig, get(sig, pack(id, s))) = wireCode(s, sig)
<1> DEFINE f == Layout[sig]
           c == wireCode(s, sig)
           u == unsigned(sig, c)
           d == pack(id, s)
<1>1. \A k \in Int : 0 <= k /\ k < f.bytes => d[f.at + k] = byteOf(u, k)
  BY PackByte
<1>2. f.at \in Int /\ f.at + 0 = f.at
  BY FieldFacts
<1>3. c \in Codes(sig) \/ c = SNA(sig)
  OBVIOUS
<1> HIDE DEF c, d
<1>4. CASE f.bytes = 1
  <2>1. d[f.at] = byteOf(u, 0)
    BY <1>1, <1>2, <1>4
  <2>2. /\ c \in Int /\ u \in Int /\ 0 <= u /\ u < 256
        /\ f.signed => c >= -128 /\ c <= 127 /\ u = IF c >= 0 THEN c ELSE c + 256
        /\ ~f.signed => u = c
    BY <1>3, <1>4 DEF Codes, SNA, unsigned
  <2>3. get(sig, d) = u
    BY <2>1, <2>2, <1>4, ByteFacts DEF get
  <2>4. QED
    BY <2>2, <2>3, <1>4 DEF signedOf, c, d
<1>5. CASE f.bytes = 2
  <2>1. d[f.at] = byteOf(u, 0) /\ d[f.at + 1] = byteOf(u, 1)
    BY <1>1, <1>2, <1>5
  <2>2. /\ c \in Int /\ u \in Int /\ 0 <= u /\ u < 65536
        /\ f.signed => c >= -32768 /\ c <= 32767 /\ u = IF c >= 0 THEN c ELSE c + 65536
        /\ ~f.signed => u = c
    BY <1>3, <1>5 DEF Codes, SNA, unsigned
  <2>3. get(sig, d) = u
    BY <2>1, <2>2, <1>5, ByteFacts DEF get
  <2>4. QED
    BY <2>2, <2>3, <1>5 DEF signedOf, c, d
<1>6. CASE f.bytes = 4
  <2>1. /\ d[f.at] = byteOf(u, 0) /\ d[f.at + 1] = byteOf(u, 1)
        /\ d[f.at + 2] = byteOf(u, 2) /\ d[f.at + 3] = byteOf(u, 3)
    BY <1>1, <1>2, <1>6
  <2>2. ~f.signed /\ c \in Int /\ 0 <= c /\ u = c
    BY <1>3, <1>6, FieldFacts, U32TopAssumption DEF Codes, SNA, unsigned
  <2>3. get(sig, d) = u
    BY <2>1, <2>2, <1>6, ByteFacts DEF get
  <2>4. QED
    BY <2>2, <2>3, <1>6 DEF signedOf, c, d
<1>7. QED
  BY <1>4, <1>5, <1>6, FieldFacts
-----------------------------------------------------------------------------
(***************************************************************************)
(* The codes.                                                              *)
(***************************************************************************)

\* Rounding to the resolution and clamping to the ends of the range conveys a value.
LEMMA ClampConveys ==
    ASSUME NEW sig, sig # "LANE_STATE", sig # "COLLISION_RISK",
           NEW v \in Int, NEW lsb \in Steps, NEW lo \in Int, NEW hi \in Int, lo <= hi,
           Bounds(sig)[1] = lsb * lo, Bounds(sig)[2] = lsb * hi, Resolution(sig) = lsb,
           NEW c, c = clamp(canproxy_round(v, lsb), lo, hi)
    PROVE  c \in Int /\ lo <= c /\ c <= hi /\ Conveys(sig, v, c * lsb)
<1>1. /\ c \in Int /\ lo <= c /\ c <= hi
      /\ v > lsb * hi => c = hi
      /\ v < lsb * lo => c = lo
      /\ lsb * lo <= v /\ v <= lsb * hi =>
           2 * (lsb * c - v) <= lsb /\ 2 * (v - lsb * c) <= lsb
  <2> DEFINE e == clamp(canproxy_round(v, lsb), lo, hi)
  <2>1. /\ e \in lo .. hi
        /\ v > lsb * hi => e = hi
        /\ v < lsb * lo => e = lo
        /\ lsb * lo <= v /\ v <= lsb * hi =>
             2 * (lsb * e - v) <= lsb /\ 2 * (v - lsb * e) <= lsb
    BY EncodeFacts, Zenon
  <2>2. c = e
    OBVIOUS
  <2> HIDE DEF e
  <2>3. QED
    BY <2>1, <2>2
<1>2. lsb \in Int /\ lsb > 0
  BY DEF Steps
<1>3. lsb * c \in Int /\ lsb * lo \in Int /\ lsb * hi \in Int /\ c * lsb = lsb * c
  BY <1>1, <1>2
<1>4. lsb * lo <= lsb * c /\ lsb * c <= lsb * hi
  BY <1>1 DEF Steps
<1> DEFINE w == c * lsb
           L == lsb * lo
           H == lsb * hi
<1>5. /\ w \in Int /\ L \in Int /\ H \in Int /\ L <= w /\ w <= H
      /\ Bounds(sig)[1] = L /\ Bounds(sig)[2] = H
      /\ v > H => w = H
      /\ v < L => w = L
      /\ L <= v /\ v <= H => 2 * (w - v) <= lsb /\ 2 * (v - w) <= lsb
  BY <1>1, <1>3, <1>4
<1> HIDE DEF w, L, H
<1>6. Conveys(sig, v, w)
  BY <1>2, <1>5 DEF Conveys
<1>7. QED
  BY <1>1, <1>6 DEF w

\* The fields whose code is one clamp of one rounding, by range and resolution.
LEMMA EncodedTable ==
    /\ \A sig \in {"SPEED", "AUX_BATTERY"} :
          /\ Layout[sig].bytes = 2 /\ ~Layout[sig].signed /\ Layout[sig].lsb = 4
          /\ Resolution(sig) = 4 /\ Bounds(sig)[1] = 0 /\ Bounds(sig)[2] = 4 * 65534
    /\ \A sig \in {"PACK_VOLTAGE", "LEAD_GAP"} :
          /\ Layout[sig].bytes = 2 /\ ~Layout[sig].signed /\ Layout[sig].lsb = 40
          /\ Resolution(sig) = 40 /\ Bounds(sig)[1] = 0 /\ Bounds(sig)[2] = 40 * 65534
    /\ \A sig \in {"MOTOR_POWER", "PACK_CURRENT"} :
          /\ Layout[sig].bytes = 2 /\ Layout[sig].signed /\ Layout[sig].lsb = 40
          /\ Resolution(sig) = 40
          /\ Bounds(sig)[1] = -40 * 32767 /\ Bounds(sig)[2] = 40 * 32767
    /\ \A sig \in {"SOC", "SOH", "FUEL_LEVEL"} :
          /\ Layout[sig].bytes = 1 /\ ~Layout[sig].signed /\ Layout[sig].lsb = 200
          /\ Resolution(sig) = 200 /\ Bounds(sig)[1] = 0 /\ Bounds(sig)[2] = 40000
    /\ \A sig \in {"ODOMETER"} :
          /\ Layout[sig].bytes = 4 /\ ~Layout[sig].signed /\ Layout[sig].lsb = 40
          /\ Resolution(sig) = 40 /\ Bounds(sig)[1] = 0 /\ Bounds(sig)[2] = 40 * U32Top
    /\ \A sig \in {"ECO_SCORE"} :
          /\ Layout[sig].bytes = 1 /\ ~Layout[sig].signed /\ Layout[sig].lsb = 1
          /\ Resolution(sig) = 1 /\ Bounds(sig)[1] = 0 /\ Bounds(sig)[2] = 100
BY DEF Layout, field, Resolution, Bounds, Percent, Hundredths, Tenths, Whole

LEMMA OtherTable ==
    /\ \A sig \in {"RPM", "RANGE"} :
          /\ Layout[sig].bytes = 2 /\ ~Layout[sig].signed /\ Layout[sig].lsb = 400
          /\ Resolution(sig) = 400 /\ Bounds(sig)[1] = 0 /\ Bounds(sig)[2] = 400 * 65534
    /\ \A sig \in {"CONSUMPTION"} :
          /\ Layout[sig].bytes = 2 /\ Layout[sig].signed /\ Layout[sig].lsb = 400
          /\ Resolution(sig) = 400
          /\ Bounds(sig)[1] = -400 * 32767 /\ Bounds(sig)[2] = 400 * 32767
    /\ \A sig \in {"AMBIENT_TEMP", "CABIN_TEMP", "COOLANT_TEMP"} :
          /\ Layout[sig].bytes = 1 /\ Layout[sig].signed /\ Layout[sig].lsb = 400
          /\ Resolution(sig) = 400 /\ Bounds(sig)[1] = -50800 /\ Bounds(sig)[2] = 50800
    /\ \A sig \in {"GEAR", "POWER_STATE", "CHARGING_STATE", "COLLISION_RISK"} :
          /\ Layout[sig].bytes = 1 /\ ~Layout[sig].signed /\ Layout[sig].lsb = 1
          /\ Resolution(sig) = 1 /\ Bounds(sig)[1] = 0 /\ Bounds(sig)[2] = lastOf(sig)
    /\ \A sig \in {"LANE_STATE"} :
          /\ Layout[sig].bytes = 1 /\ ~Layout[sig].signed /\ Layout[sig].lsb = 1
          /\ Bounds(sig)[1] = 0 /\ Bounds(sig)[2] = 15
    /\ \A sig \in {"SPEED_LIMIT"} :
          /\ Layout[sig].bytes = 1 /\ ~Layout[sig].signed /\ Layout[sig].lsb = 1
          /\ Resolution(sig) = 1 /\ Bounds(sig)[1] = 0 /\ Bounds(sig)[2] = 254
BY DEF Layout, field, Resolution, Bounds, Percent, Hundredths, Tenths, Whole

\* The fields whose code is one clamp of one rounding.
Encoded == {"SPEED", "AUX_BATTERY", "PACK_VOLTAGE", "LEAD_GAP", "MOTOR_POWER",
            "PACK_CURRENT", "SOC", "SOH", "FUEL_LEVEL", "ODOMETER", "ECO_SCORE",
            "AMBIENT_TEMP", "CABIN_TEMP", "COOLANT_TEMP"}

\* They are clamped to the ends of the signal's range, and those are codes other than SNA.
LEMMA ClampTable ==
    ASSUME NEW sig \in Encoded
    PROVE  /\ Layout[sig].lsb \in Steps /\ Resolution(sig) = Layout[sig].lsb
           /\ bottomOf(sig) \in Int /\ topOf(sig) \in Int /\ bottomOf(sig) <= topOf(sig)
           /\ Bounds(sig)[1] = Layout[sig].lsb * bottomOf(sig)
           /\ Bounds(sig)[2] = Layout[sig].lsb * topOf(sig)
           /\ SNA(sig) \in Int
           /\ Layout[sig].signed =>
                 SNA(sig) + 1 <= bottomOf(sig) /\ topOf(sig) <= -(SNA(sig) + 1)
           /\ ~Layout[sig].signed => 0 <= bottomOf(sig) /\ topOf(sig) <= SNA(sig) - 1
<1>1. CASE sig \in {"SPEED", "AUX_BATTERY"}
  BY <1>1, EncodedTable, SMT DEF topOf, bottomOf, SNA, Percent, Steps
<1>2. CASE sig \in {"PACK_VOLTAGE", "LEAD_GAP"}
  BY <1>2, EncodedTable, SMT DEF topOf, bottomOf, SNA, Percent, Steps
<1>3. CASE sig \in {"MOTOR_POWER", "PACK_CURRENT"}
  BY <1>3, EncodedTable, SMT DEF topOf, bottomOf, SNA, Percent, Steps
<1>4. CASE sig \in {"SOC", "SOH", "FUEL_LEVEL"}
  BY <1>4, EncodedTable, SMT DEF topOf, bottomOf, SNA, Percent, Steps
<1>5. CASE sig \in {"ODOMETER"}
  BY <1>5, EncodedTable, U32TopAssumption, SMT DEF topOf, bottomOf, SNA, Percent, Steps
<1>6. CASE sig \in {"ECO_SCORE"}
  BY <1>6, EncodedTable, SMT DEF topOf, bottomOf, SNA, Percent, Steps
<1>7. CASE sig \in {"AMBIENT_TEMP", "CABIN_TEMP", "COOLANT_TEMP"}
  BY <1>7, OtherTable, SMT DEF topOf, bottomOf, SNA, Percent, Steps
<1>8. QED
  BY <1>1, <1>2, <1>3, <1>4, <1>5, <1>6, <1>7 DEF Encoded

\* So canproxy_enc sends no value as SNA, and conveys what it sends.
LEMMA EncodeCodes ==
    ASSUME NEW sig \in Encoded, NEW v \in Int
    PROVE  /\ canproxy_enc(sig, v) \in Codes(sig)
           /\ canproxy_enc(sig, v) \in Int
           /\ bottomOf(sig) <= canproxy_enc(sig, v) /\ canproxy_enc(sig, v) <= topOf(sig)
           /\ Conveys(sig, v, canproxy_enc(sig, v) * Layout[sig].lsb)
<1> DEFINE c == canproxy_enc(sig, v)
           lsb == Layout[sig].lsb
           lo == bottomOf(sig)
           hi == topOf(sig)
<1>1. /\ lsb \in Steps /\ Resolution(sig) = lsb /\ lo \in Int /\ hi \in Int /\ lo <= hi
      /\ Bounds(sig)[1] = lsb * lo /\ Bounds(sig)[2] = lsb * hi
  BY ClampTable
<1>2. sig # "LANE_STATE" /\ sig # "COLLISION_RISK"
  BY DEF Encoded
<1>3. c = clamp(canproxy_round(v, lsb), lo, hi)
  BY Zenon DEF canproxy_enc
<1> HIDE DEF c, lsb, lo, hi
<1>4. c \in Int /\ lo <= c /\ c <= hi /\ Conveys(sig, v, c * lsb)
  BY <1>1, <1>2, <1>3, ClampConveys, Zenon
<1>5. c \in Codes(sig)
  BY <1>4, ClampTable DEF Codes, lo, hi
<1>6. QED
  BY <1>4, <1>5 DEF c, lsb, lo, hi

\* Encoding a temperature twice is encoding it once.
LEMMA TemperatureTwice ==
    ASSUME NEW sig \in {"AMBIENT_TEMP", "CABIN_TEMP", "COOLANT_TEMP"}, NEW v \in Int
    PROVE  codeOf(sig, v) = canproxy_enc(sig, v)
<1> DEFINE c == canproxy_enc(sig, v)
<1>0. sig \in Encoded
  BY DEF Encoded
<1>1. c \in Int /\ bottomOf(sig) <= c /\ c <= topOf(sig)
  BY <1>0, EncodeCodes
<1>2. codeOf(sig, v) = canproxy_enc(sig, 400 * c)
  BY SMT DEF codeOf, Unit, EnumSignals
<1>3. canproxy_enc(sig, 400 * c) = clamp(canproxy_round(400 * c, 400), bottomOf(sig), topOf(sig))
  BY OtherTable, SMT DEF canproxy_enc
<1> HIDE DEF c
<1>4. canproxy_round(400 * c, 400) = c
  BY <1>1, SMT DEF canproxy_round
<1>5. clamp(c, bottomOf(sig), topOf(sig)) = c
  BY <1>0, <1>1, ClampTable, SMT DEF clamp
<1>6. QED
  BY <1>2, <1>3, <1>4, <1>5, SMT DEF c

\* Which numbers are codes.
LEMMA NumberCodes ==
    ASSUME NEW sig, NEW c \in Int, SNA(sig) \in Int,
           \/ Layout[sig].signed /\ SNA(sig) + 1 <= c /\ c <= -(SNA(sig) + 1)
           \/ ~Layout[sig].signed /\ 0 <= c /\ c <= SNA(sig) - 1
    PROVE  c \in Codes(sig)
BY SMT DEF Codes

\* What it is to convey a value, for a field of numbers.
LEMMA NumberConveyed ==
    ASSUME NEW sig, sig # "LANE_STATE", sig # "COLLISION_RISK",
           NEW v \in Int, NEW w \in Int,
           Bounds(sig)[1] \in Int, Bounds(sig)[2] \in Int, Resolution(sig) \in Int,
           Bounds(sig)[1] <= w, w <= Bounds(sig)[2],
           v > Bounds(sig)[2] => w = Bounds(sig)[2],
           v < Bounds(sig)[1] => w = Bounds(sig)[1],
           Bounds(sig)[1] <= v /\ v <= Bounds(sig)[2] =>
               2 * (w - v) <= Resolution(sig) /\ 2 * (v - w) <= Resolution(sig)
    PROVE  Conveys(sig, v, w)
BY SMT DEF Conveys

\* Engine speed and range are clamped before they are rounded, in doubles.
LEMMA WholeCodes ==
    ASSUME NEW sig \in {"RPM", "RANGE"}, NEW v \in Int
    PROVE  codeOf(sig, v) \in Codes(sig) /\ Conveys(sig, v, codeOf(sig, v) * Layout[sig].lsb)
<1> DEFINE c == codeOf(sig, v)
<1>1. c = IF v < 0 THEN 0 ELSE IF v > 400 * 65534 THEN 65534 ELSE (v + 200) \div 400
  BY SMT DEF codeOf, Unit, EnumSignals
<1>2. /\ Layout[sig].lsb = 400 /\ ~Layout[sig].signed /\ Layout[sig].bytes = 2
      /\ Resolution(sig) = 400 /\ Bounds(sig)[1] = 0 /\ Bounds(sig)[2] = 400 * 65534
  BY OtherTable, SMT
<1> HIDE DEF c
<1>3. /\ c \in Int /\ 0 <= c /\ c <= 65534
      /\ v > 400 * 65534 => c = 65534
      /\ v < 0 => c = 0
      /\ 0 <= v /\ v <= 400 * 65534 => 2 * (400 * c - v) <= 400 /\ 2 * (v - 400 * c) <= 400
  BY <1>1, SMT
<1>4. sig # "LANE_STATE" /\ sig # "COLLISION_RISK" /\ SNA(sig) = 65535
  BY <1>2, SMT DEF SNA
<1>5. c \in Codes(sig) /\ Conveys(sig, v, c * 400)
  <2>1. c \in Codes(sig)
    BY <1>2, <1>3, <1>4, NumberCodes, SMT
  <2>2. Conveys(sig, v, c * 400)
    <3> DEFINE w == c * 400
    <3>1. /\ w \in Int /\ Bounds(sig)[1] <= w /\ w <= Bounds(sig)[2]
          /\ v > Bounds(sig)[2] => w = Bounds(sig)[2]
          /\ v < Bounds(sig)[1] => w = Bounds(sig)[1]
          /\ Bounds(sig)[1] <= v /\ v <= Bounds(sig)[2] =>
                2 * (w - v) <= Resolution(sig) /\ 2 * (v - w) <= Resolution(sig)
      BY <1>2, <1>3, SMT
    <3>2. Bounds(sig)[1] \in Int /\ Bounds(sig)[2] \in Int /\ Resolution(sig) \in Int
      BY <1>2, SMT
    <3> HIDE DEF w
    <3>3. Conveys(sig, v, w)
      BY <1>4, <3>1, <3>2, NumberConveyed, SMT
    <3> QED
      BY <3>3, SMT DEF w
  <2>3. QED
    BY <2>1, <2>2
<1>6. QED
  BY <1>2, <1>5, SMT DEF c

\* Consumption is clamped in doubles and then rounded.
LEMMA ConsumptionCodes ==
    ASSUME NEW sig \in {"CONSUMPTION"}, NEW v \in Int
    PROVE  codeOf(sig, v) \in Codes(sig) /\ Conveys(sig, v, codeOf(sig, v) * Layout[sig].lsb)
<1> DEFINE c == codeOf(sig, v)
           w == clamp(v, -32767 * 400, 32767 * 400)
<1>1. c = canproxy_round(w, 400)
  BY SMT DEF codeOf, Unit, EnumSignals
<1>2. /\ Layout[sig].lsb = 400 /\ Layout[sig].signed /\ Layout[sig].bytes = 2
      /\ Resolution(sig) = 400
      /\ Bounds(sig)[1] = -400 * 32767 /\ Bounds(sig)[2] = 400 * 32767
  BY OtherTable, SMT
<1>3. w \in Int /\ -32767 * 400 <= w /\ w <= 32767 * 400
  BY SMT DEF clamp
<1>4. /\ v > 400 * 32767 => w = 400 * 32767
      /\ v < -400 * 32767 => w = -400 * 32767
      /\ -400 * 32767 <= v /\ v <= 400 * 32767 => w = v
  BY SMT DEF clamp
<1> HIDE DEF c, w
<1>5. c \in Int /\ 2 * (400 * c - w) <= 400 /\ 2 * (w - 400 * c) <= 400
  BY <1>1, <1>3, SMT DEF canproxy_round
<1>6. sig # "LANE_STATE" /\ sig # "COLLISION_RISK" /\ SNA(sig) = -32768
  BY <1>2, SMT DEF SNA
<1>7. /\ -32767 <= c /\ c <= 32767
      /\ w = 400 * 32767 => c = 32767
      /\ w = -400 * 32767 => c = -32767
  BY <1>3, <1>5, SMT
<1>8. c \in Codes(sig) /\ Conveys(sig, v, c * 400)
  <2>1. c \in Codes(sig)
    BY <1>2, <1>5, <1>6, <1>7, NumberCodes, SMT
  <2>2. Conveys(sig, v, c * 400)
    BY <1>2, <1>4, <1>5, <1>6, <1>7, NumberConveyed, SMT
  <2>3. QED
    BY <2>1, <2>2
<1>9. QED
  BY <1>2, <1>8, SMT DEF c

\* The fields that carry a number as it is: enumerations, the lane bits, the speed limit.
LEMMA PlainCodes ==
    ASSUME NEW sig \in {"GEAR", "POWER_STATE", "CHARGING_STATE", "COLLISION_RISK",
                        "LANE_STATE", "SPEED_LIMIT"},
           NEW v \in Int, sig \in EnumSignals => inEnum(sig, v)
    PROVE  codeOf(sig, v) \in Codes(sig) /\ Conveys(sig, v, codeOf(sig, v) * Layout[sig].lsb)
<1>1. CASE sig \in EnumSignals
  <2>1. /\ codeOf(sig, v) = v /\ lastOf(sig) \in 3 .. 4 /\ v \in 0 .. lastOf(sig)
        /\ sig # "LANE_STATE" /\ sig # "COLLISION_RISK"
    BY <1>1, SMT DEF codeOf, lastOf, inEnum, EnumSignals
  <2>2. /\ Layout[sig].lsb = 1 /\ ~Layout[sig].signed /\ Layout[sig].bytes = 1
        /\ Resolution(sig) = 1 /\ Bounds(sig)[1] = 0 /\ Bounds(sig)[2] = lastOf(sig)
    BY <1>1, OtherTable, SMT DEF EnumSignals
  <2>3. v \in Codes(sig) /\ Conveys(sig, v, v * 1)
    BY <2>1, <2>2, SMT DEF Codes, SNA, Conveys
  <2>4. QED
    BY <2>1, <2>2, <2>3, SMT
<1>2. CASE sig = "COLLISION_RISK"
  <2>1. /\ Layout[sig].lsb = 1 /\ ~Layout[sig].signed /\ Layout[sig].bytes = 1
        /\ Resolution(sig) = 1 /\ Bounds(sig)[1] = 0 /\ Bounds(sig)[2] = 3
    BY <1>2, OtherTable, SMT DEF lastOf
  <2>2. codeOf(sig, v) = IF v \in 0 .. 3 THEN v ELSE 0
    BY <1>2, SMT DEF codeOf, EnumSignals, inEnum, lastOf
  <2>3. QED
    BY <1>2, <2>1, <2>2, SMT DEF Codes, SNA, Conveys, inEnum, lastOf
<1>3. CASE sig = "LANE_STATE"
  <2>1. /\ Layout[sig].lsb = 1 /\ ~Layout[sig].signed /\ Layout[sig].bytes = 1
        /\ Bounds(sig)[1] = 0 /\ Bounds(sig)[2] = 15
    BY <1>3, OtherTable, SMT
  <2>2. codeOf(sig, v) = v % 16 /\ v % 16 \in 0 .. 15
    BY <1>3, SMT DEF codeOf, EnumSignals
  <2>3. QED
    BY <1>3, <2>1, <2>2, SMT DEF Codes, SNA, Conveys
<1>4. CASE sig = "SPEED_LIMIT"
  <2>1. /\ Layout[sig].lsb = 1 /\ ~Layout[sig].signed /\ Layout[sig].bytes = 1
        /\ Resolution(sig) = 1 /\ Bounds(sig)[1] = 0 /\ Bounds(sig)[2] = 254
    BY <1>4, OtherTable, SMT
  <2>2. codeOf(sig, v) = clamp(v, 0, 254)
    BY <1>4, SMT DEF codeOf, EnumSignals
  <2>3. QED
    BY <1>4, <2>1, <2>2, SMT DEF Codes, SNA, Conveys, clamp
<1>5. QED
  BY <1>1, <1>2, <1>3, <1>4 DEF EnumSignals

\* Every signal: a value that is sent is never sent as SNA, and its code conveys it.
LEMMA CodeFacts ==
    ASSUME NEW id \in DataIds, NEW sig \in SignalsIn[id],
           NEW v \in Int, sig \in EnumSignals => inEnum(sig, v)
    PROVE  codeOf(sig, v) \in Codes(sig) /\ Conveys(sig, v, codeOf(sig, v) * Layout[sig].lsb)
<1>1. CASE sig \in {"AMBIENT_TEMP", "CABIN_TEMP", "COOLANT_TEMP"}
  <2>1. sig \in Encoded
    BY <1>1 DEF Encoded
  <2>2. QED
    BY <1>1, <2>1, TemperatureTwice, EncodeCodes
<1>2. CASE sig \in Encoded \ {"AMBIENT_TEMP", "CABIN_TEMP", "COOLANT_TEMP"}
  <2>1. codeOf(sig, v) = canproxy_enc(sig, v)
    BY <1>2, SMT DEF codeOf, EnumSignals, Encoded
  <2>2. QED
    BY <1>2, <2>1, EncodeCodes, SMT
<1>3. CASE sig \in {"RPM", "RANGE"}
  BY <1>3, WholeCodes
<1>4. CASE sig \in {"CONSUMPTION"}
  BY <1>4, ConsumptionCodes
<1>5. CASE sig \in {"GEAR", "POWER_STATE", "CHARGING_STATE", "COLLISION_RISK",
                    "LANE_STATE", "SPEED_LIMIT"}
  BY <1>5, PlainCodes
<1>6. QED
  BY <1>1, <1>2, <1>3, <1>4, <1>5, FrameSignals, SMT DEF Encoded
-----------------------------------------------------------------------------
(***************************************************************************)
(* A consumer sees what was measured.                                      *)
(***************************************************************************)

\* SNA is not the code of a value.
LEMMA SnaApart ==
    ASSUME NEW id \in DataIds, NEW sig \in SignalsIn[id]
    PROVE  SNA(sig) \notin Codes(sig)
<1>1. SNA(sig) \in Int /\ (Layout[sig].signed => SNA(sig) < 0)
  BY FieldFacts, U32TopAssumption, SMT DEF SNA
<1>2. QED
  BY <1>1, SMT DEF Codes

\* The fields of a snapshot hold integers.
LEMMA SnapshotFacts ==
    ASSUME NEW id \in DataIds, NEW s \in Snapshots(id), NEW sig \in SignalsIn[id]
    PROVE  s.value[sig] \in Int
<1>1. s.value \in Measured[id]
  BY DEF Snapshots
<1>2. QED
  BY <1>1, MeasuredAssumption

\* What unpack makes of a packed signal.
LEMMA Decoded ==
    ASSUME NEW id \in DataIds, NEW s \in Snapshots(id), NEW sig \in SignalsIn[id]
    PROVE  LET got == unpack(sig, pack(id, s)) IN
           /\ got.known <=> /\ s.live /\ sig \in s.valid \cap s.capable
                            /\ sig \in EnumSignals => inEnum(sig, s.value[sig])
           /\ got.known => Conveys(sig, s.value[sig], got.value)
<1> DEFINE c == wireCode(s, sig)
           v == s.value[sig]
           got == unpack(sig, pack(id, s))
<1>1. sentFrom(s, sig) => codeOf(sig, v) \in Codes(sig) /\ Conveys(sig, v, codeOf(sig, v) * Layout[sig].lsb)
  BY SnapshotFacts, CodeFacts DEF sentFrom
<1>2. sentFrom(s, sig) => c = codeOf(sig, v)
  BY DEF wireCode
<1>3. ~sentFrom(s, sig) => c = SNA(sig)
  BY DEF wireCode
<1>4. signedOf(sig, get(sig, pack(id, s))) = c
  BY <1>1, <1>2, <1>3, RoundTrip
<1>5. (c # SNA(sig)) <=> sentFrom(s, sig)
  BY <1>1, <1>2, <1>3, SnaApart
<1> HIDE DEF c, v
<1>6. /\ got.known = (c # SNA(sig))
      /\ got.value = IF c # SNA(sig) THEN c * Layout[sig].lsb ELSE 0
  BY <1>4 DEF unpack
<1> HIDE DEF got
<1>7. got.known <=> sentFrom(s, sig)
  BY <1>5, <1>6
<1>8. got.known => Conveys(sig, v, got.value)
  BY <1>1, <1>2, <1>5, <1>6, <1>7
<1>9. sentFrom(s, sig) <=> /\ s.live /\ sig \in s.valid \cap s.capable
                           /\ sig \in EnumSignals => inEnum(sig, s.value[sig])
  BY DEF sentFrom, has
<1>10. QED
  BY <1>7, <1>8, <1>9 DEF got, v

\* What the decoding mode holds: the frame on the bus is packed from the snapshot, and
\* what is shown was unpacked from such a frame.
DecodeInv ==
    ~statsMode =>
        /\ rc = -1 /\ about \in DataIds /\ state \in Snapshots(about)
        /\ bus = NoFrame \/ bus = [id |-> about, data |-> pack(about, state)]
        /\ \/ shown = NoFrame
           \/ shown = [id |-> about, signals |->
                         [sig \in SignalsIn[about] |-> unpack(sig, pack(about, state))]]

\* What --stats holds: the counters of the proxy, of the frame on the bus and of the
\* last frame read differ by the frames lost since, and a loss the counter can show
\* was counted as a skip.
CountInv ==
    statsMode =>
        /\ shown = NoFrame
        /\ counter \in 0 .. 255 /\ lastCounter \in -1 .. 255
        /\ lost \in Nat /\ counterSkips \in Nat
        /\ bus = NoFrame \/ \E c \in 0 .. 255 : bus = [id |-> "STATUS", counter |-> c]
        /\ lastCounter # -1 =>
             IF bus = NoFrame THEN counter = (lastCounter + 1 + lost) % 256
                              ELSE bus.counter = (lastCounter + 1 + lost) % 256
        /\ bus # NoFrame => counter = (bus.counter + 1) % 256
        /\ missed <=> counterSkips > 0
        /\ rc \in {-1, 0, 1} /\ (rc # -1 => (rc = 1 <=> missed))

ConsumerInv == statsMode \in BOOLEAN /\ DecodeInv /\ CountInv
-----------------------------------------------------------------------------
LEMMA InitConsumer == Init => ConsumerInv
<1> SUFFICES ASSUME Init PROVE ConsumerInv
  OBVIOUS
<1>1. statsMode \in BOOLEAN /\ InitOf(statsMode)
  BY DEF Init, InitOf
<1>2. DecodeInv
  BY <1>1 DEF InitOf, DecodeInv
<1>3. CountInv
  BY <1>1 DEF InitOf, CountInv
<1>4. QED
  BY <1>1, <1>2, <1>3 DEF ConsumerInv

\* Neither mode leaves the other's state: a step of the decoding mode.
LEMMA DecodeStep ==
    ASSUME ConsumerInv, ~statsMode, [Next]_vars
    PROVE  DecodeInv' /\ statsMode' = statsMode
<1> USE DEF ConsumerInv
<1>1. /\ rc = -1 /\ about \in DataIds /\ about # "STATUS" /\ state \in Snapshots(about)
      /\ bus = NoFrame \/ bus = [id |-> about, data |-> pack(about, state)]
      /\ \/ shown = NoFrame
         \/ shown = [id |-> about, signals |->
                       [sig \in SignalsIn[about] |-> unpack(sig, pack(about, state))]]
  BY FrameSignals DEF DecodeInv
<1>2. CASE SendData
  BY <1>1, <1>2 DEF SendData, DecodeInv, snapshot
<1>3. CASE Decode
  <2>1. bus = [id |-> about, data |-> pack(about, state)]
    BY <1>1, <1>3 DEF Decode
  <2>2. bus.id = about /\ bus.data = pack(about, state)
    BY <2>1
  <2>3. shown' = [id |-> about, signals |->
                    [sig \in SignalsIn[about] |-> unpack(sig, pack(about, state))]]
    BY <1>3, <2>2, Zenon DEF Decode
  <2>4. QED
    BY <1>1, <1>3, <2>3 DEF Decode, DecodeInv, snapshot
<1>4. CASE SendStatus \/ Count \/ Finish
  BY <1>4 DEF SendStatus, Count, Finish
<1>5. ~Lose
  BY <1>1 DEF Lose, NoFrame
<1>6. CASE Exited \/ UNCHANGED vars
  BY <1>1, <1>6 DEF Exited, vars, snapshot, DecodeInv
<1>7. QED
  BY <1>2, <1>3, <1>4, <1>5, <1>6 DEF Next

\* The one-byte counter shows a loss unless its length is a multiple of 256.
LEMMA LossShows ==
    ASSUME NEW a \in Int, 0 <= a, NEW n \in Nat
    PROVE  /\ (a + 1 + n) % 256 = (a + 1) % 256 <=> n % 256 = 0
           /\ (((a + 1 + n) % 256) + 1) % 256 = (a + 1 + (n + 1)) % 256
           /\ (a + 1 + 0) % 256 = (a + 1) % 256
           /\ (a + 1) % 256 \in 0 .. 255
           /\ (a + 1 + n) % 256 \in 0 .. 255
BY SMT

\* A step with --stats.
LEMMA CountStep ==
    ASSUME ConsumerInv, statsMode, [Next]_vars
    PROVE  CountInv' /\ statsMode' = statsMode
<1> USE DEF ConsumerInv
<1>1. CASE SendStatus
  <2>1. bus' # NoFrame /\ bus'.counter = counter
    BY <1>1 DEF SendStatus, NoFrame
  <2>2. counter \in 0 .. 255 /\ counter' \in 0 .. 255
    BY <1>1, LossShows DEF SendStatus, CountInv
  <2>3. QED
    BY <1>1, <2>1, <2>2 DEF SendStatus, CountInv, snapshot
<1>2. CASE Lose
  <2>1. PICK c \in 0 .. 255 : bus = [id |-> "STATUS", counter |-> c]
    BY <1>2 DEF Lose, CountInv, NoFrame
  <2>2. bus # NoFrame /\ bus.counter = c
    BY <2>1 DEF NoFrame
  <2>3. lastCounter # -1 => counter = (lastCounter + 1 + (lost + 1)) % 256
    <3> SUFFICES ASSUME lastCounter # -1
                 PROVE  counter = (lastCounter + 1 + (lost + 1)) % 256
      OBVIOUS
    <3>1. lastCounter \in Int /\ 0 <= lastCounter /\ lost \in Nat
      BY DEF CountInv
    <3>2. c = (lastCounter + 1 + lost) % 256 /\ counter = (c + 1) % 256
      BY <2>2 DEF CountInv
    <3>3. QED
      BY <3>1, <3>2, LossShows
  <2>4. QED
    BY <1>2, <2>3 DEF Lose, CountInv, snapshot
<1>3. CASE Count
  <2>1. PICK c \in 0 .. 255 : bus = [id |-> "STATUS", counter |-> c]
    BY <1>3 DEF Count, CountInv
  <2>2. bus # NoFrame /\ bus.counter = c
    BY <2>1 DEF NoFrame
  <2>3. skipped(c) <=> (lastCounter # -1 /\ lost % 256 # 0)
    <3>1. CASE lastCounter = -1
      BY <3>1 DEF skipped
    <3>2. CASE lastCounter # -1
      <4>1. lastCounter \in Int /\ 0 <= lastCounter /\ lost \in Nat
        BY <3>2 DEF CountInv
      <4>2. c = (lastCounter + 1 + lost) % 256
        BY <3>2, <2>2 DEF CountInv
      <4>3. QED
        BY <3>2, <4>1, <4>2, LossShows DEF skipped
    <3>3. QED
      BY <3>1, <3>2
  <2>4. counterSkips' \in Nat /\ (missed' <=> counterSkips' > 0)
    <3>1. missed' <=> (missed \/ skipped(c))
      BY <1>3, <2>3 DEF Count
    <3>2. counterSkips \in Nat /\ (missed <=> counterSkips > 0)
      BY DEF CountInv
    <3>3. counterSkips' = counterSkips + (IF skipped(c) THEN 1 ELSE 0)
      BY <1>3, <2>2 DEF Count
    <3>4. QED
      BY <3>1, <3>2, <3>3
  <2>5. counter' = (lastCounter' + 1 + lost') % 256 /\ lastCounter' \in -1 .. 255
    BY <1>3, <2>2, LossShows DEF Count, CountInv
  <2>6. QED
    BY <1>3, <2>4, <2>5 DEF Count, CountInv, snapshot
<1>4. CASE Finish
  BY <1>4 DEF Finish, CountInv, snapshot, countVars
<1>5. CASE SendData \/ Decode
  BY <1>5 DEF SendData, Decode
<1>6. CASE Exited \/ UNCHANGED vars
  <2>1. UNCHANGED vars
    BY <1>6 DEF Exited
  <2>2. QED
    BY <2>1, Zenon DEF vars, snapshot, countVars, CountInv
<1>7. QED
  BY <1>1, <1>2, <1>3, <1>4, <1>5, <1>6 DEF Next

\* The invariant of the consumer, for any values measured and losses of any length.
THEOREM ConsumerInvariance == Spec => []ConsumerInv
<1>1. ConsumerInv /\ [Next]_vars => ConsumerInv'
  <2> SUFFICES ASSUME ConsumerInv, [Next]_vars PROVE ConsumerInv'
    OBVIOUS
  <2>1. CASE statsMode
    BY <2>1, CountStep DEF ConsumerInv, DecodeInv
  <2>2. CASE ~statsMode
    BY <2>2, DecodeStep DEF ConsumerInv, CountInv
  <2>3. QED
    BY <2>1, <2>2
<1>2. QED
  BY InitConsumer, <1>1, PTL DEF Spec

\* printDecoded shows what the plugin measured: a signal is known exactly when its
\* value is live, valid, of this vehicle and meaningful, and it is shown as the nearest
\* value of its field or the end of its range; for every field of every frame, every
\* integer number of its smallest steps and every combination of the other signals.
THEOREM MeasuredIsShown == Spec => []ShownIsMeasured
<1>1. ConsumerInv => ShownIsMeasured
  <2> SUFFICES ASSUME ConsumerInv, shown # NoFrame, NEW sig \in SignalsIn[about]
               PROVE  LET s == state  got == shown.signals[sig] IN
                      /\ got.known <=> /\ s.live /\ sig \in s.valid \cap s.capable
                                       /\ sig \in EnumSignals => inEnum(sig, s.value[sig])
                      /\ got.known => Conveys(sig, s.value[sig], got.value)
    BY DEF ShownIsMeasured
  <2>1. /\ about \in DataIds /\ state \in Snapshots(about)
        /\ shown = [id |-> about, signals |->
                      [g \in SignalsIn[about] |-> unpack(g, pack(about, state))]]
    BY DEF ConsumerInv, CountInv, DecodeInv
  <2>2. shown.signals[sig] = unpack(sig, pack(about, state))
    BY <2>1
  <2>3. QED
    BY <2>1, <2>2, Decoded, Zenon
<1>2. QED
  BY <1>1, ConsumerInvariance, PTL

\* The exit status of --stats --require-counter is 1 exactly when status frames were
\* lost between two that were read, but for losses of a multiple of 256 in a row.
THEOREM VerdictIsRight == Spec => []VerdictRight
<1>1. ConsumerInv => VerdictRight
  <2>1. ConsumerInv /\ statsMode => VerdictRight
    BY DEF ConsumerInv, CountInv, VerdictRight
  <2>2. ConsumerInv /\ ~statsMode => VerdictRight
    BY DEF ConsumerInv, DecodeInv, VerdictRight
  <2>3. QED
    BY <2>1, <2>2
<1>2. QED
  BY <1>1, ConsumerInvariance, PTL
-----------------------------------------------------------------------------
(***************************************************************************)
(* contract-dump among the programs of Bench.                              *)
(***************************************************************************)

\* Bench runs contract-dump as it is.
LEMMA DumpRuns == BenchSpec => Spec
<1>1. BenchInit => Init
  BY DEF BenchInit, Init
<1>2. [BenchNext]_benchVars => [Next]_vars
  BY DEF BenchNext, benchVars
<1>3. QED
  BY <1>1, <1>2, PTL DEF BenchSpec, Spec

\* ShownIsMeasured holds of contract-dump among the programs of Bench.
THEOREM BenchShows == BenchSpec => []ShownIsMeasured
BY DumpRuns, MeasuredIsShown, PTL

\* VerdictRight holds of contract-dump among the programs of Bench.
THEOREM BenchVerdict == BenchSpec => []VerdictRight
BY DumpRuns, VerdictIsRight, PTL
-----------------------------------------------------------------------------
(***************************************************************************)
(* The client.                                                             *)
(***************************************************************************)

\* How many blocks of supported PIDs an ECU has, and what the first n advertise.
Blocks(ecu) == Len(Advert[ecu])
Chain(ecu, n) == UNION {Advert[ecu][b] : b \in 1 .. n}

\* A frame or a debt that names a PID names an ECU that answers it.
Owned(f) == f.pid # "none" => f.ecu \in Ecus /\ C!Answers(f.ecu, f.pid)

\* The types of the variables other than the queue.
TypeParts ==
    /\ now \in Nat /\ isOpen \in BOOLEAN /\ discovered \in BOOLEAN
    /\ op \in {"none", "discover", "query"}
    /\ asked \in Seq(C!Pids)
    /\ deadline \in Nat /\ wakeBy \in Nat /\ block \in 0 .. 7
    /\ found \subseteq Values /\ supported \subseteq Values
    /\ primary \in Ecus \cup {C!NoEcu}
    /\ owed \subseteq [ecu: Ecus, pid: C!Pids, req: Nat]
    /\ givenUp \subseteq Nat /\ sources \subseteq Ecus /\ session \in Nat

\* Every frame in the socket is an answer its ECU gives.
QueueOk(q) == q \in Seq(C!Frames) /\ \A i \in 1 .. Len(q) : Owned(q[i])

\* A request under way waits no longer than its deadline.
WaitInv ==
    op # "none" => now <= deadline + MaxLag /\ wakeBy <= deadline /\ Len(asked) > 0

\* A discovery under way asks for the block after those it has, which are the first of
\* the ECU it listens to.
ChainInv ==
    /\ op # "discover" => block = 0
    /\ op = "discover" => /\ block \in 1 .. 7
                          /\ asked[Len(asked)] = C!SupportedPids[block]
    /\ block < 2 => found = {}
    /\ block > 1 => /\ primary \in Ecus /\ block <= Blocks(primary)
                    /\ found = Chain(primary, block - 1)

\* The client's inductive invariant.
ClientIInv ==
    /\ TypeParts /\ C!OneEcu
    /\ QueueOk(queue) /\ (\A o \in owed : Owned(o))
    /\ WaitInv /\ ChainInv

\* The constants of the client.
LEMMA ClientFacts ==
    /\ C!NoEcu \notin Ecus
    /\ Timeout \in Nat /\ MaxLag \in Nat
    /\ \A e \in Ecus : /\ Blocks(e) \in Nat /\ 1 <= Blocks(e) /\ Blocks(e) <= 7
                       /\ DOMAIN Advert[e] = 1 .. Blocks(e)
                       /\ \A b \in 1 .. Blocks(e) : Advert[e][b] \subseteq Values
<1>1. /\ C!NoEcu \notin Ecus
      /\ Timeout \in Nat /\ MaxLag \in Nat
      /\ \A e \in Ecus : Advert[e] \in Seq(SUBSET Values) /\ Len(Advert[e]) \in 1 .. 7
  BY BenchAssumption DEF C!ClientConstants
<1>2. ASSUME NEW e \in Ecus
      PROVE  /\ Blocks(e) \in Nat /\ 1 <= Blocks(e) /\ Blocks(e) <= 7
             /\ DOMAIN Advert[e] = 1 .. Blocks(e)
             /\ \A b \in 1 .. Blocks(e) : Advert[e][b] \subseteq Values
  <2>1. Advert[e] \in Seq(SUBSET Values)
    BY <1>1
  <2>2. PICK n \in 1 .. 7 : n = Blocks(e)
    BY <1>1 DEF Blocks
  <2>3. DOMAIN Advert[e] = 1 .. Blocks(e)
    BY <2>1, LenProperties DEF Blocks
  <2>4. \A b \in 1 .. Blocks(e) : Advert[e][b] \subseteq Values
    BY <2>1, ElementOfSeq DEF Blocks
  <2>5. Blocks(e) \in Nat /\ 1 <= Blocks(e) /\ Blocks(e) <= 7
    BY <2>2
  <2>6. QED
    BY <2>3, <2>4, <2>5
<1>3. QED
  BY <1>1, <1>2

\* The PIDs of the blocks are different from one another and from those of values.
LEMMA BlockPidFacts ==
    /\ \A b \in 1 .. 7 : C!SupportedPids[b] \in C!BlockPids
    /\ \A b, c \in 1 .. 7 : C!SupportedPids[b] = C!SupportedPids[c] => b = c
    /\ "none" \notin C!BlockPids
    /\ Values \cap C!BlockPids = {}
    /\ "none" \notin C!Pids
<1>1. Values \cap C!BlockPids = {} /\ "none" \notin Values
  BY BenchAssumption DEF C!ClientConstants
<1>2. QED
  BY <1>1 DEF C!BlockPids, C!SupportedPids, C!Pids

\* An ECU answers for a block exactly when its chain is that long.
LEMMA AnswersBlock ==
    ASSUME NEW e \in Ecus, NEW b \in 1 .. 7, C!Answers(e, C!SupportedPids[b])
    PROVE  b <= Blocks(e)
<1>1. PICK c \in 1 .. Blocks(e) :
        C!SupportedPids[b] = C!SupportedPids[c] \/ C!SupportedPids[b] \in Advert[e][c]
  BY DEF C!Answers, Blocks
<1>2. c \in 1 .. 7 /\ Advert[e][c] \subseteq Values
  BY ClientFacts
<1>3. C!SupportedPids[b] \notin Advert[e][c]
  BY <1>2, BlockPidFacts
<1>4. b = c
  BY <1>1, <1>2, <1>3, BlockPidFacts
<1>5. QED
  BY <1>4, ClientFacts

\* A chain of blocks grows by one.
LEMMA ChainFacts ==
    ASSUME NEW e
    PROVE  /\ Chain(e, 0) = {}
           /\ \A n \in Nat : Chain(e, n + 1) = Chain(e, n) \cup Advert[e][n + 1]
<1>1. Chain(e, 0) = {}
  BY DEF Chain
<1>2. ASSUME NEW n \in Nat PROVE Chain(e, n + 1) = Chain(e, n) \cup Advert[e][n + 1]
  <2>1. 1 .. (n + 1) = (1 .. n) \cup {n + 1}
    OBVIOUS
  <2>2. QED
    BY <2>1 DEF Chain
<1>3. QED
  BY <1>1, <1>2

\* Reading a frame and receiving one leave a queue of answers.
LEMMA QueueFacts ==
    /\ QueueOk(<<>>)
    /\ \A q : QueueOk(q) /\ q # <<>> => /\ Head(q) \in C!Frames /\ Owned(Head(q))
                                        /\ QueueOk(Tail(q))
    /\ \A q : \A f \in C!Frames : QueueOk(q) /\ Owned(f) => QueueOk(Append(q, f))
<1>1. QueueOk(<<>>)
  BY DEF QueueOk
<1>2. ASSUME NEW q, QueueOk(q), q # <<>>
      PROVE  Head(q) \in C!Frames /\ Owned(Head(q)) /\ QueueOk(Tail(q))
  <2>1. q \in Seq(C!Frames)
    BY <1>2 DEF QueueOk
  <2>2. /\ Len(q) \in Nat \ {0} /\ Head(q) = q[1] /\ Head(q) \in C!Frames
        /\ Tail(q) \in Seq(C!Frames) /\ Len(Tail(q)) = Len(q) - 1
        /\ \A i \in 1 .. Len(q) - 1 : Tail(q)[i] = q[i + 1]
    BY <1>2, <2>1, HeadTailProperties, EmptySeq
  <2>3. QED
    BY <1>2, <2>2 DEF QueueOk
<1>3. ASSUME NEW q, NEW f \in C!Frames, QueueOk(q), Owned(f)
      PROVE  QueueOk(Append(q, f))
  <2>1. q \in Seq(C!Frames)
    BY <1>3 DEF QueueOk
  <2>2. /\ Append(q, f) \in Seq(C!Frames) /\ Len(Append(q, f)) = Len(q) + 1
        /\ \A i \in 1 .. Len(q) : Append(q, f)[i] = q[i]
        /\ Append(q, f)[Len(q) + 1] = f
    BY <2>1, AppendProperties
  <2>3. QED
    BY <1>3, <2>1, <2>2 DEF QueueOk
<1>4. QED
  BY <1>1, <1>2, <1>3

\* What is owed after a request, and how long it may take.
LEMMA SendFacts ==
    ASSUME ClientIInv, NEW o, NEW pid \in C!Pids, C!send(o, pid)
    PROVE  /\ op' = o
           /\ asked' \in Seq(C!Pids) /\ Len(asked') > 0 /\ asked'[Len(asked')] = pid
           /\ deadline' \in Nat /\ wakeBy' = deadline' /\ now <= deadline' + MaxLag
           /\ owed' \subseteq [ecu: Ecus, pid: C!Pids, req: Nat]
           /\ \A p \in owed' : Owned(p)
<1>1. asked \in Seq(C!Pids) /\ now \in Nat /\ owed \subseteq [ecu: Ecus, pid: C!Pids, req: Nat]
  BY DEF ClientIInv, TypeParts
<1>2. asked' \in Seq(C!Pids) /\ Len(asked') > 0 /\ asked'[Len(asked')] = pid
  BY <1>1, AppendProperties DEF C!send
<1>3. deadline' \in Nat /\ wakeBy' = deadline' /\ now <= deadline' + MaxLag
  BY <1>1, ClientFacts DEF C!send
<1>4. ASSUME NEW p \in owed'
      PROVE  p \in [ecu: Ecus, pid: C!Pids, req: Nat] /\ Owned(p)
  <2>1. CASE p \in owed
    BY <1>1, <2>1 DEF ClientIInv
  <2>2. CASE p \notin owed
    <3>1. PICK e \in Ecus : C!Answers(e, pid) /\ p = [ecu |-> e, pid |-> pid, req |-> Len(asked) + 1]
      BY <2>2 DEF C!send
    <3>2. QED
      BY <1>1, <3>1 DEF Owned
  <2>3. QED
    BY <2>1, <2>2
<1>5. QED
  BY <1>2, <1>3, <1>4 DEF C!send

LEMMA ClientStarts == C!Init => ClientIInv
<1> SUFFICES ASSUME C!Init PROVE ClientIInv
  OBVIOUS
<1>1. TypeParts
  <2>1. asked \in Seq(C!Pids)
    BY EmptySeq DEF C!Init
  <2>2. isOpen \in BOOLEAN /\ discovered \in BOOLEAN
    BY DEF C!Init
  <2>3. QED
    BY <2>1, <2>2 DEF C!Init, TypeParts
<1>2. C!OneEcu /\ (\A o \in owed : Owned(o)) /\ WaitInv /\ ChainInv
  BY DEF C!Init, C!OneEcu, WaitInv, ChainInv
<1>3. QueueOk(queue)
  BY QueueFacts DEF C!Init
<1>4. QED
  BY <1>1, <1>2, <1>3 DEF ClientIInv

\* A frame that matches is an answer of the one ECU to listen to.
LEMMA MatchFacts ==
    ASSUME ClientIInv, C!Waiting, queue # <<>>, C!matches(Head(queue))
    PROVE  /\ Head(queue).ecu \in Ecus
           /\ C!Answers(Head(queue).ecu, asked[Len(asked)])
           /\ primary = C!NoEcu \/ primary = Head(queue).ecu
           /\ QueueOk(Tail(queue))
<1>1. asked \in Seq(C!Pids) /\ Len(asked) > 0
  BY DEF ClientIInv, TypeParts, WaitInv, C!Waiting
<1>2. asked[Len(asked)] \in C!Pids
  BY <1>1, ElementOfSeq, LenProperties
<1>3. asked[Len(asked)] # "none"
  BY <1>2, BlockPidFacts
<1>4. Owned(Head(queue)) /\ QueueOk(Tail(queue))
  BY QueueFacts DEF ClientIInv
<1>5. QED
  BY <1>3, <1>4 DEF C!matches, C!Current, Owned

\* Listening to it keeps to one ECU.
LEMMA UseFacts ==
    ASSUME ClientIInv, C!Waiting, queue # <<>>, C!matches(Head(queue)), C!use(Head(queue))
    PROVE  /\ QueueOk(queue') /\ primary' \in Ecus /\ primary' = Head(queue).ecu
           /\ sources' \subseteq Ecus /\ C!OneEcu'
<1>1. sources \subseteq Ecus /\ sources \subseteq {primary} /\ C!NoEcu \notin Ecus
  BY ClientFacts DEF ClientIInv, TypeParts, C!OneEcu
<1>2. sources \subseteq {Head(queue).ecu}
  BY <1>1, MatchFacts
<1>3. QED
  BY <1>1, <1>2, MatchFacts DEF C!use, C!OneEcu

\* The type invariant follows.
LEMMA TypeFromParts == ClientIInv => C!TypeOK
<1> SUFFICES ASSUME ClientIInv PROVE C!TypeOK
  OBVIOUS
<1>1. queue \in Seq(C!Frames) /\ DOMAIN queue = 1 .. Len(queue)
  BY LenProperties DEF ClientIInv, QueueOk
<1>2. \A i \in DOMAIN queue : queue[i].pid # "none" => queue[i].ecu \in Ecus
  BY <1>1 DEF ClientIInv, QueueOk, Owned
<1>3. QED
  BY <1>1, <1>2 DEF ClientIInv, TypeParts, C!TypeOK

\* Opening, closing, idling, the vehicle and the clock.
LEMMA OutsideStep ==
    ASSUME ClientIInv,
           \/ \E ok \in BOOLEAN : C!open(ok)
           \/ C!close \/ C!idle \/ C!NoiseArrives \/ C!Advance
           \/ \E o \in owed, complete \in BOOLEAN : C!EcuAnswers(o, complete)
    PROVE  ClientIInv'
<1> USE DEF ClientIInv
<1>1. UNCHANGED <<C!callVars, C!ecuVars, C!seenVars>>
  BY DEF C!open, C!close, C!idle, C!NoiseArrives, C!Advance, C!EcuAnswers
<1>2. C!OneEcu' /\ ChainInv'
  BY <1>1 DEF C!callVars, C!ecuVars, C!seenVars, C!OneEcu, ChainInv
<1>3. owed' \subseteq owed
  BY DEF C!open, C!close, C!idle, C!NoiseArrives, C!Advance, C!EcuAnswers
<1>4. \A o \in owed' : Owned(o)
  BY <1>3
<1>5. QueueOk(queue')
  <2>1. CASE \E ok \in BOOLEAN : C!open(ok)
    BY <2>1, QueueFacts DEF C!open
  <2>2. CASE C!close
    BY <2>2, QueueFacts DEF C!close
  <2>3. CASE C!idle
    BY <2>3, QueueFacts DEF C!idle
  <2>4. CASE C!NoiseArrives
    <3>1. C!Noise \in C!Frames /\ Owned(C!Noise)
      BY DEF C!Noise, C!Frames, Owned
    <3>2. QED
      BY <2>4, <3>1, QueueFacts DEF C!NoiseArrives, C!Arrives
  <2>5. CASE C!Advance
    BY <2>5 DEF C!Advance
  <2>6. ASSUME NEW o \in owed, NEW complete \in BOOLEAN, C!EcuAnswers(o, complete)
        PROVE  QueueOk(queue')
    <3> DEFINE f == [ecu |-> o.ecu, pid |-> o.pid, req |-> o.req, complete |-> complete]
    <3>1. o \in [ecu: Ecus, pid: C!Pids, req: Nat] /\ Owned(o)
      BY DEF TypeParts
    <3>2. f \in C!Frames /\ Owned(f)
      BY <3>1 DEF C!Frames, Owned
    <3>3. queue' = Append(queue, f) \/ queue' = queue
      BY <2>6 DEF C!EcuAnswers, C!Arrives
    <3>4. QED
      BY <3>2, <3>3, QueueFacts
  <2>7. QED
    BY <2>1, <2>2, <2>3, <2>4, <2>5, <2>6
<1>6. WaitInv' /\ now' \in Nat
  <2>1. CASE C!Advance
    BY <2>1, <1>1, ClientFacts DEF C!Advance, C!Waiting, C!callVars, WaitInv, TypeParts
  <2>2. CASE ~C!Advance
    <3>1. now' = now
      BY <2>2 DEF C!open, C!close, C!idle, C!NoiseArrives, C!EcuAnswers
    <3>2. QED
      BY <3>1, <1>1 DEF C!callVars, WaitInv, TypeParts
  <2>3. QED
    BY <2>1, <2>2
<1>7. isOpen' \in BOOLEAN
  BY DEF C!open, C!close, C!idle, C!NoiseArrives, C!Advance, C!EcuAnswers, TypeParts
<1>8. TypeParts'
  BY <1>1, <1>3, <1>6, <1>7 DEF C!callVars, C!ecuVars, C!seenVars, TypeParts
<1>9. QED
  BY <1>2, <1>4, <1>5, <1>6, <1>8

\* A request that ends without an answer.
LEMMA FailStep ==
    ASSUME ClientIInv, C!Waiting, C!requestFails,
           givenUp' = givenUp \cup {C!Current}, UNCHANGED <<now, isOpen>>,
           QueueOk(queue')
    PROVE  /\ ClientIInv'
           /\ supported' # supported =>
                primary' = primary /\ block > 1 /\ supported' = found
<1> USE DEF ClientIInv
<1>1. /\ op' = "none" /\ block' = 0 /\ found' = {}
      /\ UNCHANGED <<asked, deadline, wakeBy, primary, sources, session, owed>>
  BY DEF C!requestFails, C!return
<1>2. /\ supported' = supported \/ (block > 1 /\ supported' = found)
      /\ discovered' = discovered \/ discovered' = (block > 1)
  BY DEF C!requestFails, C!endDiscovery
<1>3. C!Current \in Nat
  BY LenProperties DEF TypeParts, C!Current
<1>4. discovered' \in BOOLEAN
  <2>1. (block > 1) \in BOOLEAN /\ discovered \in BOOLEAN
    BY DEF TypeParts
  <2>2. QED
    BY <1>2, <2>1, Zenon
<1>5. TypeParts'
  BY <1>1, <1>2, <1>3, <1>4 DEF TypeParts
<1>6. WaitInv' /\ ChainInv' /\ C!OneEcu'
  BY <1>1 DEF WaitInv, ChainInv, C!OneEcu
<1>7. QED
  BY <1>1, <1>2, <1>5, <1>6

\* Reading a frame that is no answer, and not being able to read.
LEMMA SkipStep ==
    ASSUME ClientIInv, C!skip \/ C!receiveFails
    PROVE  /\ ClientIInv'
           /\ supported' # supported =>
                primary' = primary /\ block > 1 /\ supported' = found
<1>1. CASE C!skip /\ now < deadline
  <2>1. QueueOk(queue')
    BY <1>1, QueueFacts DEF C!skip, ClientIInv
  <2>2. /\ UNCHANGED <<now, isOpen, op, asked, deadline, block, found, primary, supported,
                       discovered, owed, givenUp, sources, session>>
        /\ wakeBy' = deadline
    BY <1>1 DEF C!skip, C!ecuVars, C!seenVars, ClientIInv, TypeParts
  <2>3. QED
    BY <2>1, <2>2 DEF ClientIInv, TypeParts, WaitInv, ChainInv, C!OneEcu
<1>2. CASE C!skip /\ ~(now < deadline)
  <2>1. QueueOk(queue')
    BY <1>2, QueueFacts DEF C!skip, ClientIInv
  <2>2. /\ C!Waiting /\ givenUp' = givenUp \cup {C!Current} /\ C!requestFails
        /\ UNCHANGED <<now, isOpen>>
    BY <1>2 DEF C!skip
  <2>3. QED
    BY <2>1, <2>2, FailStep
<1>3. CASE C!receiveFails
  BY <1>3, FailStep DEF C!receiveFails, ClientIInv
<1>4. QED
  BY <1>1, <1>2, <1>3

\* A discovery starts, or cannot be sent.
LEMMA DiscoverStep ==
    ASSUME ClientIInv, C!discover
    PROVE  ClientIInv' /\ supported' = supported
<1> USE DEF ClientIInv
<1>1. /\ primary' = C!NoEcu /\ sources' = {} /\ session' = 0 /\ op = "none"
      /\ UNCHANGED <<now, isOpen, queue, found, supported, givenUp>>
  BY DEF C!discover, C!Waiting
<1>2. found = {} /\ block = 0
  BY <1>1 DEF ChainInv
<1>3. CASE C!send("discover", C!SupportedPids[1]) /\ block' = 1 /\ UNCHANGED discovered
  <2>1. C!SupportedPids[1] \in C!Pids
    BY BlockPidFacts DEF C!Pids
  <2>2. /\ op' = "discover"
        /\ asked' \in Seq(C!Pids) /\ Len(asked') > 0
        /\ asked'[Len(asked')] = C!SupportedPids[1]
        /\ deadline' \in Nat /\ wakeBy' = deadline' /\ now <= deadline' + MaxLag
        /\ owed' \subseteq [ecu: Ecus, pid: C!Pids, req: Nat]
        /\ \A p \in owed' : Owned(p)
    BY <1>3, <2>1, SendFacts
  <2>3. TypeParts'
    BY <1>1, <1>3, <2>2 DEF TypeParts
  <2>4. WaitInv' /\ ChainInv' /\ C!OneEcu' /\ QueueOk(queue')
    BY <1>1, <1>2, <1>3, <2>2 DEF WaitInv, ChainInv, C!OneEcu, TypeParts
  <2>5. QED
    BY <1>1, <2>2, <2>3, <2>4
<1>4. CASE UNCHANGED <<op, asked, deadline, wakeBy, block, owed>> /\ discovered' = FALSE
  <2>1. discovered' \in BOOLEAN
    BY <1>4
  <2>2. TypeParts'
    BY <1>1, <1>4, <2>1 DEF TypeParts
  <2>3. WaitInv' /\ ChainInv' /\ C!OneEcu' /\ QueueOk(queue')
    BY <1>1, <1>2, <1>4 DEF WaitInv, ChainInv, C!OneEcu
  <2>4. QED
    BY <1>1, <1>4, <2>2, <2>3
<1>5. QED
  BY <1>3, <1>4 DEF C!discover

\* A query is made, and answered.
LEMMA QueryStep ==
    ASSUME ClientIInv, (\E pid \in Values : C!query(pid)) \/ C!queryAnswer
    PROVE  ClientIInv' /\ supported' = supported
<1> USE DEF ClientIInv
<1>1. ASSUME NEW pid \in Values, C!query(pid)
      PROVE  ClientIInv' /\ supported' = supported
  <2>1. /\ op = "none" /\ C!send("query", pid) /\ pid \in C!Pids
        /\ UNCHANGED <<now, isOpen, queue, block, found, primary, supported, discovered,
                       givenUp, sources, session>>
    BY <1>1 DEF C!query, C!Waiting, C!Pids, C!ecuVars, C!seenVars
  <2>2. /\ op' = "query"
        /\ asked' \in Seq(C!Pids) /\ Len(asked') > 0
        /\ deadline' \in Nat /\ wakeBy' = deadline' /\ now <= deadline' + MaxLag
        /\ owed' \subseteq [ecu: Ecus, pid: C!Pids, req: Nat]
        /\ \A p \in owed' : Owned(p)
    BY <2>1, SendFacts
  <2>3. TypeParts'
    BY <2>1, <2>2 DEF TypeParts
  <2>4. WaitInv' /\ ChainInv' /\ C!OneEcu' /\ QueueOk(queue')
    BY <2>1, <2>2 DEF WaitInv, ChainInv, C!OneEcu, TypeParts
  <2>5. QED
    BY <2>1, <2>2, <2>3, <2>4
<1>2. CASE C!queryAnswer
  <2>1. C!Waiting /\ queue # <<>> /\ C!matches(Head(queue)) /\ C!use(Head(queue))
    BY <1>2 DEF C!queryAnswer, C!Waiting
  <2>2. /\ op' = "none" /\ block' = 0 /\ found' = {}
        /\ UNCHANGED <<asked, deadline, wakeBy, now, isOpen, supported, discovered, owed,
                       givenUp, session>>
    BY <1>2 DEF C!queryAnswer, C!return
  <2>3. QueueOk(queue') /\ primary' \in Ecus /\ sources' \subseteq Ecus /\ C!OneEcu'
    BY <2>1, UseFacts
  <2>4. TypeParts' /\ WaitInv' /\ ChainInv'
    BY <2>2, <2>3 DEF TypeParts, WaitInv, ChainInv
  <2>5. QED
    BY <2>2, <2>3, <2>4
<1>3. QED
  BY <1>1, <1>2

\* A block arrives: what is found is the chain so far, of the ECU that is listened to.
LEMMA BlockStep ==
    ASSUME ClientIInv, C!discoverBlock
    PROVE  /\ ClientIInv'
           /\ supported' # supported =>
                /\ primary' \in Ecus
                /\ \E n \in 1 .. Blocks(primary') : supported' = Chain(primary', n)
<1> USE DEF ClientIInv
<1> DEFINE f == Head(queue)
           all == found \cup Advert[f.ecu][block]
<1>1. /\ op = "discover" /\ C!Waiting /\ queue # <<>> /\ C!matches(f) /\ C!use(f)
      /\ UNCHANGED <<now, isOpen, givenUp>>
  BY DEF C!discoverBlock, C!Waiting
<1>2. session' \in Nat
  <2>1. C!Current \in Nat
    BY LenProperties DEF TypeParts, C!Current
  <2>2. QED
    BY <2>1 DEF C!discoverBlock
<1>3. /\ QueueOk(queue') /\ primary' = f.ecu /\ f.ecu \in Ecus
      /\ sources' \subseteq Ecus /\ C!OneEcu'
  BY <1>1, UseFacts
<1>4. /\ block \in 1 .. 7 /\ asked[Len(asked)] = C!SupportedPids[block]
      /\ block = 1 => found = {}
      /\ block > 1 => primary \in Ecus /\ found = Chain(primary, block - 1)
  BY <1>1 DEF ChainInv
<1>5. C!Answers(f.ecu, C!SupportedPids[block]) /\ (primary = C!NoEcu \/ primary = f.ecu)
  BY <1>1, <1>4, MatchFacts
<1>6. block <= Blocks(f.ecu) /\ Blocks(f.ecu) \in Nat /\ Blocks(f.ecu) <= 7
  BY <1>3, <1>4, <1>5, AnswersBlock, ClientFacts
<1>7. found = Chain(f.ecu, block - 1)
  <2>1. CASE block = 1
    <3>1. block - 1 = 0 /\ found = {}
      BY <2>1, <1>4
    <3>2. Chain(f.ecu, 0) = {}
      BY ChainFacts
    <3>3. QED
      BY <3>1, <3>2
  <2>2. CASE block > 1
    BY <2>2, <1>4, <1>5, ClientFacts
  <2>3. QED
    BY <2>1, <2>2, <1>4
<1>8. all = Chain(f.ecu, block)
  <2>1. block - 1 \in Nat /\ (block - 1) + 1 = block
    BY <1>4
  <2>2. Chain(f.ecu, (block - 1) + 1) = Chain(f.ecu, block - 1) \cup Advert[f.ecu][(block - 1) + 1]
    BY <2>1, ChainFacts
  <2>3. QED
    BY <2>1, <2>2, <1>7
<1>9. found \subseteq Values /\ all \subseteq Values
  <2>1. found \subseteq Values
    BY DEF TypeParts
  <2>2. Advert[f.ecu][block] \subseteq Values
    BY <1>3, <1>4, <1>6, ClientFacts
  <2> QED
    BY <2>1, <2>2
<1>10. CASE /\ C!nextBlockAdvertised(f) /\ found' = all /\ block' = block + 1
            /\ C!send("discover", C!SupportedPids[block + 1])
            /\ UNCHANGED <<supported, discovered>>
  <2>1. block + 1 \in 1 .. 7 /\ block + 1 <= Blocks(f.ecu)
    BY <1>10, <1>4, <1>6 DEF C!nextBlockAdvertised, Blocks
  <2>2. C!SupportedPids[block + 1] \in C!Pids
    BY <2>1, BlockPidFacts DEF C!Pids
  <2>3. /\ op' = "discover"
        /\ asked' \in Seq(C!Pids) /\ Len(asked') > 0
        /\ asked'[Len(asked')] = C!SupportedPids[block + 1]
        /\ deadline' \in Nat /\ wakeBy' = deadline' /\ now <= deadline' + MaxLag
        /\ owed' \subseteq [ecu: Ecus, pid: C!Pids, req: Nat]
        /\ \A p \in owed' : Owned(p)
    BY <1>10, <2>2, SendFacts
  <2>4. TypeParts'
    BY <1>1, <1>2, <1>3, <1>9, <1>10, <2>1, <2>3 DEF TypeParts
  <2>5. WaitInv'
    BY <1>1, <2>3 DEF WaitInv, TypeParts
  <2>6. block' - 1 = block
    BY <1>4, <1>10
  <2>7. ChainInv'
    BY <1>3, <1>4, <1>8, <1>10, <2>1, <2>3, <2>6 DEF ChainInv
  <2>8. QED
    BY <1>3, <1>10, <2>3, <2>4, <2>5, <2>7
<1>11. CASE /\ C!return
            /\ C!endDiscovery(f.complete \/ block > 1, IF f.complete THEN all ELSE found)
            /\ UNCHANGED owed
  <2>1. /\ op' = "none" /\ block' = 0 /\ found' = {} /\ UNCHANGED <<asked, deadline, wakeBy, owed>>
    BY <1>11 DEF C!return
  <2>2. /\ discovered' = (f.complete \/ block > 1)
        /\ \/ supported' = supported
           \/ supported' = all
           \/ block > 1 /\ supported' = found
    BY <1>11 DEF C!endDiscovery
  <2>3. discovered' \in BOOLEAN
    BY <2>2, Zenon
  <2>4. TypeParts' /\ WaitInv' /\ ChainInv'
    BY <1>1, <1>2, <1>3, <1>9, <2>1, <2>2, <2>3 DEF TypeParts, WaitInv, ChainInv
  <2>5. CASE supported' = all
    BY <1>3, <1>4, <1>6, <1>8, <2>1, <2>4, <2>5
  <2>6. CASE block > 1 /\ supported' = found
    <3>1. block - 1 \in 1 .. Blocks(primary')
      BY <1>3, <1>4, <1>6, <2>6
    <3>2. QED
      BY <1>3, <1>7, <2>1, <2>4, <2>6, <3>1
  <2>7. QED
    BY <1>3, <2>1, <2>2, <2>4, <2>5, <2>6
<1>12. QED
  BY <1>10, <1>11 DEF C!discoverBlock, C!supportedPidsFrom

\* Every step of the client, and what a discovery that it ends reports.
LEMMA ClientStep ==
    ASSUME ClientIInv, [BenchNext]_benchVars
    PROVE  /\ ClientIInv'
           /\ supported' # supported =>
                /\ primary' \in Ecus
                /\ \E n \in 1 .. Blocks(primary') : supported' = Chain(primary', n)
<1>1. CASE C!Next
  <2>1. CASE C!discoverBlock
    BY <2>1, BlockStep
  <2>2. CASE C!skip \/ C!receiveFails
    <3>1. ClientIInv' /\ (supported' # supported => primary' = primary /\ block > 1 /\ supported' = found)
      BY <2>2, SkipStep
    <3>2. block > 1 => /\ primary \in Ecus /\ block - 1 \in 1 .. Blocks(primary)
                       /\ found = Chain(primary, block - 1)
      BY ClientFacts DEF ClientIInv, ChainInv, TypeParts
    <3>3. QED
      BY <3>1, <3>2
  <2>3. CASE C!discover
    BY <2>3, DiscoverStep
  <2>4. CASE (\E pid \in Values : C!query(pid)) \/ C!queryAnswer
    BY <2>4, QueryStep
  <2>5. CASE \/ \E ok \in BOOLEAN : C!open(ok)
             \/ C!close \/ C!idle \/ C!NoiseArrives \/ C!Advance
             \/ \E o \in owed, complete \in BOOLEAN : C!EcuAnswers(o, complete)
    <3>1. supported' = supported
      BY <2>5 DEF C!open, C!close, C!idle, C!NoiseArrives, C!Advance, C!EcuAnswers, C!ecuVars
    <3>2. QED
      BY <2>5, <3>1, OutsideStep
  <2>6. QED
    BY <1>1, <2>1, <2>2, <2>3, <2>4, <2>5 DEF C!Next
<1>2. CASE UNCHANGED clientVars
  BY <1>2 DEF clientVars, ClientIInv, TypeParts, WaitInv, ChainInv, C!OneEcu
<1>3. QED
  BY <1>1, <1>2 DEF BenchNext, benchVars

\* The client's inductive invariant.
THEOREM ClientInvariance == BenchSpec => []ClientIInv
<1>1. BenchInit => ClientIInv
  BY ClientStarts DEF BenchInit
<1>2. ClientIInv /\ [BenchNext]_benchVars => ClientIInv'
  BY ClientStep
<1>3. QED
  BY <1>1, <1>2, PTL DEF BenchSpec

\* The client of libobd listens to one ECU from discovery to discovery, though every
\* request is answered by all of them, and a request() ends by its deadline whatever
\* arrives; for any ECUs, chains, timeouts and delays.
THEOREM ClientSafe == BenchSpec => []ClientInv
<1>1. ClientIInv => ClientInv
  BY TypeFromParts DEF ClientIInv, WaitInv, ClientInv, C!RequestBounded, C!Waiting
<1>2. QED
  BY <1>1, ClientInvariance, PTL

\* What discover() reports is what one ECU advertises in the first blocks of its chain,
\* for any ECUs and chains, however late their answers to earlier requests come.
THEOREM DiscoveryIsCoherent == BenchSpec => DiscoveryCoherent
<1> DEFINE Step == supported' # supported =>
                     \E n \in DOMAIN Advert[primary'] :
                        supported' = UNION {Advert[primary'][b] : b \in 1 .. n}
<1>1. ClientIInv /\ [BenchNext]_benchVars => [Step]_(C!vars)
  BY ClientStep, ClientFacts DEF Chain
<1> HIDE DEF Step
<1>2. BenchSpec => [][Step]_(C!vars)
  BY <1>1, ClientInvariance, PTL DEF BenchSpec
<1>3. QED
  BY <1>2 DEF Step, DiscoveryCoherent, C!DiscoveryCoherent
-----------------------------------------------------------------------------
(***************************************************************************)
(* Late answers.  What is in flight is described for any queue q, debts ow *)
(* and requests ask, as a step of the client first reads and then sends.   *)
(***************************************************************************)

\* The requests whose answer by ECU e is in the socket or may still come.
InFlight(q, ow, e) == {q[i].req : i \in {j \in 1 .. Len(q) : q[j].ecu = e}}
                      \cup {o.req : o \in {p \in ow : p.ecu = e}}

\* Each answer in the socket and each debt names a request and its PID.
Named(q, ow, ask) ==
    /\ \A i \in 1 .. Len(q) : q[i].ecu \in Ecus =>
          q[i].req \in 1 .. Len(ask) /\ ask[q[i].req] = q[i].pid
    /\ \A o \in ow : o.req \in 1 .. Len(ask) /\ ask[o.req] = o.pid

\* An ECU's answers are in the order of its requests, and before what it still owes.
Ordered(q, ow) ==
    /\ \A i, j \in 1 .. Len(q) :
          i < j /\ q[i].ecu \in Ecus /\ q[i].ecu = q[j].ecu => q[i].req < q[j].req
    /\ \A i \in 1 .. Len(q) : \A o \in ow : q[i].ecu = o.ecu => q[i].req < o.req

Flight(q, ow, ask) ==
    /\ q \in Seq(C!Frames) /\ ow \subseteq [ecu: Ecus, pid: C!Pids, req: Nat]
    /\ ask \in Seq(C!Pids)
    /\ Named(q, ow, ask) /\ Ordered(q, ow)

\* What is in flight, said without set constructors.
LEMMA InFlightFacts ==
    ASSUME NEW q, NEW ow, NEW e
    PROVE  \A h : h \in InFlight(q, ow, e) <=>
              \/ \E i \in 1 .. Len(q) : q[i].ecu = e /\ q[i].req = h
              \/ \E o \in ow : o.ecu = e /\ o.req = h
BY DEF InFlight

\* It has been asked for.
LEMMA InFlightAsked ==
    ASSUME NEW q, NEW ow, NEW ask, Flight(q, ow, ask), NEW e \in Ecus,
           NEW h \in InFlight(q, ow, e)
    PROVE  h \in 1 .. Len(ask)
<1>1. CASE \E i \in 1 .. Len(q) : q[i].ecu = e /\ q[i].req = h
  BY <1>1 DEF Flight, Named
<1>2. CASE \E o \in ow : o.ecu = e /\ o.req = h
  BY <1>2 DEF Flight, Named
<1>3. QED
  BY <1>1, <1>2, InFlightFacts

\* Emptying the socket.
LEMMA FlightEmptied ==
    ASSUME NEW q, NEW ow, NEW ask, Flight(q, ow, ask)
    PROVE  /\ Flight(<<>>, ow, ask)
           /\ \A e : InFlight(<<>>, ow, e) \subseteq InFlight(q, ow, e)
<1>1. <<>> \in Seq(C!Frames) /\ Len(<<>>) = 0 /\ 1 .. 0 = {}
  BY EmptySeq
<1>2. Flight(<<>>, ow, ask)
  BY <1>1 DEF Flight, Named, Ordered
<1>3. ASSUME NEW e, NEW h \in InFlight(<<>>, ow, e)
      PROVE  h \in InFlight(q, ow, e)
  <2>1. \E o \in ow : o.ecu = e /\ o.req = h
    BY <1>1, <1>3, InFlightFacts
  <2> QED
    BY <2>1, InFlightFacts
<1>4. QED
  BY <1>2, <1>3

\* Reading a frame: what remains in flight from its ECU was asked later.
LEMMA FlightRead ==
    ASSUME NEW q, NEW ow, NEW ask, Flight(q, ow, ask), q # <<>>
    PROVE  /\ Flight(Tail(q), ow, ask)
           /\ \A e : InFlight(Tail(q), ow, e) \subseteq InFlight(q, ow, e)
           /\ Head(q).ecu \in Ecus =>
                 /\ Head(q).req \in InFlight(q, ow, Head(q).ecu)
                 /\ ask[Head(q).req] = Head(q).pid
                 /\ \A h \in InFlight(Tail(q), ow, Head(q).ecu) : Head(q).req < h
<1> DEFINE t == Tail(q)
           f == Head(q)
<1>1. /\ Len(q) \in Nat \ {0} /\ f = q[1] /\ f \in C!Frames
      /\ t \in Seq(C!Frames) /\ Len(t) = Len(q) - 1
      /\ \A i \in 1 .. Len(q) - 1 : t[i] = q[i + 1]
  BY HeadTailProperties, EmptySeq DEF Flight
<1> HIDE DEF t, f
<1>2. ASSUME NEW i \in 1 .. Len(t)
      PROVE  i + 1 \in 1 .. Len(q) /\ t[i] = q[i + 1] /\ 1 < i + 1
  BY <1>1
<1>3. 1 \in 1 .. Len(q)
  BY <1>1
<1>4. Named(t, ow, ask)
  BY <1>2 DEF Flight, Named
<1>5. Ordered(t, ow)
  <2>1. ASSUME NEW i \in 1 .. Len(t), NEW j \in 1 .. Len(t), i < j,
               t[i].ecu \in Ecus, t[i].ecu = t[j].ecu
        PROVE  t[i].req < t[j].req
    <3>1. i + 1 < j + 1
      BY <1>1, <2>1
    <3> QED
      BY <1>2, <2>1, <3>1 DEF Flight, Ordered
  <2>2. ASSUME NEW i \in 1 .. Len(t), NEW o \in ow, t[i].ecu = o.ecu
        PROVE  t[i].req < o.req
    BY <1>2, <2>2 DEF Flight, Ordered
  <2> QED
    BY <2>1, <2>2 DEF Ordered
<1>6. Flight(t, ow, ask)
  BY <1>1, <1>4, <1>5 DEF Flight
<1>7. ASSUME NEW e, NEW h \in InFlight(t, ow, e)
      PROVE  h \in InFlight(q, ow, e)
  <2>1. CASE \E i \in 1 .. Len(t) : t[i].ecu = e /\ t[i].req = h
    <3>1. \E i \in 1 .. Len(q) : q[i].ecu = e /\ q[i].req = h
      BY <1>2, <2>1
    <3> QED
      BY <3>1, InFlightFacts
  <2>2. CASE \E o \in ow : o.ecu = e /\ o.req = h
    BY <2>2, InFlightFacts
  <2> QED
    BY <1>7, <2>1, <2>2, InFlightFacts
<1>8. ASSUME f.ecu \in Ecus
      PROVE  /\ f.req \in InFlight(q, ow, f.ecu)
             /\ ask[f.req] = f.pid
             /\ \A h \in InFlight(t, ow, f.ecu) : f.req < h
  <2>1. \E i \in 1 .. Len(q) : q[i].ecu = f.ecu /\ q[i].req = f.req
    BY <1>1, <1>3
  <2>2. f.req \in InFlight(q, ow, f.ecu)
    BY <2>1, InFlightFacts
  <2>3. ask[f.req] = f.pid
    BY <1>1, <1>3, <1>8 DEF Flight, Named
  <2>4. ASSUME NEW h \in InFlight(t, ow, f.ecu)
        PROVE  f.req < h
    <3>1. CASE \E i \in 1 .. Len(t) : t[i].ecu = f.ecu /\ t[i].req = h
      BY <1>1, <1>2, <1>3, <1>8, <3>1 DEF Flight, Ordered
    <3>2. CASE \E o \in ow : o.ecu = f.ecu /\ o.req = h
      BY <1>1, <1>3, <1>8, <3>2 DEF Flight, Ordered
    <3> QED
      BY <3>1, <3>2, InFlightFacts
  <2> QED
    BY <2>2, <2>3, <2>4
<1> QED
  BY <1>6, <1>7, <1>8 DEF t, f

\* Some debts are dropped.
LEMMA FlightDropped ==
    ASSUME NEW q, NEW ow, NEW ask, Flight(q, ow, ask), NEW less \in SUBSET ow
    PROVE  /\ Flight(q, less, ask)
           /\ \A e : InFlight(q, less, e) \subseteq InFlight(q, ow, e)
<1>1. Flight(q, less, ask)
  BY DEF Flight, Named, Ordered
<1>2. ASSUME NEW e, NEW h \in InFlight(q, less, e)
      PROVE  h \in InFlight(q, ow, e)
  BY InFlightFacts
<1> QED
  BY <1>1, <1>2

\* A frame arrives that no ECU it listens to has sent.
LEMMA FlightNoise ==
    ASSUME NEW q, NEW ow, NEW ask, Flight(q, ow, ask)
    PROVE  /\ Flight(Append(q, C!Noise), ow, ask)
           /\ \A e \in Ecus : InFlight(Append(q, C!Noise), ow, e) \subseteq InFlight(q, ow, e)
<1> DEFINE f == C!Noise
           t == Append(q, f)
<1>1. f \in C!Frames /\ f.ecu \notin Ecus
  BY ClientFacts DEF C!Noise, C!Frames
<1> HIDE DEF f
<1>2. /\ t \in Seq(C!Frames) /\ Len(q) \in Nat /\ Len(t) = Len(q) + 1
      /\ \A i \in 1 .. Len(q) : t[i] = q[i]
      /\ t[Len(q) + 1] = f
  BY <1>1, AppendProperties, LenProperties DEF Flight
<1> HIDE DEF t
<1>3. ASSUME NEW i \in 1 .. Len(t), t[i].ecu \in Ecus
      PROVE  i \in 1 .. Len(q) /\ t[i] = q[i]
  BY <1>1, <1>2, <1>3
<1>4. Named(t, ow, ask)
  BY <1>3 DEF Flight, Named
<1>5. Ordered(t, ow)
  <2>1. \A o \in ow : o.ecu \in Ecus
    BY DEF Flight
  <2> QED
    BY <1>3, <2>1 DEF Flight, Ordered
<1>6. ASSUME NEW e \in Ecus, NEW h \in InFlight(t, ow, e)
      PROVE  h \in InFlight(q, ow, e)
  <2>1. CASE \E i \in 1 .. Len(t) : t[i].ecu = e /\ t[i].req = h
    <3>1. \E i \in 1 .. Len(q) : q[i].ecu = e /\ q[i].req = h
      BY <1>3, <2>1
    <3> QED
      BY <3>1, InFlightFacts
  <2>2. CASE \E o \in ow : o.ecu = e /\ o.req = h
    BY <2>2, InFlightFacts
  <2> QED
    BY <1>6, <2>1, <2>2, InFlightFacts
<1>7. Flight(t, ow, ask)
  BY <1>2, <1>4, <1>5 DEF Flight
<1> QED
  BY <1>6, <1>7 DEF t, f

\* An ECU answers a request, and never those before it.
LEMMA FlightAnswered ==
    ASSUME NEW q, NEW ow, NEW ask, Flight(q, ow, ask), NEW o \in ow, NEW f \in C!Frames,
           f.ecu = o.ecu, f.req = o.req, f.pid = o.pid, NEW less \in SUBSET ow,
           \A p \in less : p.ecu = o.ecu => p.req > o.req
    PROVE  /\ Flight(Append(q, f), less, ask)
           /\ \A e \in Ecus : InFlight(Append(q, f), less, e) \subseteq InFlight(q, ow, e)
<1> DEFINE t == Append(q, f)
<1>1. o \in [ecu: Ecus, pid: C!Pids, req: Nat]
  BY DEF Flight
<1>2. /\ t \in Seq(C!Frames) /\ Len(q) \in Nat /\ Len(t) = Len(q) + 1
      /\ \A i \in 1 .. Len(q) : t[i] = q[i]
      /\ t[Len(q) + 1] = f
  BY AppendProperties, LenProperties DEF Flight
<1> HIDE DEF t
<1>3. ASSUME NEW i \in 1 .. Len(t)
      PROVE  (i \in 1 .. Len(q) /\ t[i] = q[i]) \/ (i = Len(q) + 1 /\ t[i] = f)
  BY <1>2
<1>4. Named(t, less, ask)
  <2>1. o.req \in 1 .. Len(ask) /\ ask[o.req] = o.pid
    BY DEF Flight, Named
  <2> QED
    BY <1>3, <2>1 DEF Flight, Named
<1>5. Ordered(t, less)
  <2>1. ASSUME NEW i \in 1 .. Len(t), NEW j \in 1 .. Len(t), i < j,
               t[i].ecu \in Ecus, t[i].ecu = t[j].ecu
        PROVE  t[i].req < t[j].req
    <3>1. i \in 1 .. Len(q) /\ t[i] = q[i]
      BY <1>2, <2>1
    <3>2. CASE j \in 1 .. Len(q) /\ t[j] = q[j]
      BY <2>1, <3>1, <3>2 DEF Flight, Ordered
    <3>3. CASE t[j] = f
      BY <2>1, <3>1, <3>3 DEF Flight, Ordered
    <3> QED
      BY <1>3, <3>2, <3>3
  <2>2. ASSUME NEW i \in 1 .. Len(t), NEW p \in less, t[i].ecu = p.ecu
        PROVE  t[i].req < p.req
    <3>1. CASE i \in 1 .. Len(q) /\ t[i] = q[i]
      BY <2>2, <3>1 DEF Flight, Ordered
    <3>2. CASE t[i] = f
      <4>1. p \in [ecu: Ecus, pid: C!Pids, req: Nat] /\ p.req > o.req
        BY <2>2, <3>2 DEF Flight
      <4> QED
        BY <1>1, <3>2, <4>1
    <3> QED
      BY <1>3, <3>1, <3>2
  <2> QED
    BY <2>1, <2>2 DEF Ordered
<1>6. ASSUME NEW e \in Ecus, NEW h \in InFlight(t, less, e)
      PROVE  h \in InFlight(q, ow, e)
  <2>1. CASE \E i \in 1 .. Len(t) : t[i].ecu = e /\ t[i].req = h
    <3>1. \/ \E i \in 1 .. Len(q) : q[i].ecu = e /\ q[i].req = h
          \/ \E p \in ow : p.ecu = e /\ p.req = h
      BY <1>3, <2>1
    <3> QED
      BY <3>1, InFlightFacts
  <2>2. CASE \E p \in less : p.ecu = e /\ p.req = h
    BY <2>2, InFlightFacts
  <2> QED
    BY <1>6, <2>1, <2>2, InFlightFacts
<1>7. Flight(t, less, ask)
  BY <1>2, <1>4, <1>5 DEF Flight
<1> QED
  BY <1>6, <1>7 DEF t

\* A request is sent.
LEMMA FlightSent ==
    ASSUME NEW q, NEW ow, NEW ask, Flight(q, ow, ask), NEW pid \in C!Pids, NEW more,
           more \subseteq [ecu: Ecus, pid: C!Pids, req: Nat],
           \A p \in more : p \in ow \/ (p.pid = pid /\ p.req = Len(ask) + 1)
    PROVE  /\ Flight(q, more, Append(ask, pid))
           /\ \A e : InFlight(q, more, e) \subseteq InFlight(q, ow, e) \cup {Len(ask) + 1}
<1> DEFINE a == Append(ask, pid)
<1>1. /\ a \in Seq(C!Pids) /\ Len(ask) \in Nat /\ Len(a) = Len(ask) + 1
      /\ \A i \in 1 .. Len(ask) : a[i] = ask[i]
      /\ a[Len(ask) + 1] = pid
  BY AppendProperties, LenProperties DEF Flight
<1> HIDE DEF a
<1>2. Named(q, more, a)
  <2>1. ASSUME NEW i \in 1 .. Len(q), q[i].ecu \in Ecus
        PROVE  q[i].req \in 1 .. Len(a) /\ a[q[i].req] = q[i].pid
    BY <1>1, <2>1 DEF Flight, Named
  <2>2. ASSUME NEW o \in more
        PROVE  o.req \in 1 .. Len(a) /\ a[o.req] = o.pid
    <3>1. CASE o \in ow
      BY <1>1, <3>1 DEF Flight, Named
    <3>2. CASE o.pid = pid /\ o.req = Len(ask) + 1
      BY <1>1, <3>2
    <3> QED
      BY <3>1, <3>2
  <2> QED
    BY <2>1, <2>2 DEF Named
<1>3. Ordered(q, more)
  <2>1. ASSUME NEW i \in 1 .. Len(q), NEW o \in more, q[i].ecu = o.ecu
        PROVE  q[i].req < o.req
    <3>1. CASE o \in ow
      BY <2>1, <3>1 DEF Flight, Ordered
    <3>2. CASE o.req = Len(ask) + 1
      <4>1. q[i].req \in 1 .. Len(ask)
        BY <2>1 DEF Flight, Named
      <4> QED
        BY <1>1, <3>2, <4>1
    <3> QED
      BY <3>1, <3>2
  <2> QED
    BY <2>1 DEF Flight, Ordered
<1>4. ASSUME NEW e, NEW h \in InFlight(q, more, e)
      PROVE  h \in InFlight(q, ow, e) \cup {Len(ask) + 1}
  BY InFlightFacts
<1>5. Flight(q, more, a)
  BY <1>1, <1>2, <1>3 DEF Flight
<1> QED
  BY <1>4, <1>5 DEF a

\* The requests from h on for the PID of h; and those in pend after s for pid.
Since(ask, h) == {r \in h .. Len(ask) : ask[r] = ask[h]}
Lost(ask, pend, s, pid) == {r \in pend : r > s /\ ask[r] = pid}

\* Requests that have no answer: those given up and the one that is waited for.
Pending == givenUp \cup (IF op # "none" THEN {Len(asked)} ELSE {})

\* An answer to h would be behind by less than the requests for its PID without answer.
Paid(ask, pend, s, h) ==
    /\ h > s
    /\ Cardinality(Since(ask, h)) <= Cardinality(Lost(ask, pend, s, ask[h]))

GivenUpInv ==
    /\ givenUp \subseteq 1 .. Len(asked)
    /\ op # "none" => Len(asked) \in Nat \ givenUp
    /\ session <= Len(asked)

\* In a session, whatever its ECU may still answer is paid for.
PaidInv ==
    session > 0 =>
        /\ primary \in Ecus
        /\ \A h \in InFlight(queue, owed, primary) : Paid(asked, Pending, session, h)

LagInv == Flight(queue, owed, asked) /\ GivenUpInv /\ PaidInv

\* Both sets are finite.
LEMMA CountFacts ==
    ASSUME NEW ask, Len(ask) \in Nat, NEW h \in Nat, h >= 1,
           NEW pend \in SUBSET (1 .. Len(ask)), NEW s, NEW pid
    PROVE  /\ IsFiniteSet(Since(ask, h)) /\ Cardinality(Since(ask, h)) \in Nat
           /\ IsFiniteSet(Lost(ask, pend, s, pid))
           /\ Cardinality(Lost(ask, pend, s, pid)) \in Nat
<1>1. IsFiniteSet(1 .. Len(ask))
  BY FS_Interval
<1>2. Since(ask, h) \in SUBSET (1 .. Len(ask))
  BY DEF Since
<1>3. Lost(ask, pend, s, pid) \in SUBSET (1 .. Len(ask))
  BY DEF Lost
<1>4. IsFiniteSet(Since(ask, h)) /\ IsFiniteSet(Lost(ask, pend, s, pid))
  BY <1>1, <1>2, <1>3, FS_Subset
<1> QED
  BY <1>4, FS_CardinalityType

\* Sending a request adds to both sides, or to neither.
LEMMA PaidSent ==
    ASSUME NEW ask \in Seq(C!Pids), NEW pid \in C!Pids,
           NEW pend \in SUBSET (1 .. Len(ask)), NEW s \in Nat, s <= Len(ask)
    PROVE  /\ \A h \in 1 .. Len(ask) : Paid(ask, pend, s, h) =>
                 Paid(Append(ask, pid), pend \cup {Len(ask) + 1}, s, h)
           /\ Paid(Append(ask, pid), pend \cup {Len(ask) + 1}, s, Len(ask) + 1)
<1> DEFINE n == Len(ask)
           a == Append(ask, pid)
           more == pend \cup {n + 1}
<1>1. /\ n \in Nat /\ Len(a) = n + 1 /\ a[n + 1] = pid
      /\ \A i \in 1 .. n : a[i] = ask[i]
  BY AppendProperties, LenProperties
<1>2. \A r \in pend : r \in 1 .. n /\ a[r] = ask[r] /\ r # n + 1
  BY <1>1
<1>5. more \in SUBSET (1 .. Len(a))
  <2>1. n + 1 \in 1 .. (n + 1) /\ \A r \in pend : r \in 1 .. (n + 1)
    BY <1>1, <1>2
  <2>2. n + 1 \in 1 .. Len(a) /\ \A r \in pend : r \in 1 .. Len(a)
    BY <1>1, <2>1
  <2> HIDE DEF n, a
  <2> QED
    BY <2>2
<1>6. n + 1 > s /\ n + 1 \notin pend
  BY <1>1, <1>2
<1> HIDE DEF a
<1>3. ASSUME NEW h \in 1 .. n, Paid(ask, pend, s, h)
      PROVE  Paid(a, more, s, h)
  <2>1. /\ IsFiniteSet(Since(ask, h)) /\ Cardinality(Since(ask, h)) \in Nat
        /\ IsFiniteSet(Lost(ask, pend, s, ask[h]))
        /\ Cardinality(Lost(ask, pend, s, ask[h])) \in Nat
    BY <1>1, CountFacts
  <2>2. n + 1 \notin Since(ask, h) /\ n + 1 \notin Lost(ask, pend, s, ask[h]) /\ a[h] = ask[h]
    BY <1>1, <1>6 DEF Since, Lost
  <2>3. CASE ask[h] = pid
    <3>1. Since(a, h) = Since(ask, h) \cup {n + 1}
      BY <1>1, <2>3 DEF Since
    <3>2. Lost(a, more, s, ask[h]) = Lost(ask, pend, s, ask[h]) \cup {n + 1}
      BY <1>1, <1>2, <1>6, <2>3 DEF Lost
    <3>3. /\ Cardinality(Since(a, h)) = Cardinality(Since(ask, h)) + 1
          /\ Cardinality(Lost(a, more, s, ask[h])) = Cardinality(Lost(ask, pend, s, ask[h])) + 1
      BY <2>1, <2>2, <3>1, <3>2, FS_AddElement
    <3> HIDE DEF more
    <3> QED
      BY <1>3, <2>1, <2>2, <3>3 DEF Paid
  <2>4. CASE ask[h] # pid
    <3>1. Since(a, h) = Since(ask, h)
      BY <1>1, <2>4 DEF Since
    <3>2. Lost(a, more, s, ask[h]) = Lost(ask, pend, s, ask[h])
      BY <1>1, <1>2, <2>4 DEF Lost
    <3> QED
      BY <1>3, <2>2, <3>1, <3>2 DEF Paid
  <2> QED
    BY <2>3, <2>4
<1>4. Paid(a, more, s, n + 1)
  <2>1. Since(a, n + 1) = {} \cup {n + 1}
    BY <1>1 DEF Since
  <2>2. Cardinality(Since(a, n + 1)) = 1
    <3>1. IsFiniteSet({}) /\ Cardinality({}) = 0 /\ n + 1 \notin {}
      BY FS_EmptySet
    <3>2. Cardinality({} \cup {n + 1}) = Cardinality({}) + 1
      BY <3>1, FS_AddElement
    <3>3. Cardinality({} \cup {n + 1}) = 1
      BY <3>1, <3>2
    <3> QED
      BY <2>1, <3>3, Zenon
  <2>3. n + 1 \in Lost(a, more, s, pid)
    BY <1>1, <1>6 DEF Lost
  <2>4. /\ IsFiniteSet(Lost(a, more, s, pid)) /\ Cardinality(Lost(a, more, s, pid)) \in Nat
    BY <1>1, <1>5, CountFacts
  <2>5. Cardinality(Lost(a, more, s, pid)) # 0
    BY <2>3, <2>4, FS_EmptySet
  <2> HIDE DEF more
  <2> QED
    BY <1>1, <2>2, <2>4, <2>5 DEF Paid
<1> QED
  BY <1>3, <1>4 DEF a

\* An answer that is used is paid for by others than the request it is used for, and
\* leaves those to later requests paid for.
LEMMA PaidUsed ==
    ASSUME NEW ask \in Seq(C!Pids), NEW gone \in SUBSET (1 .. Len(ask)),
           Len(ask) \in 1 .. Len(ask), Len(ask) \notin gone, NEW s \in Nat,
           s < Len(ask), NEW u \in 1 .. Len(ask), ask[u] = ask[Len(ask)],
           Paid(ask, gone \cup {Len(ask)}, s, u)
    PROVE  /\ Cardinality(Since(ask, u) \ {u}) <= Cardinality(Lost(ask, gone, s, ask[u]))
           /\ \A h \in 1 .. Len(ask) :
                 u < h /\ Paid(ask, gone \cup {Len(ask)}, s, h) => Paid(ask, gone, s, h)
<1> DEFINE n == Len(ask)
           pend == gone \cup {n}
<1>1. n \in Nat /\ n >= 1 /\ n \in 1 .. n
  BY LenProperties
<1>2. /\ IsFiniteSet(Since(ask, u)) /\ Cardinality(Since(ask, u)) \in Nat
      /\ IsFiniteSet(Lost(ask, gone, s, ask[u]))
      /\ Cardinality(Lost(ask, gone, s, ask[u])) \in Nat
  BY <1>1, CountFacts
<1>3. u \in Since(ask, u) /\ n \notin Lost(ask, gone, s, ask[u])
  BY <1>1 DEF Since, Lost
<1>4. Lost(ask, pend, s, ask[u]) = Lost(ask, gone, s, ask[u]) \cup {n}
  BY <1>1 DEF Lost
<1>5. Cardinality(Lost(ask, pend, s, ask[u])) = Cardinality(Lost(ask, gone, s, ask[u])) + 1
  BY <1>2, <1>3, <1>4, FS_AddElement
<1>6. /\ IsFiniteSet(Since(ask, u) \ {u})
      /\ Cardinality(Since(ask, u) \ {u}) = Cardinality(Since(ask, u)) - 1
  BY <1>2, <1>3, FS_RemoveElement
<1> HIDE DEF pend
<1>7. Cardinality(Since(ask, u) \ {u}) <= Cardinality(Lost(ask, gone, s, ask[u]))
  BY <1>2, <1>5, <1>6 DEF Paid, pend
<1>8. ASSUME NEW h \in 1 .. n, u < h, Paid(ask, pend, s, h)
      PROVE  Paid(ask, gone, s, h)
  <2>1. CASE ask[h] = ask[u]
    <3>1. Since(ask, h) \in SUBSET (Since(ask, u) \ {u})
      BY <1>1, <1>8, <2>1 DEF Since
    <3>2. /\ Cardinality(Since(ask, h)) <= Cardinality(Since(ask, u) \ {u})
      BY <1>6, <3>1, FS_Subset
    <3>3. Cardinality(Since(ask, h)) \in Nat /\ Cardinality(Since(ask, u) \ {u}) \in Nat
      <4>1. h \in Nat /\ h >= 1 /\ gone \in SUBSET (1 .. Len(ask))
        BY <1>1
      <4>2. Cardinality(Since(ask, h)) \in Nat
        BY <1>1, <4>1, CountFacts
      <4> QED
        BY <1>6, <4>2, FS_CardinalityType
    <3> QED
      BY <1>2, <1>7, <1>8, <2>1, <3>2, <3>3 DEF Paid
  <2>2. CASE ask[h] # ask[u]
    <3>1. Lost(ask, pend, s, ask[h]) = Lost(ask, gone, s, ask[h])
      BY <2>2 DEF Lost, pend
    <3> QED
      BY <1>8, <3>1 DEF Paid
  <2> QED
    BY <2>1, <2>2
<1> QED
  BY <1>7, <1>8 DEF pend

\* Nothing new in flight, and the same requests without answer.
LEMMA PaidKept ==
    ASSUME PaidInv, UNCHANGED <<asked, session, primary>>, Pending' = Pending,
           \A e \in Ecus : InFlight(queue', owed', e) \subseteq InFlight(queue, owed, e)
    PROVE  PaidInv'
BY DEF PaidInv

LEMMA LagStarts == C!Init => LagInv
<1> SUFFICES ASSUME C!Init PROVE LagInv
  OBVIOUS
<1>1. asked \in Seq(C!Pids) /\ queue \in Seq(C!Frames) /\ Len(asked) = 0 /\ 1 .. 0 = {}
  BY EmptySeq DEF C!Init
<1>2. Flight(queue, owed, asked)
  BY <1>1 DEF C!Init, Flight, Named, Ordered
<1>3. GivenUpInv /\ PaidInv
  BY <1>1 DEF C!Init, GivenUpInv, PaidInv
<1> QED
  BY <1>2, <1>3 DEF LagInv

\* Opening, closing, idling, the vehicle and the clock.
LEMMA LagOutside ==
    ASSUME ClientIInv, LagInv,
           \/ \E ok \in BOOLEAN : C!open(ok)
           \/ C!close \/ C!idle \/ C!NoiseArrives \/ C!Advance
           \/ \E o \in owed, complete \in BOOLEAN : C!EcuAnswers(o, complete)
    PROVE  LagInv'
<1>1. UNCHANGED <<op, asked, givenUp, session, primary>>
  BY DEF C!open, C!close, C!idle, C!NoiseArrives, C!Advance, C!EcuAnswers,
         C!callVars, C!ecuVars, C!seenVars
<1>2. /\ Flight(queue', owed', asked)
      /\ \A e \in Ecus : InFlight(queue', owed', e) \subseteq InFlight(queue, owed, e)
  <2>0. Flight(queue, owed, asked)
    BY DEF LagInv
  <2>1. CASE (\E ok \in BOOLEAN : C!open(ok)) \/ C!close
    <3>1. queue' = <<>> /\ owed' = owed
      BY <2>1 DEF C!open, C!close
    <3> QED
      BY <2>0, <3>1, FlightEmptied
  <2>2. CASE C!idle
    <3>1. queue # <<>> /\ queue' = Tail(queue) /\ owed' = owed
      BY <2>2 DEF C!idle
    <3> QED
      BY <2>0, <3>1, FlightRead
  <2>3. CASE C!NoiseArrives
    <3>1. (queue' = Append(queue, C!Noise) \/ queue' = queue) /\ owed' = owed
      BY <2>3 DEF C!NoiseArrives, C!Arrives
    <3> QED
      BY <2>0, <3>1, FlightNoise
  <2>4. CASE C!Advance
    BY <2>0, <2>4 DEF C!Advance
  <2>5. ASSUME NEW o \in owed, NEW complete \in BOOLEAN, C!EcuAnswers(o, complete)
        PROVE  /\ Flight(queue', owed', asked)
               /\ \A e \in Ecus : InFlight(queue', owed', e) \subseteq InFlight(queue, owed, e)
    <3> DEFINE f == [ecu |-> o.ecu, pid |-> o.pid, req |-> o.req, complete |-> complete]
    <3>1. /\ queue' = Append(queue, f) \/ queue' = queue
          /\ owed' = {p \in owed : p.ecu = o.ecu => p.req > o.req}
      BY <2>5 DEF C!EcuAnswers, C!Arrives
    <3>2. o \in [ecu: Ecus, pid: C!Pids, req: Nat]
      BY DEF ClientIInv, TypeParts
    <3>3. f \in C!Frames /\ f.ecu = o.ecu /\ f.req = o.req /\ f.pid = o.pid
      BY <3>2 DEF C!Frames
    <3> HIDE DEF f
    <3>4. owed' \in SUBSET owed /\ \A p \in owed' : p.ecu = o.ecu => p.req > o.req
      BY <3>1
    <3>5. CASE queue' = queue
      BY <2>0, <3>4, <3>5, FlightDropped
    <3>6. CASE queue' = Append(queue, f)
      BY <2>0, <3>3, <3>4, <3>6, FlightAnswered
    <3> QED
      BY <3>1, <3>5, <3>6
  <2> QED
    BY <2>1, <2>2, <2>3, <2>4, <2>5
<1>3. GivenUpInv' /\ Pending' = Pending
  BY <1>1 DEF LagInv, GivenUpInv, Pending
<1>4. PaidInv'
  BY <1>1, <1>2, <1>3, PaidKept DEF LagInv
<1> QED
  BY <1>1, <1>2, <1>3, <1>4 DEF LagInv

\* Reading a frame that is no answer, and giving a request up: it stays one without
\* answer.
LEMMA LagSkip ==
    ASSUME ClientIInv, LagInv, C!skip \/ C!receiveFails
    PROVE  LagInv'
<1>1. UNCHANGED <<asked, session, primary, owed>> /\ op # "none"
  BY DEF C!skip, C!receiveFails, C!requestFails, C!return, C!ecuVars, C!seenVars, C!Waiting
<1>2. queue' = queue \/ (queue # <<>> /\ queue' = Tail(queue))
  BY DEF C!skip, C!receiveFails
<1>3. \/ op' = op /\ givenUp' = givenUp
      \/ op' = "none" /\ givenUp' = givenUp \cup {Len(asked)}
  BY DEF C!skip, C!receiveFails, C!requestFails, C!return, C!seenVars, C!Current
<1>4. Len(asked) \in 1 .. Len(asked)
  BY <1>1, LenProperties DEF ClientIInv, TypeParts, WaitInv
<1>5. /\ Flight(queue', owed, asked)
      /\ \A e \in Ecus : InFlight(queue', owed, e) \subseteq InFlight(queue, owed, e)
  <2>1. Flight(queue, owed, asked)
    BY DEF LagInv
  <2>2. CASE queue' = queue
    BY <2>1, <2>2
  <2>3. CASE queue # <<>> /\ queue' = Tail(queue)
    BY <2>1, <2>3, FlightRead
  <2> QED
    BY <1>2, <2>2, <2>3
<1>6. GivenUpInv' /\ Pending' = Pending
  BY <1>1, <1>3, <1>4 DEF LagInv, GivenUpInv, Pending
<1>7. PaidInv'
  BY <1>1, <1>5, <1>6, PaidKept DEF LagInv
<1> QED
  BY <1>1, <1>5, <1>6, <1>7 DEF LagInv

\* What send() puts in flight.
LEMMA FlightSends ==
    ASSUME ClientIInv, NEW q, Flight(q, owed, asked), NEW o, NEW pid \in C!Pids,
           C!send(o, pid)
    PROVE  /\ Flight(q, owed', asked') /\ asked' = Append(asked, pid)
           /\ op' = o /\ Len(asked) \in Nat /\ Len(asked') = Len(asked) + 1
           /\ \A e : InFlight(q, owed', e) \subseteq InFlight(q, owed, e) \cup {Len(asked) + 1}
<1>1. asked \in Seq(C!Pids) /\ asked' = Append(asked, pid) /\ op' = o
  BY DEF ClientIInv, TypeParts, C!send
<1>2. Len(asked) \in Nat /\ Len(asked') = Len(asked) + 1
  BY <1>1, AppendProperties, LenProperties
<1>3. owed' \subseteq [ecu: Ecus, pid: C!Pids, req: Nat]
  BY SendFacts
<1>4. \A p \in owed' : p \in owed \/ (p.pid = pid /\ p.req = Len(asked) + 1)
  BY DEF C!send
<1> QED
  BY <1>1, <1>2, <1>3, <1>4, FlightSent

\* A discovery starts a session anew.
LEMMA LagDiscover ==
    ASSUME ClientIInv, LagInv, C!discover
    PROVE  LagInv'
<1>0. Flight(queue, owed, asked) /\ GivenUpInv
  BY DEF LagInv
<1>1. session' = 0 /\ op = "none" /\ UNCHANGED <<queue, givenUp>>
  BY DEF C!discover, C!Waiting
<1>2. PaidInv'
  BY <1>1 DEF PaidInv
<1>3. CASE C!send("discover", C!SupportedPids[1])
  <2>1. C!SupportedPids[1] \in C!Pids
    BY BlockPidFacts DEF C!Pids
  <2>2. /\ Flight(queue, owed', asked')
        /\ Len(asked) \in Nat /\ Len(asked') = Len(asked) + 1
    BY <1>0, <1>3, <2>1, FlightSends
  <2>3. GivenUpInv'
    BY <1>0, <1>1, <2>2 DEF GivenUpInv
  <2> QED
    BY <1>1, <1>2, <2>2, <2>3 DEF LagInv
<1>4. CASE UNCHANGED <<op, asked, owed>>
  <2>1. GivenUpInv'
    <3>1. Len(asked) \in Nat
      BY LenProperties DEF ClientIInv, TypeParts
    <3> QED
      BY <1>0, <1>1, <1>4, <3>1 DEF GivenUpInv
  <2> QED
    BY <1>0, <1>1, <1>2, <1>4, <2>1 DEF LagInv
<1> QED
  BY <1>3, <1>4 DEF C!discover

\* A query is sent.
LEMMA LagQuery ==
    ASSUME ClientIInv, LagInv, NEW pid \in Values, C!query(pid)
    PROVE  LagInv'
<1>0. Flight(queue, owed, asked) /\ GivenUpInv /\ PaidInv
  BY DEF LagInv
<1>1. /\ op = "none" /\ C!send("query", pid) /\ pid \in C!Pids
      /\ UNCHANGED <<queue, givenUp, session, primary>>
  BY DEF C!query, C!Waiting, C!Pids, C!ecuVars, C!seenVars
<1>2. /\ Flight(queue, owed', asked') /\ asked' = Append(asked, pid)
      /\ op' = "query" /\ Len(asked) \in Nat /\ Len(asked') = Len(asked) + 1
      /\ \A e : InFlight(queue, owed', e) \subseteq InFlight(queue, owed, e) \cup {Len(asked) + 1}
  BY <1>0, <1>1, FlightSends
<1>3. GivenUpInv'
  <2>1. Len(asked') \in Nat \ givenUp /\ 1 .. Len(asked) \subseteq 1 .. Len(asked')
    BY <1>0, <1>1, <1>2 DEF GivenUpInv
  <2>2. session <= Len(asked')
    BY <1>0, <1>2 DEF GivenUpInv, ClientIInv, TypeParts
  <2> QED
    BY <1>0, <1>1, <2>1, <2>2 DEF GivenUpInv
<1>4. Pending = givenUp /\ Pending' = givenUp \cup {Len(asked) + 1}
  BY <1>1, <1>2 DEF Pending
<1>5. PaidInv'
  <2> SUFFICES ASSUME session > 0
               PROVE  /\ primary \in Ecus
                      /\ \A h \in InFlight(queue, owed', primary) :
                            Paid(asked', Pending', session, h)
    BY <1>1 DEF PaidInv
  <2>1. /\ primary \in Ecus
        /\ \A h \in InFlight(queue, owed, primary) : Paid(asked, givenUp, session, h)
    BY <1>0, <1>4 DEF PaidInv
  <2>2. /\ givenUp \in SUBSET (1 .. Len(asked)) /\ session \in Nat /\ session <= Len(asked)
        /\ asked \in Seq(C!Pids)
    BY <1>0 DEF GivenUpInv, ClientIInv, TypeParts
  <2>3. /\ \A h \in 1 .. Len(asked) :
              Paid(asked, givenUp, session, h) => Paid(asked', Pending', session, h)
        /\ Paid(asked', Pending', session, Len(asked) + 1)
    BY <1>1, <1>2, <1>4, <2>2, PaidSent
  <2>4. \A h \in InFlight(queue, owed, primary) : h \in 1 .. Len(asked)
    BY <1>0, <2>1, InFlightAsked
  <2> QED
    BY <1>2, <2>1, <2>3, <2>4
<1> QED
  BY <1>1, <1>2, <1>3, <1>5 DEF LagInv

\* A block arrives: if it is the answer to this very request nothing asked before is in
\* flight from its ECU any more.
LEMMA LagBlock ==
    ASSUME ClientIInv, LagInv, C!discoverBlock
    PROVE  LagInv'
<1> DEFINE f == Head(queue)
           n == Len(asked)
<1>0. Flight(queue, owed, asked) /\ GivenUpInv /\ n \in Nat
  BY LenProperties DEF LagInv, ClientIInv, TypeParts
<1>1. /\ op = "discover" /\ queue # <<>> /\ C!matches(f) /\ C!Waiting
      /\ queue' = Tail(queue) /\ primary' = f.ecu /\ givenUp' = givenUp
      /\ session' = IF f.req = n THEN n ELSE 0
  BY DEF C!discoverBlock, C!use, C!Current, C!Waiting
<1>2. f.ecu \in Ecus
  BY <1>1, MatchFacts
<1>3. /\ Flight(Tail(queue), owed, asked)
      /\ \A h \in InFlight(Tail(queue), owed, f.ecu) : f.req < h /\ h \in 1 .. n
  <2>1. /\ Flight(Tail(queue), owed, asked)
        /\ \A h \in InFlight(Tail(queue), owed, f.ecu) : f.req < h
    BY <1>0, <1>1, <1>2, FlightRead
  <2> HIDE DEF f
  <2> QED
    BY <1>2, <2>1, InFlightAsked
<1> HIDE DEF f
<1>4. session' > 0 => InFlight(Tail(queue), owed, f.ecu) = {}
  BY <1>0, <1>1, <1>3
<1>5. CASE C!send("discover", C!SupportedPids[block + 1]) /\ C!nextBlockAdvertised(f)
  <2>1. C!SupportedPids[block + 1] \in C!Pids
    <3>1. block \in 1 .. 7 /\ asked[Len(asked)] = C!SupportedPids[block]
      BY <1>1 DEF ClientIInv, ChainInv
    <3>2. block < Blocks(f.ecu) /\ Blocks(f.ecu) \in Nat /\ Blocks(f.ecu) <= 7
      BY <1>2, <1>5, ClientFacts DEF C!nextBlockAdvertised, Blocks
    <3>3. block + 1 \in 1 .. 7
      BY <3>1, <3>2
    <3> QED
      BY <3>3, BlockPidFacts DEF C!Pids
  <2> DEFINE pid == C!SupportedPids[block + 1]
  <2>2. /\ Flight(Tail(queue), owed', asked') /\ asked' = Append(asked, pid)
        /\ op' = "discover" /\ Len(asked') = n + 1
        /\ \A e : InFlight(Tail(queue), owed', e)
                     \subseteq InFlight(Tail(queue), owed, e) \cup {n + 1}
    BY <1>3, <1>5, <2>1, FlightSends
  <2>3. GivenUpInv'
    BY <1>0, <1>1, <2>2 DEF GivenUpInv
  <2>4. Pending' = givenUp \cup {n + 1}
    BY <1>1, <2>2 DEF Pending
  <2>5. ASSUME session' > 0
        PROVE  Paid(asked', Pending', session', n + 1)
    <3>1. /\ givenUp \in SUBSET (1 .. Len(asked)) /\ asked \in Seq(C!Pids)
          /\ session' = n /\ n <= Len(asked)
      BY <1>0, <1>1, <2>5 DEF GivenUpInv, ClientIInv, TypeParts
    <3> HIDE DEF pid
    <3> QED
      BY <1>0, <2>1, <2>2, <2>4, <3>1, PaidSent DEF pid
  <2>6. PaidInv'
    BY <1>1, <1>2, <1>4, <2>2, <2>5 DEF PaidInv
  <2> QED
    BY <1>1, <2>2, <2>3, <2>6 DEF LagInv
<1>6. CASE C!return /\ UNCHANGED owed
  <2>1. op' = "none" /\ asked' = asked
    BY <1>6 DEF C!return
  <2>2. GivenUpInv'
    BY <1>0, <1>1, <2>1 DEF GivenUpInv
  <2>3. PaidInv'
    BY <1>1, <1>2, <1>4, <1>6 DEF PaidInv
  <2> QED
    BY <1>1, <1>3, <1>6, <2>1, <2>2, <2>3 DEF LagInv
<1> QED
  BY <1>5, <1>6 DEF C!discoverBlock, f

\* What a query's answer is behind by.
LEMMA AnswerPaid ==
    ASSUME ClientIInv, LagInv, C!queryAnswer, session > 0
    PROVE  /\ primary = Head(queue).ecu /\ primary \in Ecus
           /\ Cardinality(Since(asked, Head(queue).req) \ {Head(queue).req})
                 <= Cardinality(Lost(asked, givenUp, session, asked[Len(asked)]))
           /\ asked[Head(queue).req] = asked[Len(asked)]
           /\ Head(queue).req \in 1 .. Len(asked)
           /\ \A h \in InFlight(Tail(queue), owed, primary) : Paid(asked, givenUp, session, h)
<1> DEFINE f == Head(queue)
           n == Len(asked)
<1>0. /\ Flight(queue, owed, asked) /\ GivenUpInv /\ asked \in Seq(C!Pids) /\ session \in Nat
      /\ primary \in Ecus
      /\ \A h \in InFlight(queue, owed, primary) : Paid(asked, Pending, session, h)
  BY DEF LagInv, PaidInv, ClientIInv, TypeParts
<1>1. /\ op = "query" /\ queue # <<>> /\ C!matches(f) /\ C!Waiting
  BY DEF C!queryAnswer, C!Waiting
<1>2. primary = f.ecu /\ f.pid = asked[n]
  BY <1>0, <1>1, ClientFacts DEF C!matches, C!Current
<1>3. /\ f.req \in InFlight(queue, owed, primary) /\ asked[f.req] = f.pid
      /\ \A h \in InFlight(Tail(queue), owed, primary) :
            f.req < h /\ h \in InFlight(queue, owed, primary)
  BY <1>0, <1>1, <1>2, FlightRead
<1> HIDE DEF f
<1>4. \A h \in InFlight(queue, owed, primary) : h \in 1 .. n
  BY <1>0, InFlightAsked
<1>5. /\ n \in 1 .. n /\ givenUp \in SUBSET (1 .. n) /\ n \notin givenUp
      /\ Pending = givenUp \cup {n}
  BY <1>0, <1>1 DEF GivenUpInv, Pending, ClientIInv, WaitInv
<1>6. Paid(asked, givenUp \cup {n}, session, f.req) /\ f.req \in 1 .. n
  BY <1>0, <1>3, <1>4, <1>5
<1>7. session < n
  BY <1>0, <1>5, <1>6 DEF Paid
<1>8. /\ Cardinality(Since(asked, f.req) \ {f.req})
            <= Cardinality(Lost(asked, givenUp, session, asked[f.req]))
      /\ \A h \in 1 .. n : f.req < h /\ Paid(asked, givenUp \cup {n}, session, h)
                             => Paid(asked, givenUp, session, h)
  BY <1>0, <1>2, <1>3, <1>5, <1>6, <1>7, PaidUsed
<1>9. \A h \in InFlight(Tail(queue), owed, primary) : Paid(asked, givenUp, session, h)
  BY <1>0, <1>3, <1>4, <1>5, <1>8
<1> QED
  BY <1>0, <1>2, <1>3, <1>6, <1>8, <1>9 DEF f

LEMMA LagAnswer ==
    ASSUME ClientIInv, LagInv, C!queryAnswer
    PROVE  LagInv'
<1>0. Flight(queue, owed, asked) /\ GivenUpInv
  BY DEF LagInv
<1>1. /\ queue # <<>> /\ queue' = Tail(queue) /\ primary' = Head(queue).ecu /\ op' = "none"
      /\ UNCHANGED <<asked, owed, givenUp, session>>
  BY DEF C!queryAnswer, C!use, C!return
<1>2. Flight(queue', owed, asked)
  BY <1>0, <1>1, FlightRead
<1>3. GivenUpInv' /\ Pending' = givenUp
  BY <1>0, <1>1 DEF GivenUpInv, Pending
<1>4. PaidInv'
  BY <1>1, <1>3, AnswerPaid DEF PaidInv
<1> QED
  BY <1>1, <1>2, <1>3, <1>4 DEF LagInv

LEMMA LagStep ==
    ASSUME ClientIInv, LagInv, [BenchNext]_benchVars
    PROVE  LagInv'
<1>1. CASE C!Next
  BY <1>1, LagOutside, LagSkip, LagDiscover, LagQuery, LagAnswer, LagBlock DEF C!Next
<1>2. CASE UNCHANGED clientVars
  <2>1. UNCHANGED <<queue, owed, asked, givenUp, op, session, primary>>
    BY <1>2 DEF clientVars
  <2>2. Flight(queue', owed', asked') /\ GivenUpInv' /\ Pending' = Pending
    BY <2>1 DEF LagInv, GivenUpInv, Pending
  <2>3. PaidInv'
    BY <2>1, <2>2, PaidKept DEF LagInv
  <2> QED
    BY <2>2, <2>3 DEF LagInv
<1> QED
  BY <1>1, <1>2 DEF BenchNext, benchVars

\* The inductive invariant of what is in flight: in a session whose last block was answered
\* in time, an answer that may still come is behind by less than the requests without one.
THEOREM LagInvariance == BenchSpec => []LagInv
<1>1. BenchInit => LagInv
  BY LagStarts DEF BenchInit
<1>2. ClientIInv /\ LagInv /\ [BenchNext]_benchVars => LagInv'
  BY LagStep
<1> QED
  BY <1>1, <1>2, ClientInvariance, PTL DEF BenchSpec

\* The module of the client counts as this one does.
LEMMA SameCardinality ==
    ASSUME NEW S
    PROVE  C!Cardinality(S) = Cardinality(S)
BY DEF C!Cardinality, Cardinality

\* J1979Client::request matches an answer by its PID alone: a late one is taken for the
\* next request's.  What a query returns is behind by at most the requests for its PID that
\* were given up in the session, for any ECUs, timeouts, delays and number of requests.
THEOREM LagIsPaid == BenchSpec => LagIsPaidFor
<1> DEFINE Step == C!queryAnswer /\ session > 0 => C!BehindByLost
<1>1. ASSUME ClientIInv, LagInv, C!queryAnswer, session > 0
      PROVE  C!BehindByLost
  <2> DEFINE u == Head(queue).req
  <2>1. /\ Cardinality(Since(asked, u) \ {u})
              <= Cardinality(Lost(asked, givenUp, session, asked[Len(asked)]))
        /\ asked[u] = asked[Len(asked)] /\ u \in 1 .. Len(asked)
    BY <1>1, AnswerPaid
  <2> HIDE DEF u
  <2>2. Len(asked) \in Nat
    BY <1>1, LenProperties DEF ClientIInv, TypeParts
  <2>3. C!SamePid((u + 1) .. Len(asked)) = Since(asked, u) \ {u}
    BY <2>1, <2>2 DEF C!SamePid, C!Current, Since
  <2>4. C!SamePid({r \in givenUp : r > session})
           = Lost(asked, givenUp, session, asked[Len(asked)])
    BY DEF C!SamePid, C!Current, Lost
  <2> QED
    BY <2>1, <2>3, <2>4, SameCardinality DEF u, C!Current, C!BehindByLost
<1>2. ClientIInv /\ LagInv /\ [BenchNext]_benchVars => [Step]_(C!vars)
  BY <1>1
<1> HIDE DEF Step
<1>3. BenchSpec => [][Step]_(C!vars)
  BY <1>2, ClientInvariance, LagInvariance, PTL DEF BenchSpec
<1> QED
  BY <1>3 DEF Step, LagIsPaidFor, C!LagIsPaidFor
-----------------------------------------------------------------------------
(***************************************************************************)
(* The recorded session and its replay.                                    *)
(***************************************************************************)
Answered(i) == log[i].kind = "response"
Entries == [kind: {"request", "response", "broadcast"}, pid: R!Pids \cup {"none"},
            ecu: Ecus \cup {R!NoEcu}]

\* Only one ECU answered.
OneSpoke == \A i, j \in 1 .. Len(log) : Answered(i) /\ Answered(j) => log[i].ecu = log[j].ecu

\* The client listens to an ECU it has heard.
ListenInv == listening = R!NoEcu \/ \E i \in 1 .. Len(log) : Answered(i) /\ log[i].ecu = listening

\* The request that is waited on is the last; an answer to it is not in the log if there
\* is only one ECU, since it would have been used.
WaitingInv ==
    waiting.pid # "none" =>
        /\ waiting.at \in 1 .. Len(log) /\ log[waiting.at] = R!Request(waiting.pid)
        /\ \A i \in waiting.at + 1 .. Len(log) :
              log[i].kind # "request" /\ (OneSpoke => ~(Answered(i) /\ log[i].pid = waiting.pid))

\* An answer that was used came after its request, with no other request between and,
\* if there is only one ECU, no other answer for its PID.
UsedInv ==
    \A pid \in R!Pids : used[pid] # R!None =>
        LET u == used[pid] IN
        /\ u.req \in 1 .. Len(log) /\ u.at \in 1 .. Len(log) /\ u.req < u.at
        /\ log[u.req] = R!Request(pid) /\ log[u.at] = R!Response(u.ecu, pid)
        /\ \A i \in u.req + 1 .. u.at - 1 :
              log[i].kind # "request" /\ (OneSpoke => ~(Answered(i) /\ log[i].pid = pid))

\* The replay's inductive invariant: the recording, and then what was made of it.
ReplayIInv ==
    /\ log \in Seq(Entries) /\ DOMAIN used = R!Pids /\ recording \in BOOLEAN
    /\ UsedInv
    /\ recording => ListenInv /\ WaitingInv /\ replayed = R!Nothing
    /\ ~recording => answers = R!answersFrom
    /\ DOMAIN replayed = R!Pids
    /\ \A pid \in R!Pids : replayed[pid] # R!None => replayed[pid] = answers[pid]

\* Every nonempty set of natural numbers has a least element, and a bounded one a
\* greatest: what Min and Max choose.
LEMMA LeastNat ==
    ASSUME NEW T, T \subseteq Nat, T # {}
    PROVE  \E x \in T : \A y \in T : x <= y
<1> DEFINE Q == OpToRel(<, Nat)
<1>1. IsWellFoundedOn(Q, Nat)
  BY NatLessThanWellFounded
<1>2. \A x, y \in Nat : <<y, x>> \in Q <=> y < x
  BY DEF OpToRel
<1> HIDE DEF Q
<1>3. PICK x \in T : \A y \in T : ~ (<<y, x>> \in Q)
  BY <1>1, WFMin
<1>4. \A y \in T : x <= y
  <2> TAKE y \in T
  <2>1. x \in Nat /\ y \in Nat
    OBVIOUS
  <2>2. ~ (y < x)
    BY <1>2, <1>3, <2>1, Zenon
  <2>3. QED
    BY <2>1, <2>2
<1>5. QED
  BY <1>4

LEMMA MinFacts ==
    ASSUME NEW T, T \subseteq Nat, T # {}
    PROVE  R!Min(T) \in T /\ \A y \in T : R!Min(T) <= y
BY LeastNat DEF R!Min

LEMMA MaxFacts ==
    ASSUME NEW n \in Nat, NEW T, T \subseteq 0 .. n, T # {}
    PROVE  R!Max(T) \in T /\ \A y \in T : R!Max(T) >= y
<1> DEFINE D == {n - x : x \in T}
<1>1. D \subseteq Nat /\ D # {}
  <2>1. \A x \in T : x \in 0 .. n /\ n - x \in Nat
    OBVIOUS
  <2>2. QED
    BY <2>1
<1>2. PICK d \in D : \A e \in D : d <= e
  BY <1>1, LeastNat
<1>3. PICK x \in T : d = n - x
  OBVIOUS
<1>4. \A y \in T : x >= y
  <2> TAKE y \in T
  <2>1. n - y \in D
    OBVIOUS
  <2>2. QED
    BY <1>2, <1>3, <2>1
<1>5. QED
  BY <1>4 DEF R!Max

\* Appending to the log keeps what it holds.
LEMMA RecordFacts ==
    ASSUME ReplayIInv, NEW f \in Entries, R!record(f)
    PROVE  /\ recording /\ Len(log) \in Nat
           /\ log' \in Seq(Entries) /\ Len(log') = Len(log) + 1
           /\ \A i \in 1 .. Len(log) : log'[i] = log[i]
           /\ log'[Len(log) + 1] = f
           /\ OneSpoke' => OneSpoke
<1>1. log \in Seq(Entries) /\ Len(log) \in Nat /\ recording /\ log' = Append(log, f)
  BY LenProperties DEF ReplayIInv, R!record
<1>2. /\ log' \in Seq(Entries) /\ Len(log') = Len(log) + 1
      /\ \A i \in 1 .. Len(log) : log'[i] = log[i]
      /\ log'[Len(log) + 1] = f
  BY <1>1, AppendProperties
<1>3. OneSpoke' => OneSpoke
  BY <1>1, <1>2 DEF OneSpoke, Answered
<1>4. QED
  BY <1>1, <1>2, <1>3

\* So what was used before still came as it did.
LEMMA UsedKept ==
    ASSUME ReplayIInv, NEW f \in Entries, R!record(f),
           NEW pid \in R!Pids, used'[pid] = used[pid], used[pid] # R!None
    PROVE  LET u == used'[pid] IN
           /\ u.req \in 1 .. Len(log') /\ u.at \in 1 .. Len(log') /\ u.req < u.at
           /\ log'[u.req] = R!Request(pid) /\ log'[u.at] = R!Response(u.ecu, pid)
           /\ \A i \in u.req + 1 .. u.at - 1 :
                 log'[i].kind # "request" /\ (OneSpoke' => ~(Answered(i)' /\ log'[i].pid = pid))
<1> DEFINE u == used[pid]
<1>1. /\ u.req \in 1 .. Len(log) /\ u.at \in 1 .. Len(log) /\ u.req < u.at
      /\ log[u.req] = R!Request(pid) /\ log[u.at] = R!Response(u.ecu, pid)
      /\ \A i \in u.req + 1 .. u.at - 1 :
            log[i].kind # "request" /\ (OneSpoke => ~(Answered(i) /\ log[i].pid = pid))
  BY DEF ReplayIInv, UsedInv
<1>2. /\ Len(log) \in Nat /\ Len(log') = Len(log) + 1
      /\ \A i \in 1 .. Len(log) : log'[i] = log[i]
      /\ OneSpoke' => OneSpoke
  BY RecordFacts
<1> HIDE DEF u
<1>3. \A i \in u.req + 1 .. u.at - 1 : i \in 1 .. Len(log)
  BY <1>1, <1>2
<1>4. /\ u.req \in 1 .. Len(log') /\ u.at \in 1 .. Len(log') /\ u.req < u.at
      /\ log'[u.req] = R!Request(pid) /\ log'[u.at] = R!Response(u.ecu, pid)
  BY <1>1, <1>2
<1>5. ASSUME NEW i \in u.req + 1 .. u.at - 1
      PROVE  log'[i].kind # "request" /\ (OneSpoke' => ~(Answered(i)' /\ log'[i].pid = pid))
  <2>1. log'[i] = log[i]
    BY <1>2, <1>3
  <2>2. QED
    BY <1>1, <1>2, <2>1 DEF Answered
<1>6. used'[pid] = u
  BY DEF u
<1>7. QED
  BY <1>4, <1>5, <1>6

\* What the client waits on, hears and uses while the session is recorded.
LEMMA AskStep ==
    ASSUME ReplayIInv, NEW pid \in R!Pids, R!Ask(pid)
    PROVE  ReplayIInv'
<1> USE DEF ReplayIInv
<1> DEFINE f == R!Request(pid)
<1>1. /\ R!record(f) /\ waiting' = [pid |-> pid, at |-> Len(log) + 1]
      /\ listening' = R!NoEcu \/ listening' = listening
      /\ UNCHANGED <<recording, used, answers, replayed>>
  BY DEF R!Ask
<1>2. f \in Entries
  BY DEF R!Request, Entries
<1>3. /\ recording /\ Len(log) \in Nat /\ log' \in Seq(Entries) /\ Len(log') = Len(log) + 1
      /\ \A i \in 1 .. Len(log) : log'[i] = log[i]
      /\ log'[Len(log) + 1] = f /\ (OneSpoke' => OneSpoke)
  BY <1>1, <1>2, RecordFacts
<1> HIDE DEF f
<1>4. UsedInv'
  BY <1>1, <1>2, UsedKept DEF UsedInv
<1>5. ListenInv'
  BY <1>1, <1>3 DEF ListenInv, Answered
<1>6. WaitingInv'
  BY <1>1, <1>3 DEF WaitingInv, f
<1>7. QED
  BY <1>1, <1>3, <1>4, <1>5, <1>6

LEMMA HearStep ==
    ASSUME ReplayIInv, NEW ecu \in Ecus, NEW pid \in R!Pids, R!Hear(ecu, pid)
    PROVE  ReplayIInv'
<1> USE DEF ReplayIInv
<1> DEFINE f == R!Response(ecu, pid)
           n == Len(log)
<1>1. R!record(f) /\ UNCHANGED <<recording, answers, replayed>>
  BY DEF R!Hear
<1>2. f \in Entries /\ f.kind = "response" /\ f.pid = pid /\ f.ecu = ecu
  BY DEF R!Response, Entries
<1>3. /\ recording /\ n \in Nat /\ log' \in Seq(Entries) /\ Len(log') = n + 1
      /\ \A i \in 1 .. n : log'[i] = log[i]
      /\ log'[n + 1] = f /\ (OneSpoke' => OneSpoke)
  BY <1>1, <1>2, RecordFacts
<1>4. ListenInv /\ WaitingInv
  BY <1>3
<1> HIDE DEF f, n
<1>5. CASE /\ waiting.pid = pid /\ listening' = ecu /\ waiting' = R!NotWaiting
           /\ used' = [used EXCEPT ![pid] = [ecu |-> ecu, at |-> n + 1, req |-> waiting.at]]
  <2>1. WaitingInv'
    BY <1>5 DEF WaitingInv, R!NotWaiting
  <2>2. ListenInv'
    <3>1. n + 1 \in 1 .. Len(log')
      BY <1>3
    <3>2. log'[n + 1].kind = "response" /\ log'[n + 1].ecu = listening'
      BY <1>2, <1>3, <1>5
    <3>3. QED
      BY <3>1, <3>2 DEF ListenInv, Answered
  <2>3. /\ waiting.at \in 1 .. n /\ log[waiting.at] = R!Request(pid)
        /\ \A i \in waiting.at + 1 .. n :
              log[i].kind # "request" /\ (OneSpoke => ~(Answered(i) /\ log[i].pid = pid))
    <3>1. pid # "none"
      BY BenchAssumption DEF R!ReplayConstants, R!Pids, R!First
    <3>2. QED
      BY <1>4, <1>5, <3>1 DEF WaitingInv, n
  <2>4. ASSUME NEW q \in R!Pids, used'[q] # R!None
        PROVE  LET u == used'[q] IN
               /\ u.req \in 1 .. Len(log') /\ u.at \in 1 .. Len(log') /\ u.req < u.at
               /\ log'[u.req] = R!Request(q) /\ log'[u.at] = R!Response(u.ecu, q)
               /\ \A i \in u.req + 1 .. u.at - 1 :
                     log'[i].kind # "request" /\ (OneSpoke' => ~(Answered(i)' /\ log'[i].pid = q))
    <3>1. CASE q = pid
      <4> DEFINE u == used'[q]
      <4>1. u.ecu = ecu /\ u.at = n + 1 /\ u.req = waiting.at
        BY <1>5, <3>1
      <4> HIDE DEF u
      <4>2. /\ u.req \in 1 .. Len(log') /\ u.at \in 1 .. Len(log') /\ u.req < u.at
            /\ log'[u.req] = R!Request(q) /\ log'[u.at] = R!Response(u.ecu, q)
        BY <1>3, <2>3, <3>1, <4>1 DEF f
      <4>3. ASSUME NEW i \in u.req + 1 .. u.at - 1
            PROVE  log'[i].kind # "request" /\ (OneSpoke' => ~(Answered(i)' /\ log'[i].pid = q))
        <5>1. i \in waiting.at + 1 .. n /\ log'[i] = log[i]
          BY <1>3, <2>3, <4>1
        <5>2. QED
          BY <1>3, <2>3, <3>1, <5>1 DEF Answered
      <4>4. QED
        BY <4>2, <4>3 DEF u
    <3>2. CASE q # pid
      <4>1. used'[q] = used[q]
        BY <1>5, <3>2
      <4>2. QED
        BY <1>1, <1>2, <2>4, <4>1, UsedKept
    <3>3. QED
      BY <3>1, <3>2
  <2>5. UsedInv'
    BY <2>4 DEF UsedInv
  <2>6. DOMAIN used' = R!Pids
    BY <1>5
  <2>7. QED
    BY <1>1, <1>3, <2>1, <2>2, <2>5, <2>6
<1>6. CASE /\ waiting.pid # pid \/ listening \notin {R!NoEcu, ecu}
           /\ UNCHANGED <<listening, used, waiting>>
  <2>1. UsedInv'
    BY <1>1, <1>2, <1>6, UsedKept DEF UsedInv
  <2>2. ListenInv'
    BY <1>3, <1>4, <1>6 DEF ListenInv, Answered, n
  <2>3. WaitingInv'
    <3> SUFFICES ASSUME waiting.pid # "none"
                 PROVE  /\ waiting.at \in 1 .. Len(log')
                        /\ log'[waiting.at] = R!Request(waiting.pid)
                        /\ \A i \in waiting.at + 1 .. Len(log') :
                              /\ log'[i].kind # "request"
                              /\ OneSpoke' => ~(Answered(i)' /\ log'[i].pid = waiting.pid)
      BY <1>6 DEF WaitingInv
    <3>1. /\ waiting.at \in 1 .. n /\ log[waiting.at] = R!Request(waiting.pid)
          /\ \A i \in waiting.at + 1 .. n :
                log[i].kind # "request" /\ (OneSpoke => ~(Answered(i) /\ log[i].pid = waiting.pid))
      BY <1>4 DEF WaitingInv, n
    <3>2. ASSUME NEW i \in waiting.at + 1 .. Len(log')
          PROVE  /\ log'[i].kind # "request"
                 /\ OneSpoke' => ~(Answered(i)' /\ log'[i].pid = waiting.pid)
      <4>1. CASE i \in 1 .. n
        <5>1. log'[i] = log[i] /\ i \in waiting.at + 1 .. n
          BY <1>3, <3>1, <4>1
        <5>2. QED
          BY <1>3, <3>1, <5>1 DEF Answered
      <4>2. CASE i = n + 1 /\ waiting.pid # pid
        BY <1>2, <1>3, <4>2
      <4>3. CASE i = n + 1 /\ listening \notin {R!NoEcu, ecu}
        <5>1. PICK j \in 1 .. n : Answered(j) /\ log[j].ecu = listening
          BY <1>4, <4>3 DEF ListenInv, n
        <5>2. j \in 1 .. Len(log') /\ n + 1 \in 1 .. Len(log')
          BY <1>3
        <5>3. /\ log'[j].kind = "response" /\ log'[n + 1].kind = "response"
              /\ log'[j].ecu # log'[n + 1].ecu
          BY <1>2, <1>3, <4>3, <5>1 DEF Answered
        <5>4. ~OneSpoke'
          BY <5>2, <5>3 DEF OneSpoke, Answered
        <5>5. QED
          BY <1>2, <1>3, <4>3, <5>4
      <4>4. QED
        BY <1>3, <1>6, <3>1, <4>1, <4>2, <4>3
    <3>3. QED
      BY <1>3, <3>1, <3>2
  <2>4. QED
    BY <1>1, <1>3, <1>6, <2>1, <2>2, <2>3
<1>7. QED
  BY <1>5, <1>6 DEF R!Hear, n

LEMMA OtherStep ==
    ASSUME ReplayIInv, R!HearOther
    PROVE  ReplayIInv'
<1> USE DEF ReplayIInv
<1> DEFINE f == R!Other
<1>1. R!record(f) /\ UNCHANGED <<recording, waiting, listening, used, answers, replayed>>
  BY DEF R!HearOther
<1>2. f \in Entries /\ f.kind = "broadcast"
  BY DEF R!Other, Entries
<1>3. /\ recording /\ Len(log) \in Nat /\ log' \in Seq(Entries) /\ Len(log') = Len(log) + 1
      /\ \A i \in 1 .. Len(log) : log'[i] = log[i]
      /\ log'[Len(log) + 1] = f /\ (OneSpoke' => OneSpoke)
  BY <1>1, <1>2, RecordFacts
<1> HIDE DEF f
<1>4. UsedInv'
  BY <1>1, <1>2, UsedKept DEF UsedInv
<1>5. ListenInv'
  BY <1>1, <1>3 DEF ListenInv, Answered
<1>6. WaitingInv'
  <2>1. ASSUME waiting.pid # "none", NEW i \in waiting.at + 1 .. Len(log')
        PROVE  /\ log'[i].kind # "request"
               /\ OneSpoke' => ~(log'[i].kind = "response" /\ log'[i].pid = waiting.pid)
    <3>1. CASE i = Len(log) + 1
      BY <1>2, <1>3, <3>1
    <3>2. CASE i \in waiting.at + 1 .. Len(log)
      <4>1. i \in 1 .. Len(log)
        BY <1>3, <2>1, <3>2 DEF WaitingInv
      <4>2. QED
        BY <1>3, <2>1, <3>2, <4>1 DEF WaitingInv, Answered
    <3>3. QED
      BY <1>3, <2>1, <3>1, <3>2 DEF WaitingInv
  <2>2. QED
    BY <1>1, <1>3, <2>1 DEF WaitingInv, Answered
<1>7. QED
  BY <1>1, <1>3, <1>4, <1>5, <1>6

\* Starting the replay, and asking in it.
LEMMA RespondStep ==
    ASSUME ReplayIInv, R!StartReplay \/ \E pid \in R!Pids : R!Respond(pid)
    PROVE  ReplayIInv'
<1> USE DEF ReplayIInv
<1>1. log' = log /\ used' = used /\ recording' = FALSE
  BY DEF R!StartReplay, R!Respond
<1>2. UsedInv'
  BY <1>1 DEF UsedInv, OneSpoke, Answered
<1>3. R!answersFrom' = R!answersFrom
  <2>1. \A i : R!Candidates(i)' = R!Candidates(i)
    BY <1>1 DEF R!Candidates
  <2>2. \A pid : R!Paired(pid)' = R!Paired(pid)
    BY <1>1, <2>1 DEF R!Paired
  <2>3. \A i : R!pairOf(i)' = R!pairOf(i)
    BY <1>1, <2>1 DEF R!pairOf
  <2> QED
    BY <2>2, <2>3 DEF R!answersFrom
<1>4. CASE R!StartReplay
  BY <1>1, <1>2, <1>3, <1>4 DEF R!StartReplay, R!Nothing
<1>5. ASSUME NEW pid \in R!Pids, R!Respond(pid)
      PROVE  ReplayIInv'
  <2>1. /\ ~recording /\ answers' = answers
        /\ \/ replayed' = replayed
           \/ replayed' = [replayed EXCEPT ![pid] = answers[pid]]
    BY <1>5 DEF R!Respond
  <2>2. DOMAIN replayed' = R!Pids
    BY <2>1
  <2>3. \A q \in R!Pids : replayed'[q] # R!None => replayed'[q] = answers'[q]
    BY <2>1
  <2>4. QED
    BY <1>1, <1>2, <1>3, <2>1, <2>2, <2>3
<1>6. QED
  BY <1>4, <1>5

\* The replay's inductive invariant.
THEOREM ReplayInvariance == BenchSpec => []ReplayIInv
<1>1. BenchInit => ReplayIInv
  <2> SUFFICES ASSUME R!ReplayInit PROVE ReplayIInv
    BY DEF BenchInit
  <2>1. log \in Seq(Entries) /\ recording \in BOOLEAN
    BY EmptySeq DEF R!ReplayInit
  <2>2. UsedInv /\ DOMAIN used = R!Pids /\ DOMAIN replayed = R!Pids
    BY DEF R!ReplayInit, R!Nothing, UsedInv
  <2>3. \A pid \in R!Pids : replayed[pid] = R!None
    BY DEF R!ReplayInit, R!Nothing
  <2>4. ListenInv /\ WaitingInv /\ replayed = R!Nothing /\ recording
    BY DEF R!ReplayInit, ListenInv, WaitingInv, R!NotWaiting
  <2>5. QED
    BY <2>1, <2>2, <2>3, <2>4 DEF ReplayIInv
<1>2. ReplayIInv /\ [BenchNext]_benchVars => ReplayIInv'
  <2> SUFFICES ASSUME ReplayIInv, [BenchNext]_benchVars PROVE ReplayIInv'
    OBVIOUS
  <2>1. CASE R!ReplayNext
    BY <2>1, AskStep, HearStep, OtherStep, RespondStep DEF R!ReplayNext
  <2>2. CASE UNCHANGED replayVars
    <3>1. UNCHANGED <<recording, log, waiting, listening, used, answers, replayed>>
      BY <2>2 DEF replayVars
    <3>2. R!answersFrom' = R!answersFrom
      BY <3>1 DEF R!answersFrom, R!Paired, R!pairOf, R!Candidates
    <3>3. UsedInv' /\ (ListenInv => ListenInv') /\ (WaitingInv => WaitingInv')
      BY <3>1 DEF ReplayIInv, UsedInv, ListenInv, WaitingInv, OneSpoke, Answered
    <3>4. QED
      BY <3>1, <3>2, <3>3 DEF ReplayIInv
  <2>3. QED
    BY <2>1, <2>2 DEF BenchNext, benchVars
<1>3. QED
  BY <1>1, <1>2, PTL DEF BenchSpec

\* can-replay --respond gives back the recorded session of one ECU: a PID whose answer
\* was in reach has an entry in its table, and a client never uses one that is older
\* than what the recorded client used; for any length of the session, any PIDs and any
\* window.
THEOREM SessionIsReplayed == BenchSpec => []SessionReplays
<1>1. ReplayIInv => SessionReplays
  <2> SUFFICES ASSUME ReplayIInv, ~recording, NEW ecu \in Ecus, R!Spoken = {ecu},
                      NEW pid \in R!Pids, R!InReach(pid)
               PROVE  /\ answers[pid] # R!None
                      /\ replayed[pid] # R!None => replayed[pid].at >= used[pid].at
    BY DEF SessionReplays, R!SessionReplays
  <2> DEFINE u == used[pid]
             P == R!Paired(pid)
             i == R!Max(P)
             j == R!Min(R!Candidates(i))
  <2>1. Len(log) \in Nat /\ Window \in Nat /\ OneSpoke
    <3>1. Len(log) \in Nat /\ Window \in Nat
      BY LenProperties, BenchAssumption DEF ReplayIInv, R!ReplayConstants
    <3>2. \A k \in 1 .. Len(log) : Answered(k) => log[k].ecu = ecu
      BY DEF R!Spoken, Answered
    <3>3. QED
      BY <3>1, <3>2 DEF OneSpoke
  <2>2. /\ u # R!None /\ u.req \in 1 .. Len(log) /\ u.at \in 1 .. Len(log) /\ u.req < u.at
        /\ log[u.req] = R!Request(pid) /\ log[u.at] = R!Response(u.ecu, pid)
        /\ \A k \in u.req + 1 .. u.at - 1 :
              log[k].kind # "request" /\ ~(Answered(k) /\ log[k].pid = pid)
        /\ u.at < u.req + Window
    BY <2>1 DEF ReplayIInv, UsedInv, R!InReach
  <2> HIDE DEF u
  <2>3. u.req \in P
    <3>1. /\ log[u.at].kind = "response" /\ log[u.at].pid = pid /\ log[u.req].pid = pid
          /\ u.at \in u.req + 1 .. Len(log)
      BY <2>1, <2>2 DEF R!Response, R!Request
    <3>2. u.at \in R!Candidates(u.req)
      BY <2>2, <3>1 DEF R!Candidates
    <3>3. QED
      BY <2>2, <3>2 DEF R!Paired
  <2>4. P \subseteq 0 .. Len(log)
    BY <2>1 DEF R!Paired
  <2>5. i \in P /\ i >= u.req
    BY <2>1, <2>3, <2>4, MaxFacts
  <2> HIDE DEF i
  <2>6. i \in 1 .. Len(log) /\ log[i] = R!Request(pid) /\ R!Candidates(i) # {}
    BY <2>5 DEF R!Paired
  <2>7. R!Candidates(i) \subseteq Nat
    BY <2>1, <2>6 DEF R!Candidates
  <2>8. j \in R!Candidates(i)
    BY <2>6, <2>7, MinFacts
  <2> HIDE DEF j
  <2>9. j \in i + 1 .. Len(log) /\ log[j].kind = "response" /\ log[j].pid = pid
    BY <2>6, <2>8 DEF R!Candidates, R!Request
  <2>10. j >= u.at
    <3>1. CASE i = u.req
      BY <3>1, <2>1, <2>2, <2>9 DEF Answered
    <3>2. CASE i # u.req
      <4>1. log[i].kind = "request" /\ log[u.at].kind = "response"
        BY <2>2, <2>6 DEF R!Request, R!Response
      <4>2. i > u.req /\ i # u.at /\ i \notin u.req + 1 .. u.at - 1
        BY <3>2, <4>1, <2>2, <2>5, <2>6
      <4>3. QED
        BY <4>2, <2>1, <2>2, <2>6, <2>9
    <3>3. QED
      BY <3>1, <3>2
  <2>11. answers[pid] = [ecu |-> log[j].ecu, at |-> j, req |-> i]
    BY <2>3 DEF ReplayIInv, R!answersFrom, R!pairOf, i, j
  <2>12. answers[pid].at = j /\ j > 0
    BY <2>6, <2>9, <2>11
  <2>13. answers[pid] # R!None
    BY <2>12 DEF R!None
  <2>14. replayed[pid] # R!None => replayed[pid].at = j
    BY <2>12 DEF ReplayIInv
  <2>15. QED
    BY <2>10, <2>13, <2>14 DEF u
<1>2. QED
  BY <1>1, ReplayInvariance, PTL
=============================================================================
