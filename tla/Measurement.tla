------------------------------- MODULE Measurement -------------------------------
(***************************************************************************)
(* A measurement on its way from the sensor to a reader: raw values,       *)
(* compensation, the record that sampler_tick makes of it, its 16 bytes in *)
(* a flash slot (log-record.c), whole or cut off by a power failure, and   *)
(* what reading the slot gives.  LogStore rests on the last part.          *)
(*                                                                         *)
(* External: the flash programs a slot from its first byte on, so that a   *)
(* cut leaves some bytes written, perhaps one half written, and the others *)
(* erased.                                                                 *)
(***************************************************************************)
EXTENDS Compensation, SequencesExt, FiniteSetsExt

CONSTANTS
  TempSteps, PressureSteps, HumSteps   \* bound: raw values per quantity

ASSUME StepsAssumption == {TempSteps, PressureSteps, HumSteps} \subseteq Nat \ {0}

VARIABLES
  cal,      \* the calibration
  adc,      \* raw values
  stamp,    \* what the clock, the flag and the boot make of the record
  slot,     \* the bytes of a slot
  pc        \* "measured" or "written"

measureVars == <<cal, adc, stamp, slot, pc>>

(***************************************************************************)
(* What the sensor delivers.                                               *)
(***************************************************************************)
\* The calibration of the host tests, one with negative 12-bit coefficients, and a sensor without.
Calib1 == <<112, 107, 67, 103, 24, 252, 125, 142, 67, 214, 208, 11, 39, 11, 140, 0, 249, 255,
            140, 60, 248, 198, 112, 23, 0, 75>>
Calib2 == <<111, 1, 18, 18, 45, 3, 30>>
Calibrations ==
  {ParseCalib(Calib1, Calib2),
   ParseCalib(Calib1, <<111, 1, 0, 18, 45, 255, 226>>),
   ParseCalib([n \in 1 .. 26 |-> 0], [n \in 1 .. 7 |-> 0])}

\* From -40 to 85 degrees, 300 to 1200 hPa, and any humidity, for the first calibration.
Spread(from, to, steps) == {from + (n * (to - from)) \div steps : n \in 0 .. steps}
Temps == Spread(313800, 710000, TempSteps) \cup {519888}
\* With the last three, the pressure formula changes its branch at 25 degrees.
Pressures == Spread(300000, 861000, PressureSteps) \cup 315698 .. 315700
Hums == Spread(0, 65535, HumSteps)

Stamps == {[time |-> 5, flags |-> 0, boot |-> 3], [time |-> 1789000000, flags |-> 1, boot |-> 255]}

(***************************************************************************)
(* The record and its bytes.                                               *)
(***************************************************************************)
\* Mutated form of ClampI16: a temperature below zero is cut off.
ClampToNat(v) == Max({0, Min({32767, v})})

ClampI16(v) == Max({-32768, Min({32767, v})})
ClampU16(v) == Min({65535, v})

\* sampler_tick
Record(c, raw, s) ==
  LET r == Reading(c, raw)
  IN [time |-> s.time, temp |-> ClampI16(r.temp), hum |-> ClampU16(r.hum), pressure |-> r.pressure,
      flags |-> s.flags, boot |-> s.boot]

\* crc16_ccitt.  The bits of a byte come from the highest one on, each into the highest place of
\* the register, which is the same as all eight at once: what is shifted out meets the bit.
\* 0x1021 has the places 1, 32 and 4096.
Flip(x, place) == IF (x \div place) % 2 = 0 THEN x + place ELSE x - place
CrcBit(crc, bit) ==
  LET shifted == (2 * crc) % 65536
  IN IF (crc \div 32768 + bit) % 2 = 0 THEN shifted ELSE Flip(Flip(Flip(shifted, 1), 32), 4096)

Register == 0 .. 65535
Places == <<128, 64, 32, 16, 8, 4, 2, 1>>
CrcByte(byte) ==
  [crc \in Register |->
     LET after[n \in 0 .. 8] == IF n = 0 THEN crc ELSE CrcBit(after[n - 1], (byte \div Places[n]) % 2)
     IN after[8]]

\* Mutated form of Crc: the last byte is left out.
CrcShort(bytes) ==
  LET after[n \in 0 .. Len(bytes)] == IF n = 0 THEN 65535 ELSE CrcByte(bytes[n])[after[n - 1]]
  IN after[Len(bytes) - 1]

Crc(bytes) ==
  LET after[n \in 0 .. Len(bytes)] == IF n = 0 THEN 65535 ELSE CrcByte(bytes[n])[after[n - 1]]
  IN after[Len(bytes)]

\* put_u16 and put_u32, a byte at a time.
Byte(v, place) == (v \div place) % 256

Body(r) ==
  <<Byte(r.time, 1), Byte(r.time, 256), Byte(r.time, 65536), Byte(r.time, 16777216),
    Byte(r.temp, 1), Byte(r.temp, 256), Byte(r.hum, 1), Byte(r.hum, 256),
    Byte(r.pressure, 1), Byte(r.pressure, 256), Byte(r.pressure, 65536), Byte(r.pressure, 16777216),
    r.flags, r.boot>>

Encode(r) ==
  LET crc == Crc(Body(r))
  IN Body(r) \o <<Byte(crc, 1), Byte(crc, 256)>>

IsEmpty(bytes) == \A n \in DOMAIN bytes : bytes[n] = 255
None == [time |-> -1]

Decode(bytes) ==
  IF IsEmpty(bytes) \/ U16(bytes, 15) # Crc(SubSeq(bytes, 1, 14)) THEN None
  ELSE [time |-> U16(bytes, 1) + 65536 * U16(bytes, 3), temp |-> S16(bytes, 5), hum |-> U16(bytes, 7),
        pressure |-> U16(bytes, 9) + 65536 * U16(bytes, 11), flags |-> bytes[13], boot |-> bytes[14]]

(***************************************************************************)
(* Measuring, writing and reading.                                         *)
(***************************************************************************)
Erased == [n \in 1 .. 16 |-> 255]

\* The first n bytes are written and the next one has only its high half.
Cut(bytes, n, half) ==
  [i \in 1 .. 16 |-> IF i <= n THEN bytes[i]
                     ELSE IF half /\ i = n + 1 THEN (bytes[i] \div 16) * 16 + 15
                     ELSE 255]

\* A byte does not hold what was written.
Worn(bytes, n) == {[bytes EXCEPT ![n] = v] : v \in {0, (bytes[n] + 1) % 256, 255 - bytes[n]}}

MeasureInit ==
  /\ cal \in Calibrations
  /\ adc = [t |-> Min(Temps), p |-> Min(Pressures), h |-> Min(Hums)]
  /\ stamp \in Stamps
  /\ slot = Erased /\ pc = "measured"

\* One of the raw values goes up.
Rises(quantity, values) ==
  /\ pc = "measured"
  /\ \E v \in values :
       v > adc[quantity] /\ (\A w \in values : w <= adc[quantity] \/ w >= v)
         /\ adc' = [adc EXCEPT ![quantity] = v]
  /\ UNCHANGED <<cal, stamp, slot, pc>>

\* log_store_append writes the record; the power fails meanwhile, or the flash does.
Write ==
  /\ pc = "measured"
  /\ LET bytes == Encode(Record(cal, adc, stamp))
     IN \/ \E n \in 0 .. 16, half \in BOOLEAN : slot' = Cut(bytes, n, half)
        \/ \E n \in 1 .. 16 : slot' \in Worn(bytes, n)
  /\ pc' = "written"
  /\ UNCHANGED <<cal, adc, stamp>>

\* The slot has been read, and the next one is erased.
Read ==
  /\ pc = "written"
  /\ slot' = Erased /\ pc' = "measured"
  /\ UNCHANGED <<cal, adc, stamp>>

MeasureNext == Rises("t", Temps) \/ Rises("p", Pressures) \/ Rises("h", Hums) \/ Write \/ Read

MeasureSpec == MeasureInit /\ [][MeasureNext]_measureVars

(***************************************************************************)
(* Properties                                                              *)
(***************************************************************************)
\* Over the sensor's operating range no product of the compensation leaves 32 bits
\* and the unsigned difference of the pressure formula does not wrap (bme280-compensate.c:46).
NoOverflow ==
  /\ \A pair \in Products(cal, adc) : Fits(pair[1], pair[2])
  /\ ~Pressure(cal, adc).wraps

\* A higher raw value never reads as a lower temperature, a higher pressure or a lower humidity,
\* but for the pascal that the other order of rounding costs where the pressure formula changes
\* its branch (bme280-compensate.c:47).
Follows ==
  [][LET before == Reading(cal, adc)
         after == Reading(cal', adc')
     IN /\ adc'.t > adc.t => after.temp >= before.temp
        /\ adc'.p > adc.p => after.pressure <= before.pressure + 1
        /\ adc'.h > adc.h => after.hum >= before.hum]_adc

\* get_log shows of a record what read_now showed of the measurement: neither the clamps nor the
\* widths of the fields change it, below zero included (sampler.c:44, log-record.c:26).
ReaderGetsTheReading ==
  slot = Encode(Record(cal, adc, stamp)) /\ pc = "written" =>
    LET read == Decode(slot)
        r == Reading(cal, adc)
    IN /\ read = [time |-> stamp.time, temp |-> r.temp, hum |-> r.hum, pressure |-> r.pressure,
                  flags |-> stamp.flags, boot |-> stamp.boot]
       /\ r.hum <= 10000

\* A record that differs from what was written in one byte, or in two that are neighbours, does
\* not decode, whatever the bytes belong to (log-record.c:48), but for the pair of the last byte
\* before the CRC and the CRC's low byte: that goes first, so the two are no burst of 16 bits.
\* A cut that leaves more bytes unwritten is for chance: 16 bits let one in 65536 pass.
DamageIsSeen ==
  pc = "written" =>
    LET bytes == Encode(Record(cal, adc, stamp))
        damaged == {n \in 1 .. 16 : slot[n] # bytes[n]}
    IN damaged # {} /\ Max(damaged) - Min(damaged) <= 1 /\ damaged # {14, 15} => Decode(slot) = None
================================================================================
