------------------------------ MODULE Compensation ------------------------------
(***************************************************************************)
(* bme280-compensate.c: from the sensor's calibration bytes and raw values *)
(* to temperature, pressure and humidity in 32-bit integer arithmetic.     *)
(*                                                                         *)
(* >> is \div, which rounds down for both.  A signed product that does not *)
(* fit into 32 bits has no defined value; Mul gives 0 for it, and every    *)
(* product is in Products, so that it shows.                               *)
(***************************************************************************)
EXTENDS Integers, Sequences

MaxInt == 2147483647

Magnitude(x) == IF x < 0 THEN -x ELSE x
Fits(x, y) == y = 0 \/ Magnitude(x) <= MaxInt \div Magnitude(y)
Mul(x, y) == IF Fits(x, y) THEN x * y ELSE 0

Bytes == 0 .. 255
Signed(value, values) == IF value < values \div 2 THEN value ELSE value - values
U16(bytes, i) == bytes[i] + 256 * bytes[i + 1]
S16(bytes, i) == Signed(U16(bytes, i), 65536)

\* The 12-bit coefficients share a byte; the high byte has the sign.
Twelve(high, low) == Signed(high, 256) * 16 + low

\* bme280_parse_calib; a first byte is at 1 here.
ParseCalib(calib1, calib2) ==
  [t1 |-> U16(calib1, 1), t2 |-> S16(calib1, 3), t3 |-> S16(calib1, 5),
   p1 |-> U16(calib1, 7),
   p |-> [n \in 2 .. 9 |-> S16(calib1, 2 * n + 5)],
   h1 |-> calib1[26], h2 |-> S16(calib2, 1), h3 |-> calib2[3],
   h4 |-> Twelve(calib2[4], calib2[5] % 16),
   h5 |-> Twelve(calib2[6], calib2[5] \div 16),
   h6 |-> Signed(calib2[7], 256)]

(***************************************************************************)
(* Temperature.                                                            *)
(***************************************************************************)
Square(x) == Mul(x, x)

\* Mutated form of Fine: the shift of the square comes last.
FineShiftedLate(c, adc) ==
  LET coarse == adc.t \div 8 - 2 * c.t1
      offset == adc.t \div 16 - c.t1
      bent == Square(offset)
  IN [value |-> Mul(coarse, c.t2) \div 2048 + Mul(bent, c.t3) \div 67108864,
      products |-> {<<coarse, c.t2>>, <<offset, offset>>, <<bent, c.t3>>}]

\* t_fine, and the products on the way to it.
Fine(c, adc) ==
  LET coarse == adc.t \div 8 - 2 * c.t1
      offset == adc.t \div 16 - c.t1
      bent == Square(offset) \div 4096
  IN [value |-> Mul(coarse, c.t2) \div 2048 + Mul(bent, c.t3) \div 16384,
      products |-> {<<coarse, c.t2>>, <<offset, offset>>, <<bent, c.t3>>}]

TempCenti(c, adc) == (Fine(c, adc).value * 5 + 128) \div 256

(***************************************************************************)
(* Pressure.                                                               *)
(***************************************************************************)
\* Mutated form of Halved: the doubling always comes first, and loses bit 32.
HalvedWraps(q, v) ==
  IF q <= 687194
    THEN (q \div v) * 6250 + ((q % v) * 6250) \div v
    ELSE ((q - 687195) * 6250 + 1454) \div v

\* 2p / v in 32 bits without a sign, for p = 3125 q.  From p = 2^31 on the division comes first.
Halved(q, v) ==
  IF q <= 687194
    THEN (q \div v) * 6250 + ((q % v) * 6250) \div v
    ELSE 2 * ((q \div v) * 3125 + ((q % v) * 3125) \div v)

Pressure(c, adc) ==
  LET t == Fine(c, adc).value \div 2 - 64000
      quarter == t \div 4
      curve == Square(quarter) \div 2048
      bend == Square(quarter) \div 8192
      offset == (Mul(curve, c.p[6]) + 2 * Mul(t, c.p[5])) \div 4 + c.p[4] * 65536
      scale == (Mul(c.p[3], bend) \div 8 + Mul(c.p[2], t) \div 2) \div 262144
      divisor == Mul(32768 + scale, c.p1) \div 32768
      q == 1048576 - adc.p - offset \div 4096
      raw == Halved(q, divisor)
      square == Square(raw \div 8) \div 8192
  IN IF divisor = 0 THEN [value |-> 0, products |-> {}, wraps |-> FALSE]
     ELSE [value |-> raw + (Mul(c.p[9], square) \div 4096 + Mul(raw \div 4, c.p[8]) \div 8192 + c.p[7]) \div 16,
           products |-> {<<quarter, quarter>>, <<curve, c.p[6]>>, <<t, 2 * c.p[5]>>, <<c.p[3], bend>>,
                         <<c.p[2], t>>, <<32768 + scale, c.p1>>, <<raw \div 8, raw \div 8>>,
                         <<c.p[9], square>>, <<raw \div 4, c.p[8]>>},
           wraps |-> q < 0]

(***************************************************************************)
(* Humidity.                                                               *)
(***************************************************************************)
Humidity(c, adc) ==
  LET v == Fine(c, adc).value - 76800
      linear == (adc.h * 16384 - c.h4 * 1048576 - Mul(c.h5, v) + 16384) \div 32768
      first == Mul(v, c.h6) \div 1024
      second == Mul(v, c.h3) \div 2048 + 32768
      gain == Mul(first, second) \div 1024 + 2097152
      slope == (Mul(gain, c.h2) + 8192) \div 16384
      x == Mul(linear, slope)
      bent == Square(x \div 32768) \div 128
      y == x - Mul(bent, c.h1) \div 16
      inRange == IF y < 0 THEN 0 ELSE IF y > 419430400 THEN 419430400 ELSE y
  IN [value |-> ((inRange \div 4096) * 100 + 512) \div 1024,
      products |-> {<<c.h5, v>>, <<v, c.h6>>, <<v, c.h3>>, <<first, second>>, <<gain, c.h2>>,
                    <<linear, slope>>, <<x \div 32768, x \div 32768>>, <<bent, c.h1>>}]

\* bme280_compensate
Reading(c, adc) ==
  [temp |-> TempCenti(c, adc), pressure |-> Pressure(c, adc).value, hum |-> Humidity(c, adc).value]

Products(c, adc) == Fine(c, adc).products \cup Pressure(c, adc).products \cup Humidity(c, adc).products
================================================================================
