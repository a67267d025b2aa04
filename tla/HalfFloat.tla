----------------------------- MODULE HalfFloat -----------------------------
(***************************************************************************)
(* halfToFloat and floatToHalf of src/KserveProtocol.cpp, and IEEE-754 to  *)
(* compare them with.  A half is its 16 bits as a number; a float is its   *)
(* three bit fields.                                                       *)
(***************************************************************************)
EXTENDS Integers

\* The largest of each: the 16 bits of a half, the fields of a float.
MaxHalf == 65535
MaxExp == 255
MaxMant == 8388607

Half == 0 .. MaxHalf
Float == [sign : {0, 1}, exp : 0 .. MaxExp, mant : 0 .. MaxMant]

\* Pow2[k] = 2^k
Pow2 == <<2, 4, 8, 16, 32, 64, 128, 256, 512, 1024, 2048, 4096, 8192, 16384, 32768,
          65536, 131072, 262144, 524288, 1048576, 2097152, 4194304, 8388608, 16777216>>

\* The sign bit of a half, its infinity, and the bit before a float's mantissa.
SignBit == 32768
Infinity == 31744
HiddenBit == 8388608

SignOf(h) == h \div SignBit
ExpOf(h) == (h \div 1024) % 32
MantOf(h) == h % 1024

\* How far the loop shifts a subnormal mantissa until its bit 10 is set.
Leading(mant) == CHOOSE e \in 1 .. 10 : 1024 <= mant * Pow2[e] /\ mant * Pow2[e] < 2048

halfToFloat_mutant(h) ==
  LET exp == ExpOf(h)
      mant == MantOf(h)
      e == Leading(mant)
      Bits(x, m) == [sign |-> SignOf(h), exp |-> x, mant |-> m]
  IN CASE exp = 0 /\ mant = 0 -> Bits(0, 0)
       [] exp = 0 /\ mant # 0 -> Bits(127 - 15 - e + 1, mant * Pow2[e] * 8192)
       [] exp = 31 -> Bits(255, mant * 8192)
       [] OTHER -> Bits(exp + (127 - 15), mant * 8192)

halfToFloat(h) ==
  LET exp == ExpOf(h)
      mant == MantOf(h)
      e == Leading(mant)
      Bits(x, m) == [sign |-> SignOf(h), exp |-> x, mant |-> m]
  IN CASE exp = 0 /\ mant = 0 -> Bits(0, 0)
       [] exp = 0 /\ mant # 0 -> Bits(127 - 15 - e + 1, ((mant * Pow2[e]) % 1024) * 8192)
       [] exp = 31 -> Bits(255, mant * 8192)
       [] OTHER -> Bits(exp + (127 - 15), mant * 8192)

floatToHalf_mutant(f) ==
  LET exp == f.exp - 127 + 15
      sign == f.sign * SignBit
  IN CASE exp >= 31 -> sign + Infinity + (IF f.mant # 0 THEN Pow2[9] ELSE 0)
       [] exp < -10 -> sign
       [] exp \in -10 .. 0 -> sign + (f.mant + HiddenBit) \div Pow2[14 - exp]
       [] exp \in 1 .. 30 -> sign + exp * Pow2[10] + (f.mant + Pow2[12]) \div Pow2[13]

\* Above the largest half the result is infinity, or NaN when any mantissa bit
\* is set, of a finite float too.
floatToHalf(f) ==
  LET exp == f.exp - 127 + 15
      sign == f.sign * SignBit
  IN CASE exp >= 31 -> sign + Infinity + (IF f.mant # 0 THEN Pow2[9] ELSE 0)
       [] exp < -10 -> sign
       [] exp \in -10 .. 0 -> sign + (f.mant + HiddenBit) \div Pow2[14 - exp]
       [] exp \in 1 .. 30 -> sign + exp * Pow2[10] + f.mant \div Pow2[13]

----------------------------------------------------------------------------
(* IEEE-754, as a reference.  In units of 2^-24 a finite half is            *)
(* Significand * 2^Power, and a normal float (2^23 + mant) * 2^(exp - 126). *)

IsNaN(h) == ExpOf(h) = 31 /\ MantOf(h) # 0
Magnitude(h) == h % SignBit
Significand(h) == IF ExpOf(h) = 0 THEN MantOf(h) ELSE 1024 + MantOf(h)
Power(h) == IF ExpOf(h) = 0 THEN 0 ELSE ExpOf(h) - 1

\* A finite half in the units of the significand of a float with exponent exp.
Scaled(h, exp) == Significand(h) * Pow2[Power(h) + 126 - exp]

SameValue(h, f) ==
  /\ f.sign = SignOf(h)
  /\ CASE ExpOf(h) = 31 -> f.exp = 255 /\ (f.mant # 0 <=> IsNaN(h))
       [] Magnitude(h) = 0 -> f.exp = 0 /\ f.mant = 0
       [] OTHER -> /\ Power(h) + 126 - f.exp \in DOMAIN Pow2
                   /\ Scaled(h, f.exp) = HiddenBit + f.mant

\* h is f rounded toward zero: the largest half not above it in magnitude.
\* From 2^-24, the smallest half, to below 2^16, beyond the largest one.
InRange(f) == f.exp \in 103 .. 142
RoundedTowardZero(h, f) ==
  /\ SignOf(h) = f.sign
  /\ Scaled(h, f.exp) <= HiddenBit + f.mant
  /\ Magnitude(h) # Infinity - 1 => HiddenBit + f.mant < Scaled(h + 1, f.exp)
============================================================================
