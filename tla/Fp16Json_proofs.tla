-------------------------- MODULE Fp16Json_proofs --------------------------
(***************************************************************************)
(* What happens to an FP16 element on its way through JSON, for every half *)
(* and every number a server may answer with.                              *)
(***************************************************************************)
EXTENDS Fp16Json, Lemmas

\* The number in the JSON array is the widened element until the server
\* computes another one, and what is read is that number narrowed.
Converted ==
  /\ pc \in {"sent", "echoed"} => float = halfToFloat(half)
  /\ pc \in {"echoed", "read"} => back = floatToHalf(float)

IInv == TypeOK /\ Converted

\* It holds before the first step.
LEMMA Initially == Init => IInv
<1> SUFFICES ASSUME Init PROVE IInv
  OBVIOUS
<1>1. Zero \in Float
  <2>1. 0 \in Nat /\ 0 <= 1 /\ 0 <= 255 /\ 0 < HiddenBit
    BY Places
  <2> QED
    BY <2>1, FloatBounds DEF Zero
<1>2. 0 \in Half
  BY HalfBounds
<1> QED
  BY <1>1, <1>2 DEF Init, IInv, TypeOK, Converted

\* A server's number is a float again.
LEMMA ComputedType ==
  ASSUME NEW f \in Float, NEW nudge \in Nudges
  PROVE  [f EXCEPT !.mant = (@ + nudge.up) % HiddenBit,
                   !.exp = IF @ > nudge.down THEN @ - nudge.down ELSE 0] \in Float
<1> DEFINE m == (f.mant + nudge.up) % HiddenBit
           x == IF f.exp > nudge.down THEN f.exp - nudge.down ELSE 0
<1>1. /\ f.sign \in Nat /\ f.sign <= 1 /\ f.exp \in Nat /\ f.exp <= 255 /\ f.mant \in Nat
  BY FloatBounds
<1>2. nudge.up \in Nat /\ nudge.down \in Nat
  <2>1. MaxMant \in Nat /\ MaxExp \in Nat
    BY DEF MaxMant, MaxExp
  <2> QED
    BY <2>1, HalfAssumption
<1>3. x \in Nat /\ x <= 255
  BY <1>1, <1>2
<1>4. m \in Nat /\ m < HiddenBit
  <2>1. HiddenBit \in Nat \ {0}
    BY Places
  <2>2. f.mant + nudge.up \in Nat
    BY <1>1, <1>2
  <2> QED
    BY <2>1, <2>2
<1>5. x \in 0 .. MaxExp /\ m \in 0 .. MaxMant
  <2>1. MaxExp = 255 /\ MaxMant \in Nat /\ MaxMant + 1 = HiddenBit
    BY Places DEF MaxExp, MaxMant
  <2> HIDE DEF x, m
  <2> QED
    BY <1>3, <1>4, <2>1
<1>6. [f EXCEPT !.mant = m, !.exp = x] \in Float
  <2> HIDE DEF x, m
  <2> QED
    BY <1>5 DEF Float
<1> QED
  BY <1>6

\* Every step keeps it.
LEMMA Inductive == IInv /\ [Next]_vars => IInv'
<1> SUFFICES ASSUME IInv, [Next]_vars PROVE IInv'
  OBVIOUS
<1>1. half \in Half /\ half \in Halves /\ float \in Float /\ back \in Half
  BY HalfAssumption DEF IInv, TypeOK
<1>2. CASE Widen
  <2>1. halfToFloat(half) \in Float
    BY <1>1, WidenExact
  <2> QED
    BY <1>1, <1>2, <2>1 DEF Widen, IInv, TypeOK, Converted
<1>3. ASSUME NEW nudge \in Nudges, Compute(nudge)
      PROVE  IInv'
  <2>1. float' \in Float
    BY <1>1, <1>3, ComputedType DEF Compute
  <2> QED
    BY <1>1, <1>3, <2>1 DEF Compute, IInv, TypeOK, Converted
<1>4. CASE Narrow
  <2>1. floatToHalf(float) \in Half
    BY <1>1, NarrowType
  <2> QED
    BY <1>1, <1>4, <2>1 DEF Narrow, IInv, TypeOK, Converted
<1>5. CASE UNCHANGED vars
  BY <1>5 DEF vars, IInv, TypeOK, Converted
<1> QED
  BY <1>2, <1>3, <1>4, <1>5 DEF Next

\* It holds throughout.
LEMMA Invariance == Spec => []IInv
BY Initially, Inductive, PTL DEF Spec

\* The codec turns every half into a float and every float into a half.
THEOREM TypeCorrect == Spec => []TypeOK
<1>1. IInv => TypeOK
  BY DEF IInv
<1> QED
  BY <1>1, Invariance, PTL

\* The number sent has the value of the element, for every one of the halves.
THEOREM Widening == Spec => []WidensExactly
<1>1. IInv => WidensExactly
  <2> SUFFICES ASSUME IInv, pc = "sent" PROVE SameValue(half, float)
    BY DEF WidensExactly
  <2>1. half \in Half /\ float = halfToFloat(half)
    BY HalfAssumption DEF IInv, TypeOK, Converted
  <2> QED
    BY <2>1, WidenExact
<1> QED
  BY <1>1, Invariance, PTL

\* An element handed back as it was sent is read as the same bits.
THEOREM Echo == Spec => []EchoIsExact
<1>1. IInv => EchoIsExact
  <2> SUFFICES ASSUME IInv, pc = "echoed"
               PROVE  IF IsNaN(half) THEN IsNaN(back) /\ SignOf(back) = SignOf(half)
                      ELSE back = half
    BY DEF EchoIsExact
  <2>1. half \in Half /\ back = floatToHalf(halfToFloat(half))
    BY HalfAssumption DEF IInv, TypeOK, Converted
  <2> QED
    BY <2>1, RoundTrip
<1> QED
  BY <1>1, Invariance, PTL

\* Whatever number the server answers with, it is read as the nearest half not
\* above it in magnitude, down to zero.
THEOREM Narrowing == Spec => []NarrowsTowardZero
<1>1. IInv => NarrowsTowardZero
  <2> SUFFICES ASSUME IInv, pc = "read"
               PROVE  /\ InRange(float) => RoundedTowardZero(back, float)
                      /\ float.exp < 103 => SignOf(back) = float.sign /\ Magnitude(back) = 0
    BY DEF NarrowsTowardZero
  <2>1. float \in Float /\ back = floatToHalf(float)
    BY DEF IInv, TypeOK, Converted
  <2>2. ASSUME float.exp < 103
        PROVE  SignOf(back) = float.sign /\ Magnitude(back) = 0
    <3>1. Joins(back, float.sign, 0, 0)
      BY <2>1, <2>2, NarrowFields
    <3>2. SignOf(back) = float.sign /\ Magnitude(back) = 0 * 1024 + 0
      BY <3>1, FieldsOf
    <3> QED
      BY <3>2
  <2> QED
    BY <2>1, <2>2, NarrowRounds
<1> QED
  BY <1>1, Invariance, PTL
============================================================================
