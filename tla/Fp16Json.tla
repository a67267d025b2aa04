------------------------------ MODULE Fp16Json ------------------------------
(***************************************************************************)
(* The way of one FP16 element through a JSON inference: encodeTensorData  *)
(* widens the bits of an input, the server computes, decodeTensorData      *)
(* narrows a number of the answer.  The numbers are nlohmann::json values; *)
(* as text, one that is not finite becomes null (see HttpTensors).         *)
(***************************************************************************)
EXTENDS HalfFloat

CONSTANTS
  Halves,  \* the halves a tensor may hold
  Nudges   \* the server's effect on a number: [up, down], see Compute

ASSUME HalfAssumption ==
  /\ Halves \subseteq Half
  /\ Nudges \subseteq [up : 0 .. MaxMant, down : 0 .. MaxExp]

VARIABLES
  half,   \* an element of an FP16 input
  float,  \* the number in the JSON array
  back,   \* an element of an FP16 output
  pc

vars == <<half, float, back, pc>>

Zero == [sign |-> 0, exp |-> 0, mant |-> 0]

Init == half \in Halves /\ float = Zero /\ back = 0 /\ pc = "bits"

Widen ==
  /\ pc = "bits"
  /\ float' = halfToFloat(half)
  /\ pc' = "sent"
  /\ UNCHANGED <<half, back>>

\* The server answers with another number: further mantissa bits, a smaller
\* exponent.
Compute(nudge) ==
  /\ pc = "sent"
  /\ float' = [float EXCEPT !.mant = (@ + nudge.up) % HiddenBit,
                            !.exp = IF @ > nudge.down THEN @ - nudge.down ELSE 0]
  /\ pc' = "answered"
  /\ UNCHANGED <<half, back>>

Narrow ==
  /\ pc \in {"sent", "answered"}
  /\ back' = floatToHalf(float)
  /\ pc' = IF pc = "sent" THEN "echoed" ELSE "read"
  /\ UNCHANGED <<half, float>>

Next == Widen \/ (\E nudge \in Nudges : Compute(nudge)) \/ Narrow
Spec == Init /\ [][Next]_vars

----------------------------------------------------------------------------
(* Properties.                                                              *)

TypeOK ==
  /\ half \in Halves
  /\ float \in Float
  /\ back \in Half
  /\ pc \in {"bits", "sent", "answered", "echoed", "read"}

\* "Converts an IEEE-754 half-precision bit pattern to float": the number sent
\* has the value of the bits, subnormals, zeros, infinities and NaNs included.
WidensExactly == pc = "sent" => SameValue(half, float)

\* "FP16 values are narrowed back to half": an element the server hands back as
\* it got it is the same 16 bits again; a NaN is still a NaN.
EchoIsExact ==
  pc = "echoed" =>
    IF IsNaN(half) THEN IsNaN(back) /\ SignOf(back) = SignOf(half) ELSE back = half

\* "(round toward zero)", down to the subnormals: what is read of any number in
\* the range of a half is the nearest half not above it in magnitude, and
\* what is smaller than every half is a zero.
NarrowsTowardZero ==
  pc = "read" =>
    /\ InRange(float) => RoundedTowardZero(back, float)
    /\ float.exp < 103 => SignOf(back) = float.sign /\ Magnitude(back) = 0
============================================================================
