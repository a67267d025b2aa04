---------------------------- MODULE MCFp16Json -----------------------------
(***************************************************************************)
(* Values of Fp16Json's constants for TLC: every half.                     *)
(***************************************************************************)
EXTENDS Fp16Json

\* One unit, all but one unit and all of the bits a half does not have, and a
\* number small enough to become a subnormal or to vanish.
MCNudges == {[up |-> 1, down |-> 0], [up |-> 8191, down |-> 0], [up |-> 8192, down |-> 14],
             [up |-> 4194303, down |-> 20]}
============================================================================
