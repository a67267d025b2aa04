---------------------------- MODULE KserveRetry ----------------------------
(***************************************************************************)
(* The pure retry policy of src/KserveRetry.cpp: reading the policy from   *)
(* the environment, the backoff schedule, and the classifiers of transient *)
(* statuses.                                                               *)
(*                                                                         *)
(* A C++ int ranges over -IntMax-1 .. IntMax.  A fraction in [0, 1] is a   *)
(* number of Unit-ths, so that the arithmetic the code does in double is   *)
(* exact here.                                                             *)
(***************************************************************************)
EXTENDS Integers

CONSTANTS
  IntMax,   \* largest value of a C++ int
  Unit,     \* denominator of the fractions (jitter, random draw)
  NoNumber  \* an environment variable that is unset or holds no number

ASSUME IntMaxAssumption == IntMax \in Nat /\ IntMax > 2000
ASSUME UnitAssumption == Unit \in Nat \ {0}
ASSUME NoNumberAssumption == NoNumber \notin Int

CInt == (-IntMax - 1) .. IntMax

\* The sum of two ints, wrapped as the compiled addition wraps it.
AddInt(a, b) ==
  LET sum == a + b IN
  IF sum > IntMax THEN sum - 2 * (IntMax + 1) ELSE sum

----------------------------------------------------------------------------
(* The policy and the environment it is read from.                          *)

RetryPolicy ==
  [max_attempts : CInt, base_delay_ms : 1 .. IntMax,
   max_delay_ms : 1 .. IntMax, jitter : 0 .. Unit]

\* The four KSERVE_* variables; stoi/stod reject what NoNumber stands for.
RetryEnv ==
  [max_retries : CInt \cup {NoNumber}, base_ms : CInt \cup {NoNumber},
   max_ms : CInt \cup {NoNumber}, jitter : Int \cup {NoNumber}]

envInt_mutant(raw, fallback) ==
  IF raw # NoNumber /\ raw >= 0 THEN raw ELSE fallback

envInt(raw, fallback) ==
  IF raw # NoNumber /\ raw > 0 THEN raw ELSE fallback

envFraction(raw, fallback) ==
  IF raw # NoNumber /\ raw >= 0 /\ raw <= Unit THEN raw ELSE fallback

envAttempts(raw, fallback) ==
  IF raw # NoNumber /\ raw >= 0 THEN AddInt(raw, 1) ELSE fallback

DefaultPolicy ==
  [max_attempts |-> 3, base_delay_ms |-> 100, max_delay_ms |-> 2000,
   jitter |-> Unit \div 5]

retryPolicyFromEnv(env) ==
  [max_attempts  |-> envAttempts(env.max_retries, DefaultPolicy.max_attempts),
   base_delay_ms |-> envInt(env.base_ms, DefaultPolicy.base_delay_ms),
   max_delay_ms  |-> envInt(env.max_ms, DefaultPolicy.max_delay_ms),
   jitter        |-> envFraction(env.jitter, DefaultPolicy.jitter)]

----------------------------------------------------------------------------
(* The backoff schedule.                                                    *)

Lesser(a, b) == IF a <= b THEN a ELSE b
Clamp(x, lo, hi) == IF x < lo THEN lo ELSE Lesser(x, hi)

\* 2^n
PowerOf2[n \in Nat] == IF n = 0 THEN 1 ELSE 2 * PowerOf2[n - 1]

ExpDelay_mutant(policy, attempt) ==
  Lesser(policy.base_delay_ms * PowerOf2[attempt], policy.max_delay_ms)

\* base * 2^(attempt-1), capped at max_delay_ms before jitter.
ExpDelay(policy, attempt) ==
  Lesser(policy.base_delay_ms * PowerOf2[attempt - 1], policy.max_delay_ms)

\* lround(num / den) for num >= 0.
Round(num, den) == (2 * num + den) \div (2 * den)

backoffDelayMs_mutant(policy, attempt, draw) ==
  IF attempt < 1 THEN 0
  ELSE LET factor == Unit * Unit - policy.jitter * Unit + 2 * draw * policy.jitter
       IN Round(ExpDelay(policy, attempt) * factor, Unit * Unit)

\* The draw and the jitter are counted in Unit-ths, hence the factor
\* 1 - jitter + 2 * draw * jitter in Unit^2-ths.
backoffDelayMs(policy, attempt, draw) ==
  IF attempt < 1 THEN 0
  ELSE LET unit   == Clamp(draw, 0, Unit)
           scale  == Unit * Unit
           factor == scale - policy.jitter * Unit + 2 * unit * policy.jitter
       IN Round(Clamp(ExpDelay(policy, attempt) * factor,
                      0, policy.max_delay_ms * scale), scale)

----------------------------------------------------------------------------
(* Transient statuses.                                                      *)

isRetryableHttpStatus(status) == status \in {429, 502, 503, 504}

\* DEADLINE_EXCEEDED, RESOURCE_EXHAUSTED, UNAVAILABLE.
isRetryableGrpcStatus(code) == code \in {4, 8, 14}

----------------------------------------------------------------------------
(* runWithRetry's bound on the attempts of one call.                        *)

AttemptsOf(policy) ==
  IF policy.max_attempts > 0 THEN policy.max_attempts ELSE 1
============================================================================
