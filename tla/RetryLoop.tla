----------------------------- MODULE RetryLoop -----------------------------
(***************************************************************************)
(* runWithRetry of include/KserveRetry.hpp, with the attempt abstracted to *)
(* its outcome: a result the caller can classify, or an exception.  This   *)
(* is what the transports promise their callers; HttpClient implements it. *)
(*                                                                         *)
(* The client reads its environment once, in the constructor; env is that  *)
(* reading and never changes.                                              *)
(***************************************************************************)
EXTENDS KserveRetry

CONSTANTS
  Envs,             \* the environments a client may be constructed in
  Results,          \* what an attempt may return
  RetryableResults, \* the results is_retryable accepts
  None,             \* no attempt of the call has ended yet
  Threw             \* the attempt threw

ASSUME EnvsAssumption == Envs \subseteq RetryEnv
ASSUME ResultsAssumption ==
  /\ RetryableResults \subseteq Results
  /\ None \notin Results
  /\ Threw \notin Results
  /\ None # Threw

VARIABLES
  env,      \* the KSERVE_* variables the policy was read from
  phase,    \* "idle": no call; "attempt": in attempt(); "backoff": in sleeper()
  i,        \* the loop counter, kept after the call ends
  slept,    \* milliseconds this call has slept
  outcome   \* how the latest attempt of the call ended

vars == <<env, phase, i, slept, outcome>>

policy == retryPolicyFromEnv(env)

last_mutant == i > AttemptsOf(policy)
last == i >= AttemptsOf(policy)

Init ==
  /\ env \in Envs
  /\ phase = "idle"
  /\ i = 0
  /\ slept = 0
  /\ outcome = None

Call ==
  /\ phase = "idle"
  /\ phase' = "attempt"
  /\ i' = 1
  /\ slept' = 0
  /\ outcome' = None
  /\ UNCHANGED env

\* attempt() returned r.
AttemptReturns(r) ==
  /\ phase = "attempt"
  /\ phase' = IF last \/ r \notin RetryableResults THEN "idle" ELSE "backoff"
  /\ outcome' = r
  /\ UNCHANGED <<env, i, slept>>

\* attempt() threw.
AttemptThrows ==
  /\ phase = "attempt"
  /\ phase' = IF last THEN "idle" ELSE "backoff"
  /\ outcome' = Threw
  /\ UNCHANGED <<env, i, slept>>

Backoff_mutant(draw) ==
  /\ phase = "backoff"
  /\ phase' = "attempt"
  /\ slept' = 0
  /\ i' = 1
  /\ outcome' = None
  /\ UNCHANGED env

\* sleeper(backoffDelayMs(policy, i, rng())), then the next iteration.
Backoff(draw) ==
  /\ phase = "backoff"
  /\ phase' = "attempt"
  /\ slept' = slept + backoffDelayMs(policy, i, draw)
  /\ i' = i + 1
  /\ outcome' = None
  /\ UNCHANGED env

Next ==
  \/ Call
  \/ \E r \in Results : AttemptReturns(r)
  \/ AttemptThrows
  \/ \E draw \in 0 .. (Unit - 1) : Backoff(draw)

\* An attempt ends: the sockets have timeouts and a gRPC call a deadline.
Fairness ==
  /\ WF_vars((\E r \in Results : AttemptReturns(r)) \/ AttemptThrows)
  /\ WF_vars(\E draw \in 0 .. (Unit - 1) : Backoff(draw))

SafeSpec == Init /\ [][Next]_vars
Spec == SafeSpec /\ Fairness

----------------------------------------------------------------------------
(* Properties.                                                              *)

\* The types, the policy read from any environment included: the delays are
\* positive and the jitter is a fraction, whatever the variables hold.
TypeOK ==
  /\ env \in Envs
  /\ policy \in RetryPolicy
  /\ phase \in {"idle", "attempt", "backoff"}
  /\ i \in Nat
  /\ slept \in Nat
  /\ outcome \in Results \cup {None, Threw}

Transient == RetryableResults \cup {Threw}

\* The call ends with a transient failure only when it has made exactly the
\* tries its environment asked for: as envAttempts says, KSERVE_MAX_RETRIES is
\* "the number of retries on top of the first attempt", and there are three
\* tries when it is unset or negative.
SpendsEveryAttempt ==
  phase = "idle" /\ outcome \in Transient =>
    i = IF env.max_retries # NoNumber /\ env.max_retries >= 0
        THEN env.max_retries + 1 ELSE 3

\* However many tries fail, each costs at most max_delay_ms of sleep.
SleepBounded == i > 0 => slept <= (i - 1) * policy.max_delay_ms

\* The n-th exponential term, by doubling, and the sum of the first n.
Term[n \in Nat] ==
  IF n <= 1 THEN Lesser(policy.base_delay_ms, policy.max_delay_ms)
  ELSE Lesser(2 * Term[n - 1], policy.max_delay_ms)
Nominal[n \in Nat] == IF n = 0 THEN 0 ELSE Nominal[n - 1] + Term[n]

\* Before try i the call has slept for the i - 1 exponential terms, each off by
\* at most the jitter fraction and the rounding to a millisecond.
SleepsTheSchedule ==
  i > 0 =>
    LET n == i - 1 IN
    /\ 2 * slept * Unit >= 2 * Nominal[n] * (Unit - policy.jitter) - n * Unit
    /\ 2 * slept * Unit <= 2 * Nominal[n] * (Unit + policy.jitter) + n * Unit

\* A call always comes back, with a result or an exception.
CallTerminates == phase # "idle" ~> phase = "idle"

----------------------------------------------------------------------------
(* What a comment says of the code, and the code does not do.               *)

\* include/KserveRetry.hpp: "KSERVE_MAX_RETRIES (total attempts) [...] Invalid /
\* non-positive values are ignored in favour of the defaults."
TotalAttempts ==
  phase = "idle" /\ outcome \in Transient =>
    i = IF env.max_retries # NoNumber /\ env.max_retries > 0
        THEN env.max_retries ELSE 3
============================================================================
