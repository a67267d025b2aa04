-------------------------- MODULE RetryLoop_proofs -------------------------
(***************************************************************************)
(* The safety of RetryLoop, for every environment, every set of results    *)
(* and every width of int.                                                 *)
(***************************************************************************)
EXTENDS RetryLoop, KserveRetry_proofs, TLAPS

\* The loop is in an attempt or a backoff only while tries are left, and a call
\* that ended in a transient failure has none.
Progressing ==
  /\ phase # "idle" => i >= 1 /\ i <= AttemptsOf(policy)
  /\ phase = "backoff" => i < AttemptsOf(policy)
  /\ phase = "idle" /\ outcome \in Transient => i = AttemptsOf(policy)

IInv == TypeOK /\ Progressing /\ SleepBounded

\* The inductive step of everything below.
LEMMA Induction ==
  ASSUME IInv, [Next]_vars
  PROVE  IInv'
<1> USE IntMaxAssumption, UnitAssumption, EnvsAssumption, ResultsAssumption
<1>0. policy \in RetryPolicy /\ AttemptsOf(policy) \in Nat \ {0}
  BY AttemptsType DEF IInv, TypeOK
<1>m. policy.max_delay_ms \in Nat
  BY <1>0 DEF RetryPolicy
<1>1. CASE Call
  BY <1>0, <1>m, <1>1 DEF Call, IInv, TypeOK, Progressing, SleepBounded, Transient, policy
<1>2. ASSUME NEW r \in Results, AttemptReturns(r)
      PROVE  IInv'
  BY <1>0, <1>m, <1>2 DEF AttemptReturns, last, IInv, TypeOK, Progressing,
     SleepBounded, Transient, policy
<1>3. CASE AttemptThrows
  BY <1>0, <1>m, <1>3 DEF AttemptThrows, last, IInv, TypeOK, Progressing,
     SleepBounded, Transient, policy
<1>4. ASSUME NEW draw \in 0 .. (Unit - 1), Backoff(draw)
      PROVE  IInv'
  <2> DEFINE d == backoffDelayMs(policy, i, draw)
  <2>1. d \in 0 .. policy.max_delay_ms
    <3>1. i \in Nat /\ draw \in Int
      BY DEF IInv, TypeOK
    <3>2. \A p \in RetryPolicy, a \in Nat, u \in Int :
              backoffDelayMs(p, a, u) \in 0 .. p.max_delay_ms
      BY DelayBound
    <3>3. policy \in RetryPolicy
      BY <1>0
    <3> QED
      BY <3>1, <3>2, <3>3
  <2>2. policy' = policy /\ slept' = slept + d /\ i' = i + 1
    BY <1>4 DEF Backoff, policy
  <2> HIDE DEF d
  <2>3. SleepBounded'
    <3>1. slept <= (i - 1) * policy.max_delay_ms /\ i >= 1 /\ i \in Nat /\ slept \in Nat
      BY <1>4 DEF IInv, TypeOK, Progressing, SleepBounded, Backoff
    <3>2. (i - 1) * policy.max_delay_ms + policy.max_delay_ms = i * policy.max_delay_ms
      BY <3>1, <1>m
    <3>3. slept + d <= i * policy.max_delay_ms
      BY <3>1, <3>2, <2>1, <1>m
    <3> QED
      BY <3>1, <3>3, <2>2 DEF SleepBounded
  <2>4. TypeOK'
    BY <1>4, <1>m, <2>1, <2>2 DEF IInv, TypeOK, Backoff
  <2>5. Progressing'
    BY <1>0, <1>4, <2>2 DEF IInv, TypeOK, Progressing, Backoff, Transient
  <2> QED
    BY <2>3, <2>4, <2>5 DEF IInv
<1>5. CASE UNCHANGED vars
  BY <1>5 DEF vars, IInv, TypeOK, Progressing, SleepBounded, Transient, policy
<1> QED
  BY <1>1, <1>2, <1>3, <1>4, <1>5 DEF Next

LEMMA Initially == Init => IInv
BY PolicyType, AttemptsType, EnvsAssumption, ResultsAssumption
   DEF Init, IInv, TypeOK, Progressing, SleepBounded, Transient, policy

LEMMA Invariance == SafeSpec => []IInv
BY Initially, Induction, PTL DEF SafeSpec

\* The loop's variables keep their types and the policy is always usable.
THEOREM TypeCorrect == SafeSpec => []TypeOK
<1>1. IInv => TypeOK
  BY DEF IInv
<1> QED
  BY <1>1, Invariance, PTL

\* A call never sleeps longer than its tries allow.
THEOREM SleepIsBounded == SafeSpec => []SleepBounded
<1>1. IInv => SleepBounded
  BY DEF IInv
<1> QED
  BY <1>1, Invariance, PTL

\* One try more than KSERVE_MAX_RETRIES is an int.
NoOverflow == \A e \in Envs : e.max_retries # IntMax

\* envAttempts and runWithRetry: a transient failure reaches the caller only after
\* every try the environment asked for, unless it asks for more than an int holds.
THEOREM EveryAttemptIsSpent ==
  ASSUME NoOverflow
  PROVE  SafeSpec => []SpendsEveryAttempt
<1>1. IInv => SpendsEveryAttempt
  <2> SUFFICES ASSUME IInv, phase = "idle", outcome \in Transient
               PROVE  i = IF env.max_retries # NoNumber /\ env.max_retries >= 0
                          THEN env.max_retries + 1 ELSE 3
    BY DEF SpendsEveryAttempt
  <2>1. i = AttemptsOf(policy)
    BY DEF IInv, Progressing
  <2>2. policy.max_attempts = envAttempts(env.max_retries, 3)
    BY DEF policy, retryPolicyFromEnv, DefaultPolicy
  <2>3. env.max_retries \in CInt \cup {NoNumber} /\ env.max_retries # IntMax
    BY EnvsAssumption, NoOverflow DEF IInv, TypeOK, RetryEnv, NoOverflow
  <2> QED
    BY <2>1, <2>2, <2>3, IntMaxAssumption, NoNumberAssumption DEF AttemptsOf, envAttempts, AddInt, CInt
<1> QED
  BY <1>1, Invariance, PTL

----------------------------------------------------------------------------
(* The schedule of the waits.                                               *)

\* The exponential terms, by their recursion.
LEMMA Terms ==
  ASSUME policy \in RetryPolicy
  PROVE  /\ \A n \in Nat : Term[n] \in Nat
         /\ Term[1] = Lesser(policy.base_delay_ms, policy.max_delay_ms)
         /\ \A n \in Nat : n >= 1 => Term[n + 1] = Lesser(2 * Term[n], policy.max_delay_ms)
<1> DEFINE first == Lesser(policy.base_delay_ms, policy.max_delay_ms)
           max == policy.max_delay_ms
<1>1. max \in Nat /\ first \in Nat
  BY IntMaxAssumption DEF RetryPolicy, Lesser
<1> HIDE DEF first, max
<1> DEFINE step == [x \in Nat \X Nat |-> IF x[1] = 0 THEN first ELSE Lesser(2 * x[2], max)]
           Body(h) == [n \in Nat |-> IF n <= 1 THEN first ELSE Lesser(2 * h[n - 1], max)]
<1>2. step \in [Nat \X Nat -> Nat]
  BY <1>1 DEF Lesser
<1>3. PICK f : Numbers!Iterates(f, Nat, first, step)
  <2> HIDE DEF step
  <2> QED
    BY <1>1, <1>2, Numbers!Recursion
<1>4. /\ f \in [Nat -> Nat] /\ f[0] = first
      /\ \A n \in Nat : f[n + 1] = IF n = 0 THEN first ELSE Lesser(2 * f[n], max)
  BY <1>3 DEF Numbers!Iterates
<1>5. f = Body(f)
  <2>1. \A n \in Nat \ {0} : n - 1 \in Nat /\ (n - 1) + 1 = n /\ (n <= 1 <=> n - 1 = 0)
    OBVIOUS
  <2>2. \A n \in Nat \ {0} : f[n] = IF n <= 1 THEN first ELSE Lesser(2 * f[n - 1], max)
    BY <1>4, <2>1
  <2> QED
    BY <1>4, <2>2
<1> DEFINE g == Term
<1>6. g = Body(g)
  BY <1>5, Zenon DEF Term, first, max
<1> HIDE DEF g
<1>7. /\ g = [n \in Nat |-> g[n]] /\ g[0] = first
      /\ \A n \in Nat : g[n + 1] = IF n = 0 THEN first ELSE Lesser(2 * g[n], max)
  <2>1. \A n \in Nat : n + 1 \in Nat /\ (n + 1 <= 1 <=> n = 0) /\ (n + 1) - 1 = n
    OBVIOUS
  <2> QED
    BY <1>6, <2>1
<1>8. \A n \in Nat : g[n] \in Nat => g[n + 1] = step[<<n, g[n]>>]
  BY <1>7
<1>9. Numbers!Iterates(g, Nat, first, step)
  <2> HIDE DEF step
  <2> QED
    BY <1>1, <1>2, <1>7, <1>8, Numbers!IteratesByInduction
<1>10. (\A n \in Nat : g[n] \in Nat) /\ g[1] = first
  BY <1>7, <1>9 DEF Numbers!Iterates
<1>11. \A n \in Nat : n >= 1 => g[n + 1] = Lesser(2 * g[n], max)
  BY <1>7
<1> QED
  BY <1>10, <1>11 DEF g, first, max

\* Their sums.
LEMMA Sums ==
  ASSUME policy \in RetryPolicy
  PROVE  /\ \A n \in Nat : Nominal[n] \in Nat
         /\ Nominal[0] = 0
         /\ \A n \in Nat : Nominal[n + 1] = Nominal[n] + Term[n + 1]
<1> DEFINE term == Term
<1>1. \A n \in Nat : term[n] \in Nat
  BY Terms
<1> HIDE DEF term
<1> DEFINE step == [x \in Nat \X Nat |-> x[2] + term[x[1] + 1]]
           Body(h) == [n \in Nat |-> IF n = 0 THEN 0 ELSE h[n - 1] + term[n]]
<1>2. 0 \in Nat /\ step \in [Nat \X Nat -> Nat]
  BY <1>1
<1>3. PICK f : Numbers!Iterates(f, Nat, 0, step)
  <2> HIDE DEF step
  <2> QED
    BY <1>2, Numbers!Recursion
<1>4. f \in [Nat -> Nat] /\ f[0] = 0 /\ \A n \in Nat : f[n + 1] = f[n] + term[n + 1]
  BY <1>3 DEF Numbers!Iterates
<1>5. f = Body(f)
  <2>1. \A n \in Nat \ {0} : n - 1 \in Nat /\ (n - 1) + 1 = n
    OBVIOUS
  <2>2. \A n \in Nat \ {0} : f[n] = f[n - 1] + term[n]
    BY <1>4, <2>1
  <2> QED
    BY <1>4, <2>2
<1> DEFINE g == Nominal
<1>6. g = Body(g)
  BY <1>5, Zenon DEF Nominal, term
<1> HIDE DEF g
<1>7. /\ g = [n \in Nat |-> g[n]] /\ g[0] = 0
      /\ \A n \in Nat : g[n + 1] = g[n] + term[n + 1]
  <2>1. \A n \in Nat : n + 1 \in Nat /\ n + 1 # 0 /\ (n + 1) - 1 = n
    OBVIOUS
  <2> QED
    BY <1>6, <2>1
<1>8. \A n \in Nat : g[n] \in Nat => g[n + 1] = step[<<n, g[n]>>]
  BY <1>7
<1>9. Numbers!Iterates(g, Nat, 0, step)
  <2> HIDE DEF step
  <2> QED
    BY <1>2, <1>7, <1>8, Numbers!IteratesByInduction
<1>10. \A n \in Nat : g[n] \in Nat
  BY <1>9 DEF Numbers!Iterates
<1> QED
  BY <1>7, <1>10 DEF g, term

\* Doubling with a cap comes to the same as a power of two with a cap.
LEMMA CapLast ==
  ASSUME policy \in RetryPolicy, NEW attempt \in Nat \ {0}
  PROVE  ExpDelay(policy, attempt) = Term[attempt]
<1> DEFINE base == policy.base_delay_ms
           max == policy.max_delay_ms
           T == {n \in Nat : Lesser(base * PowerOf2[n], max) = Term[n + 1]}
<1>1. base \in Nat /\ max \in Nat
  BY IntMaxAssumption DEF RetryPolicy
<1>2. 0 \in T
  <2>1. base * PowerOf2[0] = base
    BY <1>1, Powers
  <2> QED
    BY <2>1, Terms
<1>3. ASSUME NEW n \in Nat, n \in T
      PROVE  n + 1 \in T
  <2>1. PowerOf2[n] \in Nat /\ PowerOf2[n + 1] = 2 * PowerOf2[n]
    BY Powers
  <2> DEFINE x == base * PowerOf2[n]
  <2>2. x \in Nat /\ base * PowerOf2[n + 1] = 2 * x
    BY <1>1, <2>1
  <2>3. Term[(n + 1) + 1] = Lesser(2 * Lesser(x, max), max)
    <3>1. Term[n + 1] = Lesser(x, max) /\ n + 1 \in Nat /\ n + 1 >= 1
      BY <1>3
    <3> QED
      BY <3>1, Terms
  <2> HIDE DEF x, max
  <2>4. Lesser(2 * Lesser(x, max), max) = Lesser(2 * x, max)
    BY <1>1, <2>2 DEF Lesser
  <2> QED
    BY <2>2, <2>3, <2>4 DEF max
<1>4. Nat \subseteq T
  <2> HIDE DEF T
  <2> QED
    BY <1>2, <1>3, Numbers!SetInduction
<1>5. attempt - 1 \in T /\ (attempt - 1) + 1 = attempt
  BY <1>4
<1> QED
  BY <1>5 DEF ExpDelay

\* Dividing a bound by a positive factor.
LEMMA Cancel ==
  ASSUME NEW a \in Int, NEW b \in Int, NEW u \in Nat \ {0}, a * u <= b * u
  PROVE  a <= b
OBVIOUS

\* A rounded quotient is off by at most a half.
LEMMA RoundNear ==
  ASSUME NEW num \in Nat, NEW den \in Nat \ {0}
  PROVE  /\ Round(num, den) \in Nat
         /\ 2 * num - den <= 2 * Round(num, den) * den
         /\ 2 * Round(num, den) * den <= 2 * num + den
<1> DEFINE x == 2 * num + den
           d == 2 * den
           q == x \div d
<1>1. x \in Nat /\ d \in Nat \ {0}
  OBVIOUS
<1>2. q \in Nat /\ q * d <= x /\ x < q * d + d
  <2> HIDE DEF x, d
  <2> QED
    BY <1>1
<1> HIDE DEF q
<1>3. q * d = 2 * q * den
  BY <1>2
<1>4. 2 * num - den <= 2 * q * den /\ 2 * q * den <= 2 * num + den
  BY <1>2, <1>3
<1> QED
  BY <1>2, <1>4 DEF Round, q

\* A delay is its exponential term, off by at most the jitter fraction and half
\* a millisecond.
LEMMA DelayNear ==
  ASSUME NEW p \in RetryPolicy, NEW attempt \in Nat \ {0}, NEW draw \in 0 .. (Unit - 1),
         ExpDelay(p, attempt) \in 0 .. p.max_delay_ms
  PROVE  LET d == backoffDelayMs(p, attempt, draw)
             term == ExpDelay(p, attempt)
         IN /\ 2 * term * (Unit - p.jitter) - Unit <= 2 * d * Unit
            /\ 2 * d * Unit <= 2 * term * (Unit + p.jitter) + Unit
<1> DEFINE term == ExpDelay(p, attempt)
           max == p.max_delay_ms
           j == p.jitter
           scale == Unit * Unit
           factor == scale - j * Unit + 2 * draw * j
           x == Clamp(term * factor, 0, max * scale)
           d == Round(x, scale)
<1>1. Unit \in Nat \ {0} /\ j \in 0 .. Unit /\ max \in Nat /\ term \in 0 .. max /\ draw \in 0 .. Unit
  BY UnitAssumption, IntMaxAssumption DEF RetryPolicy
<1>2. backoffDelayMs(p, attempt, draw) = d
  <2>1. Clamp(draw, 0, Unit) = draw
    BY <1>1 DEF Clamp, Lesser
  <2> QED
    BY <2>1 DEF backoffDelayMs
<1> HIDE DEF term, max, j
<1>3. scale \in Nat \ {0} /\ scale = Unit * Unit
  BY <1>1
<1>4. /\ factor \in Nat
      /\ Unit * (Unit - j) <= factor /\ factor <= Unit * (Unit + j)
  <2>1. draw * j \in Nat /\ draw * j <= Unit * j /\ j * Unit = Unit * j /\ Unit * j <= Unit * Unit
    BY <1>1
  <2>2. Unit * (Unit - j) = Unit * Unit - Unit * j /\ Unit * (Unit + j) = Unit * Unit + Unit * j
    BY <1>1
  <2>3. Unit * j \in Nat /\ Unit * Unit \in Nat
    BY <1>1
  <2>4. 2 * draw * j = 2 * (draw * j)
    BY <1>1
  <2> QED
    BY <2>1, <2>2, <2>3, <2>4
<1> HIDE DEF factor
<1>5. /\ x \in Nat
      /\ term * (Unit * (Unit - j)) <= x /\ x <= term * (Unit * (Unit + j))
  <2>1. /\ term * factor \in Nat /\ max * scale \in Nat
        /\ term * (Unit * (Unit - j)) <= term * factor
        /\ term * factor <= term * (Unit * (Unit + j))
    BY <1>1, <1>3, <1>4
  <2>2. term * (Unit * (Unit - j)) <= max * scale
    <3>1. Unit * (Unit - j) \in Nat /\ Unit * (Unit - j) <= scale
      BY <1>1, <1>3
    <3>2. term * (Unit * (Unit - j)) <= term * scale
      BY <1>1, <1>3, <3>1
    <3>3. term * scale <= max * scale
      BY <1>1, <1>3
    <3> HIDE DEF scale
    <3>4. term * (Unit * (Unit - j)) \in Int /\ term * scale \in Int /\ max * scale \in Int
      BY <1>1, <1>3, <3>1
    <3> QED
      BY <3>2, <3>3, <3>4
  <2>3. x = term * factor \/ (x = max * scale /\ max * scale <= term * factor)
    BY <2>1 DEF Clamp, Lesser
  <2> DEFINE lo == term * (Unit * (Unit - j))
             hi == term * (Unit * (Unit + j))
             mid == term * factor
             top == max * scale
  <2>4. lo \in Nat /\ hi \in Nat
    BY <1>1
  <2> HIDE DEF lo, hi, mid, top, x
  <2> QED
    BY <2>1, <2>2, <2>3, <2>4 DEF lo, hi, mid, top
<1> HIDE DEF x, scale
<1>6. d \in Nat /\ 2 * x - scale <= 2 * d * scale /\ 2 * d * scale <= 2 * x + scale
  <2>1. x \in Nat /\ scale \in Nat \ {0}
    BY <1>3, <1>5
  <2> QED
    BY <2>1, RoundNear
<1> HIDE DEF d
<1> DEFINE lo == term * (Unit * (Unit - j))
           hi == term * (Unit * (Unit + j))
           twice == 2 * d * scale
<1>9. lo \in Nat /\ hi \in Nat /\ twice \in Nat
  BY <1>1, <1>3, <1>6
<1>7. 2 * term * (Unit - j) - Unit <= 2 * d * Unit
  <2>1. (2 * term * (Unit - j) - Unit) * Unit = 2 * (term * (Unit * (Unit - j))) - scale
    BY <1>1, <1>3
  <2>2. (2 * d * Unit) * Unit = 2 * d * scale
    BY <1>1, <1>3, <1>6
  <2>3. (2 * term * (Unit - j) - Unit) * Unit <= (2 * d * Unit) * Unit
    <3> HIDE DEF lo, hi, twice
    <3>1. 2 * lo - scale <= twice
      BY <1>3, <1>5, <1>6, <1>9 DEF lo, twice
    <3> QED
      BY <2>1, <2>2, <3>1 DEF lo, twice
  <2>4. 2 * term * (Unit - j) - Unit \in Int /\ 2 * d * Unit \in Int
    BY <1>1, <1>6
  <2> QED
    BY <1>1, <2>3, <2>4, Cancel
<1>8. 2 * d * Unit <= 2 * term * (Unit + j) + Unit
  <2>1. (2 * term * (Unit + j) + Unit) * Unit = 2 * (term * (Unit * (Unit + j))) + scale
    BY <1>1, <1>3
  <2>2. (2 * d * Unit) * Unit = 2 * d * scale
    BY <1>1, <1>3, <1>6
  <2>3. (2 * d * Unit) * Unit <= (2 * term * (Unit + j) + Unit) * Unit
    <3> HIDE DEF lo, hi, twice
    <3>1. twice <= 2 * hi + scale
      BY <1>3, <1>5, <1>6, <1>9 DEF hi, twice
    <3> QED
      BY <2>1, <2>2, <3>1 DEF hi, twice
  <2>4. 2 * term * (Unit + j) + Unit \in Int /\ 2 * d * Unit \in Int
    BY <1>1, <1>6
  <2> QED
    BY <1>1, <2>3, <2>4, Cancel
<1> QED
  BY <1>2, <1>7, <1>8 DEF term, j

\* A backoff adds one term to the schedule.
LEMMA BackoffOnSchedule ==
  ASSUME IInv, SleepsTheSchedule, NEW draw \in 0 .. (Unit - 1), Backoff(draw)
  PROVE  SleepsTheSchedule'
<1> DEFINE j == policy.jitter
           n == i - 1
           term == Term[i]
           d == backoffDelayMs(policy, i, draw)
           sum == Nominal[n]
<1>1. policy \in RetryPolicy /\ i \in Nat \ {0} /\ n \in Nat /\ n + 1 = i /\ slept \in Nat
  BY DEF IInv, TypeOK, Progressing, Backoff
<1>2. Unit \in Nat \ {0} /\ j \in 0 .. Unit
  BY <1>1, UnitAssumption DEF RetryPolicy
<1>3. term \in Nat /\ sum \in Nat /\ Nominal[i] = sum + term
  BY <1>1, Terms, Sums
<1>4. ExpDelay(policy, i) = term /\ term \in 0 .. policy.max_delay_ms
  <2>1. ExpDelay(policy, i) = term
    BY <1>1, CapLast
  <2>2. policy.max_delay_ms \in Nat
    BY <1>1, IntMaxAssumption DEF RetryPolicy
  <2>3. \A a : Lesser(a, policy.max_delay_ms) \in Nat =>
          Lesser(a, policy.max_delay_ms) <= policy.max_delay_ms
    BY <2>2 DEF Lesser
  <2> QED
    BY <1>3, <2>1, <2>2, <2>3 DEF ExpDelay
<1>5. /\ 2 * term * (Unit - j) - Unit <= 2 * d * Unit
      /\ 2 * d * Unit <= 2 * term * (Unit + j) + Unit
  BY <1>1, <1>2, <1>4, DelayNear
<1>6. d \in Nat
  <2>1. d \in 0 .. policy.max_delay_ms
    <3>1. i \in Nat /\ draw \in Int
      BY <1>1, <1>2
    <3>2. \A p \in RetryPolicy, a \in Nat, u \in Int :
            backoffDelayMs(p, a, u) \in 0 .. p.max_delay_ms
      BY DelayBound
    <3> QED
      BY <1>1, <3>1, <3>2
  <2> QED
    BY <1>1, <2>1, IntMaxAssumption DEF RetryPolicy
<1>7. /\ 2 * slept * Unit >= 2 * sum * (Unit - j) - n * Unit
      /\ 2 * slept * Unit <= 2 * sum * (Unit + j) + n * Unit
  BY <1>1 DEF SleepsTheSchedule
<1>8. /\ policy' = policy /\ slept' = slept + d /\ i' = i + 1 /\ i' - 1 = i
      /\ Nominal'[i] = Nominal[i]
  <2>1. policy' = policy /\ slept' = slept + d /\ i' = i + 1 /\ i' - 1 = i
    BY <1>1 DEF Backoff, policy
  <2>2. Nominal' = Nominal
    BY <2>1 DEF Nominal, Term
  <2> QED
    BY <2>1, <2>2
<1> HIDE DEF j, n, term, d, sum
<1>9. /\ 2 * (slept + d) * Unit >= 2 * (sum + term) * (Unit - j) - i * Unit
      /\ 2 * (slept + d) * Unit <= 2 * (sum + term) * (Unit + j) + i * Unit
  <2>1. 2 * (slept + d) * Unit = 2 * slept * Unit + 2 * d * Unit
    BY <1>1, <1>2, <1>6
  <2>2. /\ 2 * (sum + term) * (Unit - j) = 2 * sum * (Unit - j) + 2 * term * (Unit - j)
        /\ 2 * (sum + term) * (Unit + j) = 2 * sum * (Unit + j) + 2 * term * (Unit + j)
        /\ i * Unit = n * Unit + Unit
    BY <1>1, <1>2, <1>3
  <2>3. /\ 2 * sum * (Unit - j) \in Int /\ 2 * term * (Unit - j) \in Int /\ n * Unit \in Int
        /\ 2 * sum * (Unit + j) \in Int /\ 2 * term * (Unit + j) \in Int
        /\ 2 * slept * Unit \in Int /\ 2 * d * Unit \in Int
    BY <1>1, <1>2, <1>3, <1>6
  <2> QED
    BY <1>1, <1>2, <1>5, <1>7, <2>1, <2>2, <2>3
<1> QED
  BY <1>3, <1>8, <1>9 DEF SleepsTheSchedule, j

\* Before try i a call has slept the sum of the i - 1 exponential terms, each
\* off by at most the jitter and the rounding, for every policy and every draw.
THEOREM OnSchedule == SafeSpec => []SleepsTheSchedule
<1>1. Init => SleepsTheSchedule
  BY DEF Init, SleepsTheSchedule
<1>2. ASSUME IInv, SleepsTheSchedule, [Next]_vars
      PROVE  SleepsTheSchedule'
  <2>1. CASE Call
    <3>1. policy \in RetryPolicy /\ policy' = policy /\ i' = 1 /\ slept' = 0
      BY <1>2, <2>1 DEF Call, IInv, TypeOK, policy
    <3>2. Nominal' = Nominal
      BY <3>1 DEF Nominal, Term
    <3>3. Nominal'[0] = 0 /\ policy.jitter \in 0 .. Unit
      BY <3>1, <3>2, Sums, UnitAssumption DEF RetryPolicy
    <3> QED
      BY <3>1, <3>3, UnitAssumption DEF SleepsTheSchedule
  <2>2. CASE UNCHANGED <<env, i, slept>>
    <3>1. policy' = policy
      BY <2>2 DEF policy
    <3>2. Nominal' = Nominal
      BY <3>1 DEF Nominal, Term
    <3> QED
      BY <1>2, <2>2, <3>1, <3>2 DEF SleepsTheSchedule
  <2>3. ASSUME NEW draw \in 0 .. (Unit - 1), Backoff(draw)
        PROVE  SleepsTheSchedule'
    BY <1>2, <2>3, BackoffOnSchedule
  <2> QED
    BY <1>2, <2>1, <2>2, <2>3 DEF Next, AttemptReturns, AttemptThrows, vars
<1> QED
  BY <1>1, <1>2, Initially, Induction, PTL DEF SafeSpec
============================================================================
