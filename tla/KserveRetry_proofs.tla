------------------------- MODULE KserveRetry_proofs ------------------------
(***************************************************************************)
(* What the retry policy and the backoff schedule guarantee, for every     *)
(* environment, attempt and draw.                                          *)
(***************************************************************************)
EXTENDS KserveRetry, TLAPS

\* Nothing about tensors is used of the lemmas.
Numbers == INSTANCE Lemmas WITH Values <- {}

\* The powers of two, by their recursion.
LEMMA Powers ==
  /\ PowerOf2 \in [Nat -> Nat]
  /\ PowerOf2[0] = 1
  /\ \A n \in Nat : PowerOf2[n + 1] = 2 * PowerOf2[n]
<1> DEFINE step == [x \in Nat \X Nat |-> 2 * x[2]]
           Body(h) == [n \in Nat |-> IF n = 0 THEN 1 ELSE 2 * h[n - 1]]
<1>1. 1 \in Nat /\ step \in [Nat \X Nat -> Nat]
  OBVIOUS
<1>2. PICK f : Numbers!Iterates(f, Nat, 1, step)
  <2> HIDE DEF step
  <2> QED
    BY <1>1, Numbers!Recursion
<1>3. f \in [Nat -> Nat] /\ f[0] = 1 /\ \A n \in Nat : f[n + 1] = 2 * f[n]
  BY <1>2 DEF Numbers!Iterates
<1>4. f = Body(f)
  <2>1. \A n \in Nat \ {0} : n - 1 \in Nat /\ (n - 1) + 1 = n
    OBVIOUS
  <2>2. \A n \in Nat \ {0} : f[n] = 2 * f[n - 1]
    BY <1>3, <2>1
  <2> QED
    BY <1>3, <2>2
<1> DEFINE g == PowerOf2
<1>5. g = Body(g)
  BY <1>4, Zenon DEF PowerOf2
<1> HIDE DEF g
<1>6. g = [n \in Nat |-> g[n]] /\ g[0] = 1 /\ \A n \in Nat : g[n + 1] = 2 * g[n]
  <2>1. \A n \in Nat : n + 1 \in Nat /\ n + 1 # 0 /\ (n + 1) - 1 = n
    OBVIOUS
  <2> QED
    BY <1>5, <2>1
<1>7. \A n \in Nat : g[n] \in Nat => g[n + 1] = step[<<n, g[n]>>]
  BY <1>6
<1>8. Numbers!Iterates(g, Nat, 1, step)
  <2> HIDE DEF step
  <2> QED
    BY <1>1, <1>6, <1>7, Numbers!IteratesByInduction
<1> QED
  BY <1>6, <1>8 DEF g, Numbers!Iterates

USE IntMaxAssumption, UnitAssumption, NoNumberAssumption

\* retryPolicyFromEnv returns a policy the loop can use, whatever the
\* environment holds.
LEMMA PolicyType ==
  ASSUME NEW e \in RetryEnv
  PROVE  retryPolicyFromEnv(e) \in RetryPolicy
<1>1. envAttempts(e.max_retries, 3) \in CInt
  BY DEF RetryEnv, CInt, envAttempts, AddInt
<1>2. envInt(e.base_ms, 100) \in 1 .. IntMax
  BY DEF RetryEnv, CInt, envInt
<1>3. envInt(e.max_ms, 2000) \in 1 .. IntMax
  BY DEF RetryEnv, CInt, envInt
<1>4. Unit \div 5 \in 0 .. Unit
  OBVIOUS
<1>5. envFraction(e.jitter, Unit \div 5) \in 0 .. Unit
  BY <1>4 DEF RetryEnv, envFraction
<1> QED
  BY <1>1, <1>2, <1>3, <1>5 DEF retryPolicyFromEnv, DefaultPolicy, RetryPolicy

\* The loop makes at least one try.
LEMMA AttemptsType ==
  ASSUME NEW p \in RetryPolicy
  PROVE  AttemptsOf(p) \in Nat \ {0}
BY DEF AttemptsOf, RetryPolicy, CInt

\* Rounding a quotient does not take it past an integer bound.
LEMMA RoundBound ==
  ASSUME NEW num \in Nat, NEW den \in Nat \ {0}, NEW bound \in Nat,
         num <= bound * den
  PROVE  Round(num, den) \in 0 .. bound
<1>1. (2 * num + den) \div (2 * den) <= bound
  OBVIOUS
<1>2. (2 * num + den) \div (2 * den) \in Nat
  OBVIOUS
<1> QED
  BY <1>1, <1>2 DEF Round

\* Every delay lies in 0 .. max_delay_ms, for any attempt and any draw.
LEMMA DelayBound ==
  ASSUME NEW p \in RetryPolicy, NEW attempt \in Nat, NEW draw \in Int
  PROVE  backoffDelayMs(p, attempt, draw) \in 0 .. p.max_delay_ms
<1> DEFINE scale == Unit * Unit
           top == p.max_delay_ms * scale
           factor == scale - p.jitter * Unit + 2 * Clamp(draw, 0, Unit) * p.jitter
           term == ExpDelay(p, attempt) * factor
<1>1. p.max_delay_ms \in Nat /\ p.base_delay_ms \in Nat /\ p.jitter \in Nat
  BY DEF RetryPolicy
<1>2. scale \in Nat \ {0} /\ top \in Nat
  BY <1>1
<1>3. CASE attempt < 1
  BY <1>1, <1>3 DEF backoffDelayMs
<1>4. CASE attempt >= 1
  <2>1. ExpDelay(p, attempt) \in Int
    <3>1. PowerOf2[attempt - 1] \in Int
      <4>1. attempt - 1 \in Nat
        BY <1>4
      <4> QED
        BY <4>1, Powers
    <3> QED
      BY <3>1, <1>1 DEF ExpDelay, Lesser
  <2>2. factor \in Int
    <3>1. Clamp(draw, 0, Unit) \in Int
      BY DEF Clamp, Lesser
    <3> QED
      BY <3>1, <1>1
  <2>3. term \in Int
    BY <2>1, <2>2
  <2>4. Clamp(term, 0, top) \in 0 .. top
    <3> HIDE DEF term, top
    <3> QED
      BY <2>3, <1>2 DEF Clamp, Lesser
  <2>5. Round(Clamp(term, 0, top), scale) \in 0 .. p.max_delay_ms
    <3> HIDE DEF term, scale
    <3> QED
      BY <2>4, <1>1, <1>2, RoundBound
  <2> QED
    BY <2>5, <1>4 DEF backoffDelayMs
<1> QED
  BY <1>3, <1>4
============================================================================
