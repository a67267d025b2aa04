------------------------------ MODULE Lemmas -------------------------------
(***************************************************************************)
(* Facts that the proofs of several components rest on: induction and      *)
(* recursion over numbers, sequences that are put together, what the       *)
(* tensor codec does to bytes, and to the numbers of an FP16 tensor.       *)
(***************************************************************************)
EXTENDS TensorBytes, HalfFloat, SequencesExt, SequenceTheorems, FiniteSetTheorems,
        WellFoundedInduction, TLAPS

----------------------------------------------------------------------------
(* Induction and recursion over numbers.                                    *)

\* The library's order on numbers is theirs.
LEMMA Below == \A x, y \in Nat : <<x, y>> \in OpToRel(<, Nat) <=> x < y
BY DEF OpToRel

\* A non-empty set of numbers has a least element.
LEMMA LeastNumber ==
  ASSUME NEW T \in SUBSET Nat, T # {}
  PROVE  \E x \in T : \A y \in T : x <= y
<1>1. \E x \in T : \A y \in T : ~ (<<y, x>> \in OpToRel(<, Nat))
  BY WFMin, NatLessThanWellFounded
<1>2. \E x \in T : \A y \in T : ~ (y < x)
  BY <1>1, Below, Zenon
<1> QED
  BY <1>2

\* Induction, over a set in place of a predicate.
LEMMA SetInduction ==
  ASSUME NEW S, 0 \in S, \A n \in Nat : n \in S => n + 1 \in S
  PROVE  Nat \subseteq S
<1> SUFFICES ASSUME NEW n \in Nat, n \notin S PROVE FALSE
  OBVIOUS
<1> DEFINE T == {k \in Nat : k \notin S}
<1>1. PICK x \in T : \A y \in T : x <= y
  BY LeastNumber
<1>2. x \in Nat /\ x # 0 /\ x \notin S
  OBVIOUS
<1>3. x - 1 \in Nat
  BY <1>2
<1>4. x - 1 \in S
  BY <1>1, <1>2, <1>3
<1> QED
  BY <1>2, <1>3, <1>4

\* f begins with a and goes on by step.
Iterates(f, S, a, step) ==
  f \in [Nat -> S] /\ f[0] = a /\ \A n \in Nat : f[n + 1] = step[<<n, f[n]>>]

\* Recursion: whatever the start and the step, there is such a function.
LEMMA Recursion ==
  ASSUME NEW S, NEW a \in S, NEW step \in [Nat \X S -> S]
  PROVE  \E f : Iterates(f, S, a, step)
<1> DEFINE Ok(g, n) == /\ g \in [0 .. n -> S] /\ g[0] = a
                       /\ \A k \in 0 .. (n - 1) : g[k + 1] = step[<<k, g[k]>>]
<1>1. \A n \in Nat : \E g : Ok(g, n)
  <2> DEFINE T == {n \in Nat : \E g : Ok(g, n)}
  <2>1. 0 \in T
    <3>1. Ok([k \in 0 .. 0 |-> a], 0)
      OBVIOUS
    <3> HIDE DEF Ok
    <3> QED
      BY <3>1
  <2>2. ASSUME NEW n \in Nat, n \in T
        PROVE  n + 1 \in T
    <3>1. PICK g : Ok(g, n)
      BY <2>2
    <3> DEFINE h == [k \in 0 .. (n + 1) |-> IF k <= n THEN g[k] ELSE step[<<n, g[n]>>]]
    <3>2. \A k \in 0 .. n : g[k] \in S
      BY <3>1
    <3>3. h \in [0 .. (n + 1) -> S]
      BY <3>2
    <3>4. h[0] = a
      BY <3>1
    <3>5. ASSUME NEW k \in 0 .. n
          PROVE  h[k + 1] = step[<<k, h[k]>>]
      <4>1. CASE k < n
        BY <3>1, <4>1
      <4>2. CASE k = n
        BY <4>2, SMTT(30)
      <4> QED
        BY <4>1, <4>2
    <3>6. Ok(h, n + 1)
      <4>1. 0 .. ((n + 1) - 1) = 0 .. n
        OBVIOUS
      <4> HIDE DEF h
      <4> QED
        BY <3>3, <3>4, <3>5, <4>1
    <3> HIDE DEF Ok
    <3> QED
      BY <3>6
  <2> HIDE DEF Ok
  <2>3. Nat \subseteq T
    BY <2>1, <2>2, SetInduction
  <2> QED
    BY <2>3
<1>2. ASSUME NEW n \in Nat, NEW m \in Nat, NEW g, NEW h, Ok(g, n), Ok(h, m)
      PROVE  \A k \in Nat : k <= n /\ k <= m => g[k] = h[k]
  <2> DEFINE T == {k \in Nat : k <= n /\ k <= m => g[k] = h[k]}
  <2>1. 0 \in T
    BY <1>2
  <2>2. ASSUME NEW k \in Nat, k \in T
        PROVE  k + 1 \in T
    <3> SUFFICES ASSUME k + 1 <= n, k + 1 <= m
                 PROVE  g[k + 1] = h[k + 1]
      OBVIOUS
    <3>1. k \in 0 .. (n - 1) /\ k \in 0 .. (m - 1) /\ g[k] = h[k]
      BY <2>2
    <3> QED
      BY <1>2, <3>1
  <2>3. Nat \subseteq T
    BY <2>1, <2>2, SetInduction
  <2> QED
    BY <2>3
<1> DEFINE G(n) == CHOOSE g : Ok(g, n)
           f == [n \in Nat |-> G(n)[n]]
<1>3. \A n \in Nat : Ok(G(n), n)
  BY <1>1
<1> HIDE DEF G
<1>4. f \in [Nat -> S]
  BY <1>3
<1>5. f[0] = a
  BY <1>3
<1>6. ASSUME NEW n \in Nat
      PROVE  f[n + 1] = step[<<n, f[n]>>]
  <2>1. Ok(G(n), n) /\ Ok(G(n + 1), n + 1) /\ n + 1 \in Nat /\ n <= n + 1
    BY <1>3
  <2>2. G(n)[n] = G(n + 1)[n]
    <3> HIDE DEF Ok
    <3> QED
      BY <1>2, <2>1
  <2>3. G(n + 1)[n + 1] = step[<<n, G(n + 1)[n]>>]
    BY <2>1
  <2> QED
    BY <2>2, <2>3
<1>7. Iterates(f, S, a, step)
  BY <1>4, <1>5, <1>6 DEF Iterates
<1> QED
  BY <1>7

\* A function that begins and goes on alike as long as its values are in S.
LEMMA IteratesByInduction ==
  ASSUME NEW S, NEW a \in S, NEW step \in [Nat \X S -> S],
         NEW g, g = [n \in Nat |-> g[n]], g[0] = a,
         \A n \in Nat : g[n] \in S => g[n + 1] = step[<<n, g[n]>>]
  PROVE  Iterates(g, S, a, step)
<1> DEFINE T == {n \in Nat : g[n] \in S}
<1>1. 0 \in T
  OBVIOUS
<1>2. ASSUME NEW n \in Nat, n \in T
      PROVE  n + 1 \in T
  <2>1. <<n, g[n]>> \in Nat \X S /\ g[n + 1] = step[<<n, g[n]>>]
    BY <1>2
  <2>2. g[n + 1] \in S
    BY <2>1
  <2> QED
    BY <2>2
<1>3. Nat \subseteq T
  BY <1>1, <1>2, SetInduction
<1>4. \A n \in Nat : g[n] \in S
  BY <1>3
<1>5. g \in [Nat -> S]
  BY <1>4
<1> QED
  BY <1>4, <1>5 DEF Iterates

----------------------------------------------------------------------------
(* Sequences put together.                                                  *)

\* flat holds what FlattenSeq has put together of the first n sequences.
Flattens(flat, S, seqs) ==
  /\ flat \in [Nat -> Seq(S)]
  /\ flat[0] = <<>>
  /\ \A n \in Nat : n < Len(seqs) => flat[n + 1] = flat[n] \o seqs[n + 1]
  /\ FlattenSeq(seqs) = flat[Len(seqs)]

\* FlattenSeq, by its recursion.
LEMMA FlattenSteps ==
  ASSUME NEW S, NEW seqs \in Seq(Seq(S))
  PROVE  \E flat : Flattens(flat, S, seqs)
<1> DEFINE L == Len(seqs)
           step == [x \in Nat \X Seq(S) |-> IF x[1] < L THEN x[2] \o seqs[x[1] + 1] ELSE <<>>]
           Body(h) == [i \in 1 .. L |-> IF i = 1 THEN seqs[i] ELSE h[i - 1] \o seqs[i]]
<1>1. L \in Nat /\ \A n \in 1 .. L : seqs[n] \in Seq(S)
  OBVIOUS
<1> HIDE DEF L
<1>2. <<>> \in Seq(S) /\ step \in [Nat \X Seq(S) -> Seq(S)]
  <2>1. ASSUME NEW x \in Nat \X Seq(S)
        PROVE  (IF x[1] < L THEN x[2] \o seqs[x[1] + 1] ELSE <<>>) \in Seq(S)
    <3>1. CASE x[1] < L
      <4>1. x[2] \in Seq(S) /\ seqs[x[1] + 1] \in Seq(S)
        BY <1>1, <3>1
      <4> QED
        BY <3>1, <4>1, ConcatProperties
    <3> QED
      BY <3>1
  <2> QED
    BY <2>1
<1>3. PICK f : Iterates(f, Seq(S), <<>>, step)
  <2> HIDE DEF step
  <2> QED
    BY <1>2, Recursion
<1>4. f \in [Nat -> Seq(S)] /\ f[0] = <<>> /\ \A n \in Nat : n < L => f[n + 1] = f[n] \o seqs[n + 1]
  BY <1>3 DEF Iterates
<1>5. CASE L = 0
  <2>1. FlattenSeq(seqs) = <<>>
    BY <1>5 DEF FlattenSeq, L
  <2>2. Flattens(f, S, seqs)
    BY <1>4, <1>5, <2>1 DEF Flattens, L
  <2> QED
    BY <2>2
<1>6. CASE L # 0
  <2> DEFINE r == [i \in 1 .. L |-> f[i]]
  <2>1. \A i \in 1 .. L : f[i] = IF i = 1 THEN seqs[i] ELSE f[i - 1] \o seqs[i]
    <3> TAKE i \in 1 .. L
    <3>1. i - 1 \in Nat /\ i - 1 < L /\ (i - 1) + 1 = i
      BY <1>1
    <3>2. f[i] = f[i - 1] \o seqs[i]
      BY <1>4, <3>1
    <3>3. CASE i = 1
      <4>1. i - 1 = 0
        BY <3>3
      <4>2. f[i] = <<>> \o seqs[i] /\ seqs[i] \in Seq(S)
        BY <1>1, <1>4, <3>2, <4>1
      <4> QED
        BY <3>3, <4>2, ConcatEmptySeq
    <3> QED
      BY <3>2, <3>3
  <2>2. r = Body(r)
    <3>1. \A i \in 1 .. L : i # 1 => r[i - 1] = f[i - 1]
      BY <1>1
    <3> QED
      BY <2>1, <3>1
  <2> HIDE DEF r
  <2> DEFINE g == CHOOSE h : h = Body(h)
  <2>3. g = Body(g)
    BY <2>2, Zenon
  <2>4. FlattenSeq(seqs) = g[L]
    BY <1>6 DEF FlattenSeq, L
  <2> HIDE DEF g
  <2>5. \A i \in 1 .. L : g[i] = f[i]
    <3> DEFINE T == {n \in Nat : n + 1 <= L => g[n + 1] = f[n + 1]}
    <3>1. 0 \in T
      BY <1>1, <2>1, <2>3
    <3>2. ASSUME NEW n \in Nat, n \in T
          PROVE  n + 1 \in T
      <4> SUFFICES ASSUME (n + 1) + 1 <= L PROVE g[(n + 1) + 1] = f[(n + 1) + 1]
        OBVIOUS
      <4> DEFINE i == (n + 1) + 1
      <4>1. i \in 1 .. L /\ i # 1 /\ i - 1 = n + 1 /\ g[n + 1] = f[n + 1]
        BY <1>1, <3>2
      <4> HIDE DEF i
      <4>2. g[i] = g[i - 1] \o seqs[i]
        BY <2>3, <4>1
      <4>3. f[i] = f[i - 1] \o seqs[i]
        BY <2>1, <4>1
      <4> QED
        BY <4>1, <4>2, <4>3 DEF i
    <3>3. Nat \subseteq T
      BY <3>1, <3>2, SetInduction
    <3>4. ASSUME NEW i \in 1 .. L
          PROVE  g[i] = f[i]
      <4>1. i - 1 \in Nat /\ (i - 1) + 1 = i
        BY <1>1
      <4>2. i - 1 \in T
        BY <3>3, <4>1
      <4> QED
        BY <1>1, <4>1, <4>2
    <3> QED
      BY <3>4
  <2>6. FlattenSeq(seqs) = f[L]
    BY <1>1, <1>6, <2>4, <2>5
  <2>7. Flattens(f, S, seqs)
    BY <1>4, <2>6 DEF Flattens, L
  <2> QED
    BY <2>7
<1> QED
  BY <1>5, <1>6

----------------------------------------------------------------------------
(* Elements and bytes.                                                      *)

\* Every datatype that has a width has one of four.
LEMMA Widths == \A T \in DOMAIN Width : Width[T] \in {1, 2, 4, 8}
BY DEF Width

\* Byte m of elements of w bytes each is byte r of element q.
LEMMA Division ==
  ASSUME NEW w \in {1, 2, 4, 8}, NEW len \in Nat, NEW m \in 1 .. len * w
  PROVE  /\ (m - 1) \div w + 1 \in 1 .. len
         /\ ((m - 1) % w) + 1 \in 1 .. w
         /\ ((m - 1) \div w + 1 - 1) * w + (((m - 1) % w) + 1) = m
<1>1. CASE w = 1
  BY <1>1
<1>2. CASE w = 2
  BY <1>2
<1>3. CASE w = 4
  BY <1>3
<1>4. CASE w = 8
  BY <1>4
<1> QED
  BY <1>1, <1>2, <1>3, <1>4

\* Whole elements fill their bytes.
LEMMA WholeElements ==
  ASSUME NEW w \in {1, 2, 4, 8}, NEW len \in Nat
  PROVE  /\ len \div w \in Nat
         /\ len % w = 0 => (len \div w) * w = len
<1>1. CASE w = 1
  BY <1>1
<1>2. CASE w = 2
  BY <1>2
<1>3. CASE w = 4
  BY <1>3
<1>4. CASE w = 8
  BY <1>4
<1> QED
  BY <1>1, <1>2, <1>3, <1>4

\* What is read from bytes that hold elements are those elements.
LEMMA ReadElements ==
  ASSUME NEW T \in DOMAIN Width, NEW S, NEW bytes \in Seq(S), ElementsOf(bytes, T)
  PROVE  /\ readArray(bytes, T) \in Seq(Values)
         /\ Len(readArray(bytes, T)) = Len(bytes) \div Width[T]
         /\ \A n \in 1 .. Len(bytes) \div Width[T] : \A k \in 1 .. Width[T] :
              bytes[(n - 1) * Width[T] + k] = <<T, readArray(bytes, T)[n], k>>
<1> DEFINE len == Len(bytes) \div Width[T]
           P(n, v) == \A k \in 1 .. Width[T] : bytes[(n - 1) * Width[T] + k] = <<T, v, k>>
           array == [n \in 1 .. len |-> CHOOSE v \in Values : P(n, v)]
<1>1. len \in Nat
  BY Widths, WholeElements
<1>2. \A n \in 1 .. len : \E v \in Values : P(n, v)
  BY DEF ElementsOf
<1>3. \A n \in 1 .. len : array[n] \in Values /\ P(n, array[n])
  <2> TAKE n \in 1 .. len
  <2>1. array[n] = CHOOSE v \in Values : P(n, v)
    OBVIOUS
  <2>2. \E v \in Values : P(n, v)
    BY <1>2
  <2> HIDE DEF P, array
  <2> QED
    BY <2>1, <2>2, Zenon
<1>4. readArray(bytes, T) = array
  BY DEF readArray
<1> HIDE DEF P, len
<1>5. array \in Seq(Values) /\ Len(array) = len
  <2>1. array \in [1 .. len -> Values]
    BY <1>3
  <2> HIDE DEF array
  <2> QED
    BY <1>1, <2>1, SeqDef, LenProperties
<1> QED
  BY <1>3, <1>4, <1>5 DEF P, len

\* Bytes of whole elements survive being read and written again.
LEMMA ReadThenWrite ==
  ASSUME NEW T \in DOMAIN Width, NEW S, NEW bytes \in Seq(S), ElementsOf(bytes, T),
         ~Misaligned(bytes, T)
  PROVE  writeArray(readArray(bytes, T), T) = bytes
<1> DEFINE w == Width[T]
           array == readArray(bytes, T)
<1>1. w \in {1, 2, 4, 8} /\ Len(bytes) \in Nat /\ Len(bytes) % w = 0
  BY Widths DEF Misaligned
<1>2. Len(bytes) \div w \in Nat /\ (Len(bytes) \div w) * w = Len(bytes)
  BY <1>1, WholeElements
<1>3. /\ Len(array) = Len(bytes) \div w
      /\ \A n \in 1 .. Len(bytes) \div w : \A k \in 1 .. w :
           bytes[(n - 1) * w + k] = <<T, array[n], k>>
  BY ReadElements
<1> HIDE DEF array, w
<1>4. \A m \in 1 .. Len(bytes) : <<T, array[((m - 1) \div w) + 1], ((m - 1) % w) + 1>> = bytes[m]
  <2> TAKE m \in 1 .. Len(bytes)
  <2> DEFINE q == (m - 1) \div w + 1
             r == ((m - 1) % w) + 1
  <2>1. q \in 1 .. Len(bytes) \div w /\ r \in 1 .. w /\ (q - 1) * w + r = m
    BY <1>1, <1>2, Division
  <2> HIDE DEF q, r
  <2>2. bytes[m] = <<T, array[q], r>>
    BY <1>3, <2>1
  <2> QED
    BY <2>2 DEF q, r
<1>5. writeArray(array, T) = [m \in 1 .. Len(bytes) |-> bytes[m]]
  <2>1. writeArray(array, T) =
          [m \in 1 .. Len(bytes) |-> <<T, array[((m - 1) \div w) + 1], ((m - 1) % w) + 1>>]
    BY <1>2, <1>3 DEF writeArray, w
  <2> QED
    BY <1>4, <2>1
<1> QED
  BY <1>5 DEF array

\* The bytes of elements: their number.
LEMMA WriteType ==
  ASSUME NEW T \in DOMAIN Width, NEW S, NEW range \in Seq(S)
  PROVE  /\ Len(range) * Width[T] \in Nat
         /\ Len(writeArray(range, T)) = Len(range) * Width[T]
         /\ DOMAIN writeArray(range, T) = 1 .. Len(range) * Width[T]
<1>1. Len(range) * Width[T] \in Nat
  BY Widths
<1> QED
  BY <1>1 DEF writeArray

----------------------------------------------------------------------------
(* Halves and floats.                                                       *)

\* The powers of two a shift needs.
LEMMA PowerTable ==
  /\ DOMAIN Pow2 = 1 .. 24
  /\ Pow2[1] = 2 /\ Pow2[2] = 4 /\ Pow2[3] = 8 /\ Pow2[4] = 16 /\ Pow2[5] = 32
  /\ Pow2[6] = 64 /\ Pow2[7] = 128 /\ Pow2[8] = 256 /\ Pow2[9] = 512 /\ Pow2[10] = 1024
  /\ Pow2[11] = 2048 /\ Pow2[12] = 4096 /\ Pow2[13] = 8192 /\ Pow2[14] = 16384
  /\ Pow2[15] = 32768 /\ Pow2[16] = 65536 /\ Pow2[17] = 131072 /\ Pow2[18] = 262144
  /\ Pow2[19] = 524288 /\ Pow2[20] = 1048576 /\ Pow2[21] = 2097152 /\ Pow2[22] = 4194304
  /\ Pow2[23] = 8388608 /\ Pow2[24] = 16777216
BY DEF Pow2


\* The places of the bits.
LEMMA Places == SignBit = 32768 /\ Infinity = 31744 /\ HiddenBit = 8388608
BY DEF SignBit, Infinity, HiddenBit

\* Half, by its bounds.
LEMMA HalfBounds == \A h : h \in Half <=> h \in Nat /\ h <= 65535
<1>1. MaxHalf \in Nat /\ \A h \in Nat : h <= MaxHalf <=> h <= 65535
  BY DEF MaxHalf
<1> QED
  BY <1>1 DEF Half

\* Dividing by a field's place value.
LEMMA Quotients ==
  ASSUME NEW q \in Nat, NEW r \in Nat
  PROVE  /\ r < 32 => (q * 32 + r) % 32 = r
         /\ r < 1024 => (q * 1024 + r) \div 1024 = q /\ (q * 1024 + r) % 1024 = r
         /\ r < 32768 => (q * 32768 + r) \div 32768 = q /\ (q * 32768 + r) % 32768 = r
OBVIOUS

\* h is put together of these three fields.
Joins(h, s, e, m) ==
  /\ s \in Nat /\ s <= 1 /\ e \in Nat /\ e <= 31 /\ m \in Nat /\ m <= 1023
  /\ h \in Nat /\ h = s * 32768 + e * 1024 + m

\* Such a number is a half, and these are its fields.
LEMMA FieldsOf ==
  ASSUME NEW h, NEW s, NEW e, NEW m, Joins(h, s, e, m)
  PROVE  /\ h \in Half /\ SignOf(h) = s /\ ExpOf(h) = e /\ MantOf(h) = m
         /\ Magnitude(h) = e * 1024 + m
<1> USE DEF Joins
<1>1. h \in Half
  BY HalfBounds
<1>2. h \div 32768 = s /\ h % 32768 = e * 1024 + m
  <2> DEFINE r == e * 1024 + m
  <2>1. r \in Nat /\ r < 32768 /\ h = s * 32768 + r
    OBVIOUS
  <2> HIDE DEF r
  <2> QED
    BY <2>1, Quotients DEF r
<1>3. h \div 1024 = s * 32 + e /\ h % 1024 = m
  <2> DEFINE q == s * 32 + e
  <2>1. q \in Nat /\ m < 1024 /\ h = q * 1024 + m
    OBVIOUS
  <2> HIDE DEF q
  <2> QED
    BY <2>1, Quotients DEF q
<1>4. (s * 32 + e) % 32 = e
  BY Quotients
<1> QED
  BY <1>1, <1>2, <1>3, <1>4, Places DEF SignOf, ExpOf, MantOf, Magnitude

\* Every half is put together so.
LEMMA HalfFields ==
  ASSUME NEW h \in Half
  PROVE  /\ Joins(h, SignOf(h), ExpOf(h), MantOf(h))
         /\ Magnitude(h) = ExpOf(h) * 1024 + MantOf(h)
<1>1. h \in Nat /\ h <= 65535
  BY HalfBounds
<1> DEFINE q == h \div 1024
           m == h % 1024
           s == IF q < 32 THEN 0 ELSE 1
           e == q - s * 32
<1>2. q \in Nat /\ q <= 63 /\ m \in Nat /\ m <= 1023 /\ h = q * 1024 + m
  BY <1>1
<1> HIDE DEF q, m
<1>3. s \in Nat /\ s <= 1 /\ e \in Nat /\ e <= 31 /\ q = s * 32 + e
  BY <1>2
<1> HIDE DEF s, e
<1>4. Joins(h, s, e, m)
  BY <1>1, <1>2, <1>3 DEF Joins
<1> QED
  BY <1>4, FieldsOf

\* A subnormal mantissa has a leading bit, and the shift that brings it to bit 10.
LEMMA LeadingBit ==
  ASSUME NEW m \in Nat, m > 0, m <= 1023
  PROVE  /\ Leading(m) \in 1 .. 10 /\ m * Pow2[Leading(m)] \in Nat
         /\ 1024 <= m * Pow2[Leading(m)] /\ m * Pow2[Leading(m)] < 2048
<1> DEFINE Fits(e) == 1024 <= m * Pow2[e] /\ m * Pow2[e] < 2048
<1>1. \E e \in 1 .. 10 : Fits(e)
  <2>1. ASSUME 512 <= m, m <= 1023 PROVE Fits(1)
    BY <2>1, PowerTable
  <2>2. ASSUME 256 <= m, m <= 511 PROVE Fits(2)
    BY <2>2, PowerTable
  <2>3. ASSUME 128 <= m, m <= 255 PROVE Fits(3)
    BY <2>3, PowerTable
  <2>4. ASSUME 64 <= m, m <= 127 PROVE Fits(4)
    BY <2>4, PowerTable
  <2>5. ASSUME 32 <= m, m <= 63 PROVE Fits(5)
    BY <2>5, PowerTable
  <2>6. ASSUME 16 <= m, m <= 31 PROVE Fits(6)
    BY <2>6, PowerTable
  <2>7. ASSUME 8 <= m, m <= 15 PROVE Fits(7)
    BY <2>7, PowerTable
  <2>8. ASSUME 4 <= m, m <= 7 PROVE Fits(8)
    BY <2>8, PowerTable
  <2>9. ASSUME 2 <= m, m <= 3 PROVE Fits(9)
    BY <2>9, PowerTable
  <2>10. ASSUME 1 <= m, m <= 1 PROVE Fits(10)
    BY <2>10, PowerTable
  <2> HIDE DEF Fits
  <2> QED
    BY <2>1, <2>2, <2>3, <2>4, <2>5, <2>6, <2>7, <2>8, <2>9, <2>10
<1>2. Leading(m) \in 1 .. 10 /\ Fits(Leading(m))
  <2>1. Leading(m) = CHOOSE e \in 1 .. 10 : Fits(e)
    BY DEF Leading
  <2> HIDE DEF Fits
  <2> QED
    BY <1>1, <2>1, ZenonT(60)
<1> QED
  BY <1>2, PowerTable

\* halfToFloat, by the kind of half.
LEMMA Widened ==
  ASSUME NEW h \in Half
  PROVE  LET s == SignOf(h)
             x == ExpOf(h)
             m == MantOf(h)
             e == Leading(m)
             f == halfToFloat(h)
         IN /\ x = 0 /\ m = 0 => f = [sign |-> s, exp |-> 0, mant |-> 0]
            /\ x = 0 /\ m # 0 =>
                 f = [sign |-> s, exp |-> 113 - e, mant |-> (m * Pow2[e] - 1024) * 8192]
            /\ x = 31 => f = [sign |-> s, exp |-> 255, mant |-> m * 8192]
            /\ x # 0 /\ x # 31 => f = [sign |-> s, exp |-> x + 112, mant |-> m * 8192]
<1> DEFINE s == SignOf(h)
           x == ExpOf(h)
           m == MantOf(h)
           e == Leading(m)
           y == m * Pow2[e]
           f == halfToFloat(h)
<1>1. x \in Nat /\ m \in Nat /\ m <= 1023
  BY HalfFields DEF Joins
<1>2. f = CASE x = 0 /\ m = 0 -> [sign |-> s, exp |-> 0, mant |-> 0]
            [] x = 0 /\ m # 0 -> [sign |-> s, exp |-> 127 - 15 - e + 1, mant |-> (y % 1024) * 8192]
            [] x = 31 -> [sign |-> s, exp |-> 255, mant |-> m * 8192]
            [] OTHER -> [sign |-> s, exp |-> x + (127 - 15), mant |-> m * 8192]
  BY DEF halfToFloat
<1>3. ASSUME m # 0
      PROVE  e \in Int /\ y % 1024 = y - 1024
  <2>1. e \in 1 .. 10 /\ y \in Nat /\ 1024 <= y /\ y < 2048
    BY <1>1, <1>3, LeadingBit
  <2> HIDE DEF y
  <2> QED
    BY <2>1
<1> HIDE DEF s, x, m, e, y, f
<1>4. x = 0 /\ m = 0 => f = [sign |-> s, exp |-> 0, mant |-> 0]
  BY <1>2
<1>5. x = 0 /\ m # 0 => f = [sign |-> s, exp |-> 113 - e, mant |-> (y - 1024) * 8192]
  BY <1>2, <1>3
<1>6. x = 31 => f = [sign |-> s, exp |-> 255, mant |-> m * 8192]
  BY <1>2
<1>7. x # 0 /\ x # 31 => f = [sign |-> s, exp |-> x + 112, mant |-> m * 8192]
  BY <1>1, <1>2
<1> QED
  BY <1>4, <1>5, <1>6, <1>7 DEF s, x, m, e, y, f

\* floatToHalf, by the exponent.
LEMMA Narrowed ==
  ASSUME NEW f \in Float
  PROVE  LET s == f.sign * SignBit
             h == floatToHalf(f)
         IN /\ f.exp >= 143 => h = s + Infinity + (IF f.mant # 0 THEN 512 ELSE 0)
            /\ f.exp < 102 => h = s
            /\ f.exp \in 102 .. 112 => h = s + (f.mant + HiddenBit) \div Pow2[126 - f.exp]
            /\ f.exp \in 113 .. 142 => h = s + (f.exp - 112) * 1024 + f.mant \div 8192
<1> DEFINE x == f.exp - 127 + 15
           s == f.sign * SignBit
           m == f.mant
           h == floatToHalf(f)
<1>1. h = CASE x >= 31 -> s + Infinity + (IF m # 0 THEN Pow2[9] ELSE 0)
            [] x < -10 -> s
            [] x \in -10 .. 0 -> s + (m + HiddenBit) \div Pow2[14 - x]
            [] x \in 1 .. 30 -> s + x * Pow2[10] + m \div Pow2[13]
  BY Zenon DEF floatToHalf
<1>2. f.exp \in Nat /\ x = f.exp - 112 /\ 14 - x = 126 - f.exp
  BY DEF Float, MaxExp
<1> HIDE DEF x, s, m, h
<1>3. /\ x >= 31 => h = s + Infinity + (IF m # 0 THEN Pow2[9] ELSE 0)
      /\ x < -10 => h = s
      /\ x \in -10 .. 0 => h = s + (m + HiddenBit) \div Pow2[14 - x]
      /\ x \in 1 .. 30 => h = s + x * Pow2[10] + m \div Pow2[13]
  BY <1>1, <1>2
<1> QED
  BY <1>2, <1>3, PowerTable DEF s, m, h

\* Float, by its bounds.
LEMMA FloatBounds ==
  /\ \A f \in Float : /\ f.sign \in Nat /\ f.sign <= 1 /\ f.exp \in Nat /\ f.exp <= 255
                      /\ f.mant \in Nat /\ f.mant < HiddenBit
  /\ \A s, x, m \in Nat : s <= 1 /\ x <= 255 /\ m < HiddenBit =>
       [sign |-> s, exp |-> x, mant |-> m] \in Float
<1>1. /\ MaxExp \in Nat /\ \A x \in Nat : x <= MaxExp <=> x <= 255
      /\ MaxMant \in Nat /\ \A m \in Nat : m <= MaxMant <=> m < HiddenBit
  BY Places DEF MaxExp, MaxMant
<1>2. \A s \in Nat : s <= 1 <=> s \in {0, 1}
  OBVIOUS
<1> QED
  BY <1>1, <1>2 DEF Float

\* SameValue, by the kind of half.
LEMMA ValueOf ==
  ASSUME NEW h, NEW f
  PROVE  /\ ExpOf(h) = 31 /\ Magnitude(h) # 0 =>
              (SameValue(h, f) <=> /\ f.sign = SignOf(h)
                                   /\ f.exp = 255 /\ (f.mant # 0 <=> IsNaN(h)))
         /\ ExpOf(h) # 31 /\ Magnitude(h) = 0 =>
              (SameValue(h, f) <=> f.sign = SignOf(h) /\ f.exp = 0 /\ f.mant = 0)
         /\ ExpOf(h) # 31 /\ Magnitude(h) # 0 =>
              (SameValue(h, f) <=> /\ f.sign = SignOf(h)
                                   /\ Power(h) + 126 - f.exp \in DOMAIN Pow2
                                   /\ Scaled(h, f.exp) = HiddenBit + f.mant)
<1>1. CASE ExpOf(h) = 31 /\ Magnitude(h) # 0
  BY <1>1, Zenon DEF SameValue
<1>2. CASE ExpOf(h) # 31 /\ Magnitude(h) = 0
  BY <1>2, Zenon DEF SameValue
<1>3. CASE ExpOf(h) # 31 /\ Magnitude(h) # 0
  BY <1>3, Zenon DEF SameValue
<1> QED
  BY <1>1, <1>2, <1>3, Zenon

\* halfToFloat is exact: what it returns has the value of the bits.
LEMMA WidenExact ==
  ASSUME NEW h \in Half
  PROVE  halfToFloat(h) \in Float /\ SameValue(h, halfToFloat(h))
<1> DEFINE s == SignOf(h)
           x == ExpOf(h)
           m == MantOf(h)
           f == halfToFloat(h)
<1>1. /\ s \in Nat /\ s <= 1 /\ x \in Nat /\ x <= 31 /\ m \in Nat /\ m <= 1023
      /\ Magnitude(h) = x * 1024 + m
  BY HalfFields DEF Joins
<1>2. CASE x = 31
  <2>1. f = [sign |-> s, exp |-> 255, mant |-> m * 8192]
    BY <1>2, Widened
  <2>2. 255 \in Nat /\ m * 8192 \in Nat /\ m * 8192 < HiddenBit /\ (m * 8192 # 0 <=> m # 0)
    BY <1>1, Places
  <2>3. f \in Float
    BY <1>1, <2>1, <2>2, FloatBounds
  <2> QED
    BY <1>1, <1>2, <2>1, <2>2, <2>3, ValueOf DEF IsNaN
<1>3. CASE x = 0 /\ m = 0
  <2>1. f = [sign |-> s, exp |-> 0, mant |-> 0]
    BY <1>3, Widened
  <2>2. f \in Float
    BY <1>1, <2>1, FloatBounds, Places
  <2> QED
    BY <1>1, <1>3, <2>1, <2>2, ValueOf
<1>4. CASE x = 0 /\ m # 0
  <2> DEFINE e == Leading(m)
             y == m * Pow2[e]
  <2>1. f = [sign |-> s, exp |-> 113 - e, mant |-> (y - 1024) * 8192]
    BY <1>4, Widened
  <2>2. e \in 1 .. 10 /\ y \in Nat /\ 1024 <= y /\ y < 2048
    BY <1>1, <1>4, LeadingBit
  <2>3. f \in Float
    <3> HIDE DEF e, y
    <3>1. 113 - e \in Nat /\ 113 - e <= 255 /\ (y - 1024) * 8192 \in Nat
          /\ (y - 1024) * 8192 < HiddenBit
      BY <2>2, Places
    <3> QED
      BY <1>1, <2>1, <3>1, FloatBounds
  <2>4. Significand(h) = m /\ Power(h) = 0
    BY <1>4 DEF Significand, Power
  <2>5. 126 - (113 - e) = 13 + e /\ 13 + e \in DOMAIN Pow2
    <3> HIDE DEF e
    <3> QED
      BY <2>2, PowerTable
  <2>6. m * Pow2[13 + e] = y * 8192
    <3> HIDE DEF m
    <3>1. Pow2[13 + e] = Pow2[e] * 8192 /\ Pow2[e] \in Nat
      <4> HIDE DEF e
      <4> QED
        BY <2>2, PowerTable
    <3> QED
      BY <1>1, <3>1
  <2>7. y * 8192 = HiddenBit + (y - 1024) * 8192
    <3> HIDE DEF y
    <3> QED
      BY <2>2, Places
  <2>8. f.sign = s /\ f.exp = 113 - e /\ f.mant = (y - 1024) * 8192
    BY <2>1
  <2>9. Magnitude(h) # 0
    BY <1>1, <1>4
  <2> HIDE DEF e, y, f
  <2>10. SameValue(h, f)
    BY <1>4, <2>2, <2>4, <2>5, <2>6, <2>7, <2>8, <2>9, ValueOf DEF Scaled
  <2> QED
    BY <2>3, <2>10 DEF f
<1>5. CASE x # 0 /\ x # 31
  <2>1. f = [sign |-> s, exp |-> x + 112, mant |-> m * 8192]
    BY <1>5, Widened
  <2>2. x + 112 \in Nat /\ x + 112 <= 255 /\ m * 8192 \in Nat /\ m * 8192 < HiddenBit
    BY <1>1, Places
  <2>3. f \in Float
    BY <1>1, <2>1, <2>2, FloatBounds
  <2>4. Significand(h) = 1024 + m /\ Power(h) = x - 1
    BY <1>5 DEF Significand, Power
  <2>5. (x - 1) + 126 - (x + 112) = 13 /\ Magnitude(h) # 0
    BY <1>1, <1>5
  <2>6. f.sign = s /\ f.exp = x + 112 /\ f.mant = m * 8192
    BY <2>1
  <2>7. (1024 + m) * 8192 = HiddenBit + m * 8192
    BY <1>1, Places
  <2> HIDE DEF f
  <2>8. SameValue(h, f)
    BY <1>5, <2>4, <2>5, <2>6, <2>7, PowerTable, ValueOf DEF Scaled
  <2> QED
    BY <2>3, <2>8 DEF f
<1> QED
  BY <1>2, <1>3, <1>4, <1>5

\* A quotient with its remainder.
LEMMA Quotient ==
  ASSUME NEW p \in Nat \ {0}, NEW y \in Nat
  PROVE  y \div p \in Nat /\ (y \div p) * p <= y /\ y < (y \div p) * p + p
OBVIOUS

\* What floatToHalf drops of a significand: q is the mantissa it keeps of
\* numbers that become subnormal, of the others, with its leading bit.
LEMMA Subnormal ==
  ASSUME NEW f \in Float, f.exp \in 103 .. 112
  PROVE  LET p == Pow2[126 - f.exp]
             q == (f.mant + HiddenBit) \div p
         IN /\ p \in Nat \ {0} /\ q \in Nat /\ q <= 1023 /\ q >= 1
            /\ q * p <= HiddenBit + f.mant /\ HiddenBit + f.mant < (q + 1) * p
<1> DEFINE k == 126 - f.exp
           p == Pow2[k]
           y == f.mant + HiddenBit
           q == y \div p
<1>1. y \in Nat /\ y >= HiddenBit /\ y < 16777216 /\ f.mant + HiddenBit = HiddenBit + f.mant
  BY FloatBounds, Places
<1>2. k \in 14 .. 23
  OBVIOUS
<1>3. p \in Nat \ {0} /\ p >= 16384 /\ p <= HiddenBit
  <2> HIDE DEF k
  <2> QED
    BY <1>2, PowerTable, Places
<1>4. q \in Nat /\ q * p <= y /\ y < q * p + p
  <2> HIDE DEF p, y
  <2> QED
    BY <1>1, <1>3, Quotient
<1>5. q <= 1023 /\ q >= 1 /\ (q + 1) * p = q * p + p
  <2> HIDE DEF p, y, q
  <2>1. ASSUME q >= 1024
        PROVE  FALSE
    <3>1. q * p >= 1024 * 16384
      BY <1>3, <1>4, <2>1
    <3> QED
      BY <1>1, <1>3, <1>4, <3>1
  <2>2. ASSUME q = 0
        PROVE  FALSE
    BY <1>1, <1>3, <1>4, <2>2, Places
  <2> QED
    BY <1>3, <1>4, <2>1, <2>2
<1> QED
  BY <1>1, <1>3, <1>4, <1>5

\* The fields of what floatToHalf returns.
LEMMA NarrowFields ==
  ASSUME NEW f \in Float
  PROVE  LET h == floatToHalf(f)
             s == f.sign
             m == f.mant
         IN /\ f.exp >= 143 => Joins(h, s, 31, IF m # 0 THEN 512 ELSE 0)
            /\ f.exp < 103 => Joins(h, s, 0, 0)
            /\ f.exp \in 103 .. 112 =>
                 Joins(h, s, 0, (m + HiddenBit) \div Pow2[126 - f.exp])
            /\ f.exp \in 113 .. 142 => Joins(h, s, f.exp - 112, m \div 8192)
<1> DEFINE h == floatToHalf(f)
           s == f.sign
           x == f.exp
           m == f.mant
<1>1. s \in Nat /\ s <= 1 /\ x \in Nat /\ x <= 255 /\ m \in Nat /\ m < HiddenBit
  BY FloatBounds
<1>2. ASSUME x >= 143
      PROVE  Joins(h, s, 31, IF m # 0 THEN 512 ELSE 0)
  <2>1. h = s * SignBit + Infinity + (IF m # 0 THEN 512 ELSE 0)
    BY <1>2, Narrowed
  <2> HIDE DEF h, s, x, m
  <2> QED
    BY <1>1, <2>1, Places DEF Joins
<1>3. ASSUME x < 103
      PROVE  Joins(h, s, 0, 0)
  <2>1. h = s * SignBit
    <3>1. CASE x < 102
      BY <3>1, Narrowed
    <3>2. CASE x = 102
      <4>1. h = s * SignBit + (m + HiddenBit) \div Pow2[126 - x]
        BY <3>2, Narrowed
      <4>2. Pow2[126 - x] = 16777216
        BY <3>2, PowerTable
      <4>3. (m + HiddenBit) \div 16777216 = 0
        <5> HIDE DEF m
        <5> QED
          BY <1>1, Places
      <4> QED
        BY <1>1, <4>1, <4>2, <4>3, Places
    <3> QED
      BY <1>1, <1>3, <3>1, <3>2
  <2> HIDE DEF h, s
  <2> QED
    BY <1>1, <2>1, Places DEF Joins
<1>4. ASSUME x \in 103 .. 112
      PROVE  Joins(h, s, 0, (m + HiddenBit) \div Pow2[126 - x])
  <2> DEFINE q == (m + HiddenBit) \div Pow2[126 - x]
  <2>1. q \in Nat /\ q <= 1023
    BY <1>4, Subnormal
  <2>2. h = s * SignBit + q
    BY <1>4, Narrowed
  <2> HIDE DEF h, s, q
  <2>3. Joins(h, s, 0, q)
    BY <1>1, <2>1, <2>2, Places DEF Joins
  <2> QED
    BY <2>3 DEF q
<1>5. ASSUME x \in 113 .. 142
      PROVE  Joins(h, s, x - 112, m \div 8192)
  <2> DEFINE q == m \div 8192
  <2>1. q \in Nat /\ q <= 1023
    <3> HIDE DEF m
    <3> QED
      BY <1>1, Places
  <2>2. h = s * SignBit + (x - 112) * 1024 + q
    BY <1>5, Narrowed
  <2> HIDE DEF h, s, x, q
  <2>3. Joins(h, s, x - 112, q)
    BY <1>1, <1>5, <2>1, <2>2, Places DEF Joins
  <2> QED
    BY <2>3 DEF q
<1> QED
  BY <1>2, <1>3, <1>4, <1>5

\* Whatever the number, floatToHalf returns 16 bits.
LEMMA NarrowType ==
  ASSUME NEW f \in Float
  PROVE  floatToHalf(f) \in Half
<1>1. f.exp \in Nat
  BY FloatBounds
<1>2. f.exp >= 143 \/ f.exp < 103 \/ f.exp \in 103 .. 112 \/ f.exp \in 113 .. 142
  BY <1>1
<1> QED
  BY <1>2, NarrowFields, FieldsOf

\* floatToHalf inverts any exact widening of a finite half.
LEMMA NarrowExact ==
  ASSUME NEW h \in Half, ExpOf(h) # 31, NEW f \in Float, SameValue(h, f)
  PROVE  floatToHalf(f) = h
<1> DEFINE s == SignOf(h)
           x == ExpOf(h)
           m == MantOf(h)
           k == Power(h) + 126 - f.exp
<1>1. /\ s \in Nat /\ s <= 1 /\ x \in Nat /\ x <= 30 /\ m \in Nat /\ m <= 1023
      /\ h \in Nat /\ h = s * 32768 + x * 1024 + m /\ Magnitude(h) = x * 1024 + m
  BY HalfFields DEF Joins
<1>2. f.sign = s /\ f.exp \in Nat /\ f.mant \in Nat /\ f.mant < HiddenBit
  BY FloatBounds, Zenon DEF SameValue
<1>3. CASE Magnitude(h) = 0
  <2>1. f.exp = 0
    BY <1>3, Zenon DEF SameValue
  <2>2. Joins(floatToHalf(f), s, 0, 0)
    BY <1>2, <2>1, NarrowFields
  <2> QED
    BY <1>1, <1>3, <2>2 DEF Joins
<1>4. ASSUME Magnitude(h) # 0
      PROVE  k \in 1 .. 24 /\ Significand(h) * Pow2[k] = HiddenBit + f.mant
  BY <1>4, PowerTable, ValueOf DEF Scaled
<1>5. CASE x # 0
  <2>1. Significand(h) = 1024 + m /\ Power(h) = x - 1 /\ Magnitude(h) # 0
    BY <1>1, <1>5 DEF Significand, Power
  <2>2. k \in 1 .. 24 /\ (1024 + m) * Pow2[k] = HiddenBit + f.mant
    BY <1>4, <2>1
  <2> HIDE DEF m, k
  <2>3. k = 13
    BY <1>1, <1>2, <2>2, PowerTable, Places
  <2>4. f.mant = m * 8192
    <3>1. Pow2[k] = 8192
      BY <2>3, PowerTable
    <3>2. (1024 + m) * 8192 = HiddenBit + f.mant
      BY <2>2, <3>1
    <3> QED
      BY <1>1, <1>2, <3>2, Places
  <2>5. f.exp = x + 112
    BY <1>1, <1>2, <2>1, <2>3 DEF k
  <2>6. Joins(floatToHalf(f), s, f.exp - 112, f.mant \div 8192)
    BY <1>1, <1>2, <1>5, <2>5, NarrowFields, Places, SMTT(30)
  <2>7. f.exp - 112 = x /\ f.mant \div 8192 = m
    BY <1>1, <2>4, <2>5
  <2> QED
    BY <1>1, <2>6, <2>7 DEF Joins
<1>6. CASE x = 0 /\ m # 0
  <2>1. Significand(h) = m /\ Power(h) = 0 /\ Magnitude(h) # 0
    BY <1>1, <1>6 DEF Significand, Power
  <2>2. k \in 1 .. 24 /\ m * Pow2[k] = HiddenBit + f.mant /\ k = 126 - f.exp
    BY <1>2, <1>4, <2>1
  <2> HIDE DEF m, k
  <2>3. k \in 14 .. 23
    BY <1>1, <1>2, <1>6, <2>2, PowerTable, Places
  <2>4. (f.mant + HiddenBit) \div Pow2[k] = m
    <3>1. Pow2[k] \in Nat \ {0}
      BY <2>3, PowerTable
    <3>2. f.mant + HiddenBit = m * Pow2[k]
      BY <1>2, <2>2, Places
    <3>3. \A p \in Nat \ {0} : (m * p) \div p = m
      BY <1>1
    <3> QED
      BY <3>1, <3>2, <3>3
  <2>5. Joins(floatToHalf(f), s, 0, m)
    <3>1. f.exp \in 103 .. 112
      BY <1>2, <2>2, <2>3
    <3> QED
      BY <1>2, <2>2, <2>4, <3>1, NarrowFields
  <2> QED
    BY <1>1, <1>6, <2>5 DEF Joins
<1> QED
  BY <1>1, <1>3, <1>5, <1>6

\* A half comes back from its widening: the same bits, or a NaN of its sign.
LEMMA RoundTrip ==
  ASSUME NEW h \in Half
  PROVE  LET back == floatToHalf(halfToFloat(h)) IN
         IF IsNaN(h) THEN IsNaN(back) /\ SignOf(back) = SignOf(h) ELSE back = h
<1> DEFINE f == halfToFloat(h)
           back == floatToHalf(f)
           s == SignOf(h)
           m == MantOf(h)
<1>1. f \in Float /\ SameValue(h, f)
  BY WidenExact
<1>2. CASE ExpOf(h) # 31
  BY <1>1, <1>2, NarrowExact DEF IsNaN
<1>3. CASE ExpOf(h) = 31
  <2>1. m \in Nat /\ Joins(h, s, 31, m)
    BY <1>3, HalfFields DEF Joins
  <2>2. f = [sign |-> s, exp |-> 255, mant |-> m * 8192]
    BY <1>3, Widened
  <2>3. Joins(back, s, 31, IF m * 8192 # 0 THEN 512 ELSE 0)
    <3>1. f.exp = 255 /\ f.sign = s /\ f.mant = m * 8192 /\ 255 >= 143
      BY <2>2
    <3> HIDE DEF f
    <3> QED
      BY <1>1, <3>1, NarrowFields
  <2> HIDE DEF back, s, m
  <2>4. CASE m = 0
    BY <2>1, <2>3, <2>4 DEF Joins, IsNaN, m, s, back
  <2>5. CASE m # 0
    <3>1. Joins(back, s, 31, 512)
      BY <2>1, <2>3, <2>5
    <3>2. ExpOf(back) = 31 /\ MantOf(back) = 512 /\ SignOf(back) = s
      BY <3>1, FieldsOf
    <3> QED
      BY <1>3, <2>5, <3>2 DEF IsNaN, m, s, back
  <2> QED
    BY <2>4, <2>5
<1> QED
  BY <1>2, <1>3

\* floatToHalf rounds toward zero wherever a half is near.
LEMMA NarrowRounds ==
  ASSUME NEW f \in Float, InRange(f)
  PROVE  RoundedTowardZero(floatToHalf(f), f)
<1> DEFINE h == floatToHalf(f)
           s == f.sign
           y == HiddenBit + f.mant
<1>1. s \in Nat /\ s <= 1 /\ f.exp \in Nat /\ f.mant \in Nat /\ f.mant < HiddenBit /\ h \in Nat
  BY FloatBounds, NarrowType, HalfBounds
<1>2. CASE f.exp \in 103 .. 112
  <2> DEFINE k == 126 - f.exp
             p == Pow2[k]
             q == (f.mant + HiddenBit) \div p
  <2>1. /\ p \in Nat \ {0} /\ q \in Nat /\ q <= 1023 /\ q * p <= y /\ y < (q + 1) * p
    BY <1>2, Subnormal
  <2>2. Joins(h, s, 0, q)
    BY <1>2, NarrowFields
  <2> HIDE DEF h, q, p, k
  <2>3. SignOf(h) = s /\ Significand(h) = q /\ Power(h) = 0
    BY <2>2, FieldsOf DEF Significand, Power
  <2>4. Significand(h + 1) = q + 1 /\ Power(h + 1) = 0
    <3>1. CASE q < 1023
      <4>1. Joins(h + 1, s, 0, q + 1)
        BY <2>2, <3>1 DEF Joins
      <4> QED
        BY <4>1, FieldsOf DEF Significand, Power
    <3>2. CASE q = 1023
      <4>1. Joins(h + 1, s, 1, 0)
        BY <2>2, <3>2 DEF Joins
      <4>2. ExpOf(h + 1) = 1 /\ MantOf(h + 1) = 0
        BY <4>1, FieldsOf
      <4> QED
        BY <3>2, <4>2 DEF Significand, Power
    <3> QED
      BY <2>1, <3>1, <3>2
  <2>5. Scaled(h, f.exp) = q * p /\ Scaled(h + 1, f.exp) = (q + 1) * p
    <3>1. 0 + 126 - f.exp = k
      BY <1>1 DEF k
    <3> QED
      BY <2>3, <2>4, <3>1 DEF Scaled, p
  <2> QED
    BY <2>1, <2>3, <2>5 DEF RoundedTowardZero, h
<1>3. CASE f.exp \in 113 .. 142
  <2> DEFINE q == f.mant \div 8192
             e == f.exp - 112
  <2>1. q \in Nat /\ q <= 1023 /\ q * 8192 <= f.mant /\ f.mant < (q + 1) * 8192
    BY <1>1, Places
  <2>2. Joins(h, s, e, q)
    BY <1>3, NarrowFields
  <2>3. e \in Nat /\ e >= 1 /\ e <= 30 /\ (e - 1) + 126 - f.exp = 13 /\ e + 126 - f.exp = 14
    BY <1>1, <1>3
  <2> HIDE DEF h, q, e
  <2>4. SignOf(h) = s /\ Scaled(h, f.exp) = (1024 + q) * 8192
    <3>1. SignOf(h) = s /\ ExpOf(h) = e /\ MantOf(h) = q
      BY <2>2, FieldsOf
    <3>2. Significand(h) = 1024 + q /\ Power(h) = e - 1
      BY <2>3, <3>1 DEF Significand, Power
    <3> QED
      BY <2>3, <3>1, <3>2, PowerTable DEF Scaled
  <2>5. ASSUME Magnitude(h) # 31743
        PROVE  y < Scaled(h + 1, f.exp)
    <3>1. CASE q < 1023
      <4>1. Joins(h + 1, s, e, q + 1)
        BY <2>2, <3>1 DEF Joins
      <4>2. ExpOf(h + 1) = e /\ MantOf(h + 1) = q + 1
        BY <4>1, FieldsOf
      <4>3. Significand(h + 1) = 1024 + (q + 1) /\ Power(h + 1) = e - 1
        BY <2>3, <4>2 DEF Significand, Power
      <4>4. Scaled(h + 1, f.exp) = (1024 + (q + 1)) * 8192
        BY <2>3, <4>3, PowerTable DEF Scaled
      <4> QED
        BY <1>1, <2>1, <4>4, Places
    <3>2. CASE q = 1023
      <4>1. e # 30
        <5>1. Magnitude(h) = e * 1024 + q
          BY <2>2, FieldsOf
        <5> QED
          BY <2>3, <2>5, <3>2, <5>1
      <4>2. Joins(h + 1, s, e + 1, 0)
        BY <2>2, <2>3, <3>2, <4>1 DEF Joins
      <4>3. ExpOf(h + 1) = e + 1 /\ MantOf(h + 1) = 0
        BY <4>2, FieldsOf
      <4>4. Significand(h + 1) = 1024 /\ Power(h + 1) = e
        BY <2>3, <4>3 DEF Significand, Power
      <4>5. Scaled(h + 1, f.exp) = 1024 * 16384
        BY <2>3, <4>4, PowerTable DEF Scaled
      <4> QED
        BY <1>1, <4>5, Places
    <3> QED
      BY <2>1, <3>1, <3>2
  <2>6. (1024 + q) * 8192 <= y
    BY <1>1, <2>1, Places
  <2> QED
    BY <2>4, <2>5, <2>6, Places DEF RoundedTowardZero, h
<1> QED
  BY <1>1, <1>2, <1>3 DEF InRange
============================================================================
