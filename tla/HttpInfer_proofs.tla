-------------------------- MODULE HttpInfer_proofs -------------------------
(***************************************************************************)
(* The contents of an inference over HTTP, for any inputs, any model and   *)
(* any number of calls: the server reads the bytes the caller passed, the  *)
(* caller gets the tensors the server produced, however they were encoded  *)
(* and wherever the answer was cut, and the slices of the blob follow one  *)
(* another whatever sizes the server states.                               *)
(***************************************************************************)
EXTENDS HttpInfer, Lemmas

----------------------------------------------------------------------------
(* Offsets and concatenation.                                               *)

\* Where the nodes' bytes end, by the recursion of Ends.
LEMMA RunningOffset ==
  ASSUME NEW nodes, Len(nodes) \in Nat, \A n \in 1 .. Len(nodes) : SizeOf(nodes[n]) \in Nat
  PROVE  /\ Ends(nodes)[0] = 0
         /\ \A n \in 0 .. Len(nodes) : Ends(nodes)[n] \in Nat
         /\ \A n \in 1 .. Len(nodes) : Ends(nodes)[n] = Ends(nodes)[n - 1] + SizeOf(nodes[n])
<1> DEFINE L == Len(nodes)
           size == [n \in 1 .. L |-> SizeOf(nodes[n])]
           step == [x \in Nat \X Nat |-> IF x[1] < L THEN x[2] + size[x[1] + 1] ELSE 0]
           Body(h) == [n \in 0 .. L |-> IF n = 0 THEN 0 ELSE h[n - 1] + SizeOf(nodes[n])]
<1>1. size \in [1 .. L -> Nat] /\ \A n \in 1 .. L : size[n] = SizeOf(nodes[n])
  OBVIOUS
<1> HIDE DEF size
<1>2. 0 \in Nat /\ step \in [Nat \X Nat -> Nat]
  <2>1. ASSUME NEW x \in Nat \X Nat
        PROVE  (IF x[1] < L THEN x[2] + size[x[1] + 1] ELSE 0) \in Nat
    BY <1>1
  <2> QED
    BY <2>1
<1>3. PICK f : Iterates(f, Nat, 0, step)
  <2> HIDE DEF step
  <2> QED
    BY <1>2, Recursion
<1>4. f \in [Nat -> Nat] /\ f[0] = 0 /\ \A n \in Nat : n < L => f[n + 1] = f[n] + size[n + 1]
  BY <1>3 DEF Iterates
<1> DEFINE r == [n \in 0 .. L |-> f[n]]
<1>5. r = Body(r)
  <2>1. ASSUME NEW n \in 1 .. L
        PROVE  f[n] = f[n - 1] + SizeOf(nodes[n])
    <3>1. n - 1 \in Nat /\ n - 1 < L /\ (n - 1) + 1 = n
      OBVIOUS
    <3> QED
      BY <1>1, <1>4, <3>1
  <2>2. \A n \in 1 .. L : r[n - 1] = f[n - 1]
    OBVIOUS
  <2>3. \A n \in 0 .. L : n # 0 => n \in 1 .. L
    OBVIOUS
  <2>4. Body(r) = [n \in 0 .. L |-> IF n = 0 THEN 0 ELSE f[n - 1] + SizeOf(nodes[n])]
    <3> HIDE DEF r
    <3> QED
      BY <2>2, <2>3
  <2> QED
    BY <1>4, <2>1, <2>3, <2>4
<1> HIDE DEF r
<1> DEFINE g == Ends(nodes)
<1>6. g = Body(g)
  BY <1>5, Zenon DEF Ends
<1> HIDE DEF g
<1>7. g[0] = 0 /\ \A n \in 1 .. L : g[n] = g[n - 1] + SizeOf(nodes[n])
  BY <1>6
<1>8. \A n \in 0 .. L : g[n] \in Nat
  <2> DEFINE T == {n \in Nat : n <= L => g[n] \in Nat}
  <2>1. 0 \in T
    BY <1>7
  <2>2. ASSUME NEW n \in Nat, n \in T
        PROVE  n + 1 \in T
    <3> SUFFICES ASSUME n + 1 <= L PROVE g[n + 1] \in Nat
      OBVIOUS
    <3>1. n + 1 \in 1 .. L /\ (n + 1) - 1 = n /\ g[n] \in Nat
      BY <2>2
    <3>2. g[n + 1] = g[n] + SizeOf(nodes[n + 1])
      BY <1>7, <3>1
    <3> QED
      BY <3>1, <3>2
  <2>3. Nat \subseteq T
    BY <2>1, <2>2, SetInduction
  <2> QED
    BY <2>3
<1> QED
  BY <1>7, <1>8 DEF g

\* s is the beginning of t.
Begins(s, t) == Len(s) <= Len(t) /\ \A i \in 1 .. Len(s) : s[i] = t[i]

\* A sequence begins what is put together of it and another one.
LEMMA ConcatBegins ==
  ASSUME NEW S, NEW s \in Seq(S), NEW t \in Seq(S)
  PROVE  Begins(s, s \o t)
<1>1. Len(s) \in Nat /\ Len(t) \in Nat
  OBVIOUS
<1> QED
  BY <1>1, ConcatProperties DEF Begins

\* The slices of a sequence and of its beginning are the same where both reach.
LEMMA SliceOfBeginning ==
  ASSUME NEW S, NEW s \in Seq(S), NEW t \in Seq(S), Begins(s, t),
         NEW offset \in Nat, NEW size \in Nat, offset + size <= Len(s)
  PROVE  /\ sliceBlob(s, offset, size) = sliceBlob(t, offset, size)
         /\ sliceBlob(s, offset, size) \in Seq(S)
         /\ Len(sliceBlob(s, offset, size)) = size
         /\ \A i \in 1 .. size : sliceBlob(s, offset, size)[i] = s[offset + i]
<1> DEFINE a == sliceBlob(s, offset, size)
           b == sliceBlob(t, offset, size)
<1>1. Len(s) \in Nat /\ Len(t) \in Nat /\ Len(s) <= Len(t)
  BY DEF Begins
<1>2. \A i \in (offset + 1) .. (offset + size) : s[i] \in S /\ t[i] \in S /\ s[i] = t[i]
  BY <1>1 DEF Begins
<1>3. /\ offset + 1 \in Int /\ offset + size \in Int
      /\ (offset + size) - (offset + 1) + 1 = size
      /\ (IF offset + 1 <= offset + size THEN (offset + size) - (offset + 1) + 1 ELSE 0) = size
      /\ \A i \in 1 .. size : (offset + 1) + i - 1 = offset + i
  OBVIOUS
<1>4. /\ a \in Seq(S) /\ Len(a) = size
      /\ \A i \in 1 .. size : a[i] = s[offset + i]
  <2>1. /\ a \in Seq(S)
        /\ Len(a) = IF offset + 1 <= offset + size THEN (offset + size) - (offset + 1) + 1 ELSE 0
        /\ \A i \in 1 .. (offset + size) - (offset + 1) + 1 : a[i] = s[(offset + 1) + i - 1]
    BY <1>2, <1>3, SubSeqProperties DEF sliceBlob
  <2> HIDE DEF a
  <2> QED
    BY <1>3, <2>1
<1>5. /\ b \in Seq(S) /\ Len(b) = size
      /\ \A i \in 1 .. size : b[i] = t[offset + i]
  <2>1. /\ b \in Seq(S)
        /\ Len(b) = IF offset + 1 <= offset + size THEN (offset + size) - (offset + 1) + 1 ELSE 0
        /\ \A i \in 1 .. (offset + size) - (offset + 1) + 1 : b[i] = t[(offset + 1) + i - 1]
    BY <1>2, <1>3, SubSeqProperties DEF sliceBlob
  <2> HIDE DEF b
  <2> QED
    BY <1>3, <2>1
<1>6. \A i \in 1 .. size : s[offset + i] = t[offset + i]
  BY <1>2
<1> HIDE DEF a, b
<1>7. a = b
  BY <1>4, <1>5, <1>6, SeqEqual
<1> QED
  BY <1>4, <1>7 DEF a, b

\* What has been put together stays at the beginning.
LEMMA FlatGrows ==
  ASSUME NEW S, NEW seqs \in Seq(Seq(S)), NEW flat, Flattens(flat, S, seqs),
         NEW n \in Nat, n <= Len(seqs)
  PROVE  Begins(flat[n], FlattenSeq(seqs))
<1> DEFINE L == Len(seqs)
           T == {d \in Nat : n + d <= L => Begins(flat[n], flat[n + d])}
<1>1. L \in Nat /\ \A k \in 1 .. L : seqs[k] \in Seq(S)
  OBVIOUS
<1>2. \A k \in Nat : flat[k] \in Seq(S) /\ Len(flat[k]) \in Nat
  BY DEF Flattens
<1> HIDE DEF L
<1>3. 0 \in T
  BY <1>2 DEF Begins
<1>4. ASSUME NEW d \in Nat, d \in T
      PROVE  d + 1 \in T
  <2> SUFFICES ASSUME n + (d + 1) <= L PROVE Begins(flat[n], flat[n + (d + 1)])
    OBVIOUS
  <2> DEFINE k == n + d
  <2>1. k \in Nat /\ k < L /\ n + (d + 1) = k + 1 /\ Begins(flat[n], flat[k])
    BY <1>1, <1>4
  <2> HIDE DEF k
  <2>2. flat[k + 1] = flat[k] \o seqs[k + 1] /\ seqs[k + 1] \in Seq(S)
    <3>1. k + 1 \in 1 .. L
      BY <1>1, <2>1
    <3>2. flat[k + 1] = flat[k] \o seqs[k + 1]
      BY <2>1 DEF Flattens, L
    <3> QED
      BY <1>1, <3>1, <3>2
  <2>3. Begins(flat[k], flat[k + 1])
    BY <1>2, <2>1, <2>2, ConcatBegins
  <2>4. Begins(flat[n], flat[k + 1])
    BY <1>2, <2>1, <2>3 DEF Begins
  <2> QED
    BY <2>1, <2>4
<1>5. Nat \subseteq T
  BY <1>3, <1>4, SetInduction
<1>6. L - n \in T /\ n + (L - n) = L
  BY <1>1, <1>5 DEF L
<1>7. Begins(flat[n], flat[L])
  BY <1>1, <1>6
<1> QED
  BY <1>7 DEF Flattens, L

\* Each of the sequences is found where those before it end.
LEMMA PiecesInPlace ==
  ASSUME NEW S, NEW seqs \in Seq(Seq(S)), NEW flat, Flattens(flat, S, seqs),
         NEW n \in 1 .. Len(seqs)
  PROVE  /\ FlattenSeq(seqs) \in Seq(S)
         /\ Len(flat[n - 1]) \in Nat
         /\ Len(flat[n - 1]) + Len(seqs[n]) <= Len(FlattenSeq(seqs))
         /\ sliceBlob(FlattenSeq(seqs), Len(flat[n - 1]), Len(seqs[n])) = seqs[n]
<1> DEFINE before == flat[n - 1]
           piece == seqs[n]
           all == FlattenSeq(seqs)
<1>1. Len(seqs) \in Nat /\ n \in Nat /\ n - 1 \in Nat /\ n - 1 < Len(seqs) /\ (n - 1) + 1 = n
      /\ n <= Len(seqs)
  OBVIOUS
<1>2. /\ before \in Seq(S) /\ piece \in Seq(S) /\ all \in Seq(S)
      /\ Len(before) \in Nat /\ Len(piece) \in Nat /\ Len(all) \in Nat
  <2>1. before \in Seq(S)
    BY <1>1 DEF Flattens
  <2>2. piece \in Seq(S)
    OBVIOUS
  <2>3. all \in Seq(S)
    BY <1>1 DEF Flattens
  <2> HIDE DEF before, piece, all
  <2> QED
    BY <2>1, <2>2, <2>3
<1>3. flat[n] = before \o piece
  BY <1>1 DEF Flattens
<1>4. /\ before \o piece \in Seq(S) /\ Len(before \o piece) = Len(before) + Len(piece)
      /\ \A i \in 1 .. Len(before) + Len(piece) :
           (before \o piece)[i] = IF i <= Len(before) THEN before[i] ELSE piece[i - Len(before)]
  BY <1>2, ConcatProperties
<1>5. Begins(before \o piece, all)
  BY <1>1, <1>3, FlatGrows
<1> DEFINE upto == before \o piece
<1> HIDE DEF before, piece, all, upto
<1>6. /\ sliceBlob(upto, Len(before), Len(piece)) = sliceBlob(all, Len(before), Len(piece))
      /\ sliceBlob(upto, Len(before), Len(piece)) \in Seq(S)
      /\ Len(sliceBlob(upto, Len(before), Len(piece))) = Len(piece)
      /\ \A i \in 1 .. Len(piece) :
           sliceBlob(upto, Len(before), Len(piece))[i] = upto[Len(before) + i]
  <2>1. /\ upto \in Seq(S) /\ Begins(upto, all) /\ Len(before) + Len(piece) <= Len(upto)
    BY <1>2, <1>4, <1>5 DEF upto
  <2> QED
    BY <1>2, <2>1, SliceOfBeginning
<1>7. ASSUME NEW i \in 1 .. Len(piece)
      PROVE  upto[Len(before) + i] = piece[i]
  <2>1. /\ Len(before) + i \in 1 .. Len(before) + Len(piece)
        /\ ~(Len(before) + i <= Len(before)) /\ (Len(before) + i) - Len(before) = i
    BY <1>2
  <2> QED
    BY <1>4, <2>1 DEF upto
<1>8. sliceBlob(upto, Len(before), Len(piece)) = piece
  <2> DEFINE a == sliceBlob(upto, Len(before), Len(piece))
  <2>1. a \in Seq(S) /\ Len(a) = Len(piece) /\ \A i \in 1 .. Len(a) : a[i] = piece[i]
    BY <1>6, <1>7
  <2> HIDE DEF a
  <2>2. a = piece
    BY <1>2, <2>1, SeqEqual
  <2> QED
    BY <2>2 DEF a
<1>9. Len(before) + Len(piece) <= Len(all)
  BY <1>4, <1>5 DEF Begins
<1> QED
  BY <1>2, <1>6, <1>8, <1>9 DEF before, piece, all

\* The nodes state the sizes of the sequences.
Sizes(nodes, seqs) ==
  Len(nodes) = Len(seqs) /\ \A n \in 1 .. Len(seqs) : SizeOf(nodes[n]) = Len(seqs[n])

\* Then the offsets are the lengths of what comes before.
LEMMA OffsetsMatch ==
  ASSUME NEW S, NEW seqs \in Seq(Seq(S)), NEW flat, Flattens(flat, S, seqs),
         NEW nodes, Sizes(nodes, seqs)
  PROVE  \A n \in 0 .. Len(seqs) : Ends(nodes)[n] = Len(flat[n])
<1> DEFINE L == Len(seqs)
           T == {n \in Nat : n <= L => Ends(nodes)[n] = Len(flat[n])}
<1>1. /\ L \in Nat /\ \A n \in 1 .. L : seqs[n] \in Seq(S) /\ SizeOf(nodes[n]) \in Nat
      /\ Len(nodes) = L
  BY DEF Sizes
<1>2. /\ Ends(nodes)[0] = 0
      /\ \A n \in 1 .. L : Ends(nodes)[n] = Ends(nodes)[n - 1] + SizeOf(nodes[n])
  BY <1>1, RunningOffset
<1>3. 0 \in T
  BY <1>2 DEF Flattens
<1>4. ASSUME NEW n \in Nat, n \in T
      PROVE  n + 1 \in T
  <2> SUFFICES ASSUME n + 1 <= L PROVE Ends(nodes)[n + 1] = Len(flat[n + 1])
    OBVIOUS
  <2>1. n < L /\ n + 1 \in 1 .. L /\ (n + 1) - 1 = n /\ Ends(nodes)[n] = Len(flat[n])
    BY <1>1, <1>4
  <2>2. Ends(nodes)[n + 1] = Ends(nodes)[n] + Len(seqs[n + 1])
    BY <1>2, <2>1 DEF Sizes
  <2>3. flat[n + 1] = flat[n] \o seqs[n + 1] /\ flat[n] \in Seq(S) /\ seqs[n + 1] \in Seq(S)
    BY <1>1, <2>1 DEF Flattens
  <2>4. Len(flat[n + 1]) = Len(flat[n]) + Len(seqs[n + 1])
    BY <2>3, ConcatProperties
  <2> QED
    BY <2>1, <2>2, <2>4
<1>5. Nat \subseteq T
  BY <1>3, <1>4, SetInduction
<1> QED
  BY <1>5

----------------------------------------------------------------------------
(* Values, text and bytes.                                                  *)

\* Only a finite half has the value of its widening.
LEMMA WidenUnique ==
  ASSUME NEW v \in Half, ExpOf(v) # 31, NEW h \in Half, SameValue(h, halfToFloat(v))
  PROVE  h = v
<1> DEFINE f == halfToFloat(v)
<1>1. f \in Float /\ SameValue(v, f)
  BY WidenExact
<1>2. floatToHalf(f) = v
  BY <1>1, NarrowExact
<1> HIDE DEF f
<1>3. CASE ExpOf(h) # 31
  BY <1>1, <1>2, <1>3, NarrowExact DEF f
<1>4. CASE ExpOf(h) = 31
  <2>1. Magnitude(h) # 0
    <3>1. Magnitude(h) = 31 * 1024 + MantOf(h) /\ MantOf(h) \in Nat
      BY <1>4, HalfFields DEF Joins
    <3> QED
      BY <3>1
  <2>2. f.exp = 255
    BY <1>4, <2>1, ValueOf DEF f
  <2>3. Joins(v, f.sign, 31, IF f.mant # 0 THEN 512 ELSE 0)
    <3>1. 255 >= 143
      OBVIOUS
    <3> QED
      BY <1>1, <1>2, <2>2, <3>1, NarrowFields
  <2> QED
    BY <2>3, FieldsOf
<1> QED
  BY <1>3, <1>4

\* A value survives the text, for the server and for the client.
LEMMA TextSurvives ==
  ASSUME NEW T, NEW v \in Values, T = "FP16" => v \in Half, Text(T, v) # Null
  PROVE  /\ T = "FP16" => /\ (CHOOSE h \in Values \cap Half : SameValue(h, Text(T, v)[2])) = v
                          /\ floatToHalf(Text(T, v)[2]) = v
         /\ T # "FP16" => Text(T, v)[2] = v
<1>1. IsFinite(T, v)
  BY DEF Text
<1>2. Text(T, v)[2] = IF T = "FP16" THEN halfToFloat(v) ELSE v
  BY <1>1 DEF Text
<1>3. ASSUME T = "FP16"
      PROVE  /\ (CHOOSE h \in Values \cap Half : SameValue(h, Text(T, v)[2])) = v
             /\ floatToHalf(Text(T, v)[2]) = v
  <2>1. ExpOf(v) # 31 /\ v \in Half
    BY <1>1, <1>3, Zenon DEF IsFinite
  <2>2. halfToFloat(v) \in Float /\ SameValue(v, halfToFloat(v))
    BY <2>1, WidenExact
  <2>3. \A h \in Values \cap Half : SameValue(h, halfToFloat(v)) => h = v
    BY <2>1, WidenUnique
  <2>4. (CHOOSE h \in Values \cap Half : SameValue(h, halfToFloat(v))) = v
    BY <2>1, <2>2, <2>3, Zenon
  <2>5. floatToHalf(halfToFloat(v)) = v
    BY <2>1, <2>2, NarrowExact
  <2> QED
    BY <1>2, <1>3, <2>4, <2>5, Zenon
<1> QED
  BY <1>2, <1>3, Zenon

\* The encodable datatypes have a width.
LEMMA EncodableWidths == Encodable \subseteq DOMAIN Width
BY DEF Encodable

\* What callers pass: elements of the datatype they state.
Elements(inputs) ==
  /\ inputs \in Seq(InputType)
  /\ \A n \in 1 .. Len(inputs) : inputs[n].datatype \in DOMAIN Width =>
       /\ ElementsOf(inputs[n].data, inputs[n].datatype)
       /\ ValuesFit(inputs[n].datatype, readArray(inputs[n].data, inputs[n].datatype))

\* The bytes a server makes of the numbers in a JSON array.
FromText(data, T) ==
  writeArray([k \in 1 .. Len(data) |->
    IF T = "FP16" THEN CHOOSE h \in Values \cap Half : SameValue(h, data[k][2])
    ELSE data[k][2]], T)

\* An input that is sent as text is read as the bytes it had.
LEMMA InlineArrives ==
  ASSUME NEW bytes \in Seq(Byte), NEW T, ~EncodeThrows(bytes, T), ElementsOf(bytes, T),
         ValuesFit(T, readArray(bytes, T)),
         Null \notin Range(encodeTensorData(bytes, T))
  PROVE  FromText(encodeTensorData(bytes, T), T) = bytes
<1> DEFINE v == readArray(bytes, T)
           data == encodeTensorData(bytes, T)
<1>1. T \in Encodable /\ T \in DOMAIN Width /\ ~Misaligned(bytes, T)
  BY EncodableWidths DEF EncodeThrows
<1>2. v \in Seq(Values) /\ Len(v) \in Nat
  <2>1. v \in Seq(Values)
    BY <1>1, ReadElements
  <2> HIDE DEF v
  <2> QED
    BY <2>1
<1>3. data = [n \in 1 .. Len(v) |-> Text(T, v[n])]
  BY DEF encodeTensorData
<1> HIDE DEF v
<1>4. Len(data) = Len(v) /\ \A n \in 1 .. Len(v) : data[n] = Text(T, v[n]) /\ data[n] # Null
  <2>1. Len(data) = Len(v) /\ DOMAIN data = 1 .. Len(v)
        /\ \A n \in 1 .. Len(v) : data[n] = Text(T, v[n])
    BY <1>2, <1>3
  <2> HIDE DEF data
  <2>2. \A n \in 1 .. Len(v) : data[n] \in Range(data)
    BY <2>1 DEF Range
  <2>3. Null \notin Range(data)
    BY DEF data
  <2> QED
    BY <2>1, <2>2, <2>3
<1> HIDE DEF data
<1>5. \A n \in 1 .. Len(v) : v[n] \in Values /\ (T = "FP16" => v[n] \in Half)
  <2>1. \A n \in 1 .. Len(v) : v[n] \in Values /\ v[n] \in Range(v)
    BY <1>2, LenProperties DEF Range
  <2> QED
    BY <2>1 DEF ValuesFit, v
<1> DEFINE Number(k) == IF T = "FP16" THEN CHOOSE h \in Values \cap Half : SameValue(h, data[k][2])
                        ELSE data[k][2]
<1>6. \A k \in 1 .. Len(v) : Number(k) = v[k]
  <2> TAKE k \in 1 .. Len(v)
  <2>1. data[k] = Text(T, v[k]) /\ Text(T, v[k]) # Null /\ v[k] \in Values
        /\ (T = "FP16" => v[k] \in Half)
    BY <1>4, <1>5
  <2>2. /\ T = "FP16" => (CHOOSE h \in Values \cap Half : SameValue(h, Text(T, v[k])[2])) = v[k]
        /\ T # "FP16" => Text(T, v[k])[2] = v[k]
    BY <2>1, TextSurvives
  <2> QED
    BY <2>1, <2>2, Zenon
<1>7. FromText(data, T) = writeArray([k \in 1 .. Len(v) |-> Number(k)], T)
  BY <1>4, Zenon DEF FromText
<1> HIDE DEF Number
<1>8. [k \in 1 .. Len(v) |-> Number(k)] = v
  <2>1. v = [k \in 1 .. Len(v) |-> v[k]]
    BY <1>2
  <2> QED
    BY <1>6, <2>1, Zenon
<1>9. writeArray(v, T) = bytes
  BY <1>1, ReadThenWrite DEF v
<1> QED
  BY <1>7, <1>8, <1>9 DEF data

----------------------------------------------------------------------------
(* Requests.                                                                *)

\* The request, by its fields.
LEMMA RequestFields ==
  ASSUME NEW inputs \in Seq(InputType), NEW binary \in BOOLEAN, NEW names
  PROVE  LET request_ == RequestOf(inputs, binary, names) IN
         /\ Len(request_.inputs) = Len(inputs)
         /\ \A n \in 1 .. Len(inputs) : request_.inputs[n] =
              IF binary THEN appendBinaryInput(inputs[n]) ELSE InlineInput(inputs[n])
         /\ binary => request_.blob = FlattenSeq([n \in 1 .. Len(inputs) |-> inputs[n].data])
<1> DEFINE node == [n \in 1 .. Len(inputs) |->
                      IF binary THEN appendBinaryInput(inputs[n]) ELSE InlineInput(inputs[n])]
           blob == IF binary THEN FlattenSeq([n \in 1 .. Len(inputs) |-> inputs[n].data])
                   ELSE <<>>
           out == IF binary THEN names ELSE <<>>
<1>1. RequestOf(inputs, binary, names) = [inputs |-> node, outputs |-> out, blob |-> blob]
  BY Zenon DEF RequestOf
<1>2. Len(inputs) \in Nat
  OBVIOUS
<1>3. Len(node) = Len(inputs) /\ \A n \in 1 .. Len(inputs) : node[n] =
              IF binary THEN appendBinaryInput(inputs[n]) ELSE InlineInput(inputs[n])
  BY <1>2
<1>4. binary => blob = FlattenSeq([n \in 1 .. Len(inputs) |-> inputs[n].data])
  OBVIOUS
<1> HIDE DEF node, blob, out
<1> QED
  BY <1>1, <1>3, <1>4

\* Whatever the mode, the server reads the bytes of each input out of the request.
LEMMA RequestArrives ==
  ASSUME NEW inputs, Elements(inputs), NEW binary \in BOOLEAN, NEW names,
         \A n \in 1 .. Len(inputs) : ~InputThrows(inputs[n], binary),
         ~ServerRejects(RequestOf(inputs, binary, names))
  PROVE  ServerReads(RequestOf(inputs, binary, names)) =
           [n \in 1 .. Len(inputs) |-> inputs[n].data]
<1> DEFINE L == Len(inputs)
           sent == RequestOf(inputs, binary, names)
           nodes == sent.inputs
           Read(n) == IF nodes[n].size >= 0
                      THEN sliceBlob(sent.blob, Ends(nodes)[n - 1], nodes[n].size)
                      ELSE FromText(nodes[n].data, nodes[n].datatype)
<1>1. inputs \in Seq(InputType) /\ L \in Nat
  BY DEF Elements
<1>2. \A n \in 1 .. L : inputs[n] \in InputType /\ inputs[n].data \in Seq(Byte)
  <2>1. \A n \in 1 .. L : inputs[n] \in InputType
    BY <1>1
  <2> QED
    BY <2>1 DEF InputType
<1>3. /\ Len(nodes) = L
      /\ \A n \in 1 .. L : nodes[n] =
           IF binary THEN appendBinaryInput(inputs[n]) ELSE InlineInput(inputs[n])
      /\ binary => sent.blob = FlattenSeq([n \in 1 .. L |-> inputs[n].data])
  BY <1>1, RequestFields
<1>4. ServerReads(sent) = [n \in 1 .. Len(nodes) |-> Read(n)]
  BY Zenon DEF ServerReads, FromText
<1>5. ASSUME NEW n \in 1 .. L
      PROVE  Null \notin Range(nodes[n].data)
  BY <1>3 DEF ServerRejects
<1> HIDE DEF sent
<1>6. CASE binary = TRUE
  <2> DEFINE pieces == [n \in 1 .. L |-> inputs[n].data]
  <2>1. pieces \in Seq(Seq(Byte)) /\ Len(pieces) = L
    BY <1>1, <1>2
  <2>2. \A n \in 1 .. L : pieces[n] = inputs[n].data /\ Len(pieces[n]) \in Nat
    BY <1>2
  <2>3. \A n \in 1 .. L : nodes[n].size = Len(pieces[n])
    <3>1. \A input : appendBinaryInput(input).size = Len(input.data)
      BY DEF appendBinaryInput
    <3>2. \A n \in 1 .. L : nodes[n] = appendBinaryInput(inputs[n])
      BY <1>3, <1>6
    <3> HIDE DEF pieces, nodes, L
    <3> QED
      BY <2>2, <3>1, <3>2
  <2>4. sent.blob = FlattenSeq(pieces)
    BY <1>3, <1>6
  <2> HIDE DEF pieces, nodes, L
  <2>5. \A n \in 1 .. L : SizeOf(nodes[n]) = Len(pieces[n]) /\ nodes[n].size >= 0
    BY <2>2, <2>3 DEF SizeOf
  <2>6. PICK flat : Flattens(flat, Byte, pieces)
    BY <2>1, FlattenSteps
  <2>7. \A n \in 0 .. L : Ends(nodes)[n] = Len(flat[n])
    <3>1. Sizes(nodes, pieces)
      BY <1>3, <2>1, <2>5 DEF Sizes
    <3>2. \A n \in 0 .. Len(pieces) : Ends(nodes)[n] = Len(flat[n])
      BY <2>1, <2>6, <3>1, OffsetsMatch
    <3> QED
      BY <2>1, <3>2
  <2>8. \A n \in 1 .. L : Read(n) = inputs[n].data
    <3> TAKE n \in 1 .. L
    <3>1. n - 1 \in 0 .. L
      BY <1>1
    <3>2. Read(n) = sliceBlob(FlattenSeq(pieces), Len(flat[n - 1]), Len(pieces[n]))
      BY <2>3, <2>4, <2>5, <2>7, <3>1
    <3>3. sliceBlob(FlattenSeq(pieces), Len(flat[n - 1]), Len(pieces[n])) = pieces[n]
      BY <2>1, <2>6, PiecesInPlace
    <3> QED
      BY <2>2, <3>2, <3>3
  <2> HIDE DEF Read
  <2>9. [n \in 1 .. L |-> Read(n)] = [n \in 1 .. L |-> inputs[n].data]
    BY <2>8
  <2> QED
    BY <1>3, <1>4, <2>9 DEF sent, L
<1>7. CASE binary = FALSE
  <2>1. ASSUME NEW n \in 1 .. L
        PROVE  Read(n) = inputs[n].data
    <3> DEFINE T == inputs[n].datatype
               bytes == inputs[n].data
    <3>1. nodes[n] = [datatype |-> T, size |-> NoSize, data |-> encodeTensorData(bytes, T)]
      BY <1>3, <1>7 DEF InlineInput
    <3>2. ~EncodeThrows(bytes, T)
      BY <1>7 DEF InputThrows
    <3>3. T \in DOMAIN Width
      BY <3>2, EncodableWidths DEF EncodeThrows
    <3>4. ElementsOf(bytes, T) /\ ValuesFit(T, readArray(bytes, T))
      BY <3>3 DEF Elements
    <3>5. bytes \in Seq(Byte)
      BY <1>2
    <3>6. nodes[n].size = -1 /\ nodes[n].data = encodeTensorData(bytes, T)
          /\ nodes[n].datatype = T
      BY <3>1 DEF NoSize
    <3>7. Null \notin Range(encodeTensorData(bytes, T))
      BY <1>5, <3>6
    <3> HIDE DEF nodes, T, bytes
    <3>8. FromText(encodeTensorData(bytes, T), T) = bytes
      BY <3>2, <3>4, <3>5, <3>7, InlineArrives
    <3>9. Read(n) = FromText(nodes[n].data, nodes[n].datatype)
      BY <3>6
    <3> QED
      BY <3>6, <3>8, <3>9 DEF bytes
  <2> HIDE DEF Read, nodes, L
  <2>2. [n \in 1 .. L |-> Read(n)] = [n \in 1 .. L |-> inputs[n].data]
    BY <2>1
  <2> QED
    BY <1>3, <1>4, <2>2 DEF sent, L
<1> QED
  BY <1>6, <1>7

----------------------------------------------------------------------------
(* Responses.                                                               *)

\* Elements are written as bytes.
LEMMA WriteBytes ==
  ASSUME NEW T \in DOMAIN Width, T \in STRING, NEW range \in Seq(Values)
  PROVE  writeArray(range, T) \in Seq(Byte) /\ Len(writeArray(range, T)) = Len(range) * Width[T]
<1> DEFINE w == Width[T]
           len == Len(range)
           bytes == writeArray(range, T)
<1>1. w \in {1, 2, 4, 8} /\ len \in Nat /\ len * w \in Nat
  BY Widths, WriteType
<1>2. Len(bytes) = len * w
  BY WriteType
<1>3. bytes = [m \in 1 .. len * w |-> <<T, range[((m - 1) \div w) + 1], ((m - 1) % w) + 1>>]
  BY DEF writeArray
<1> HIDE DEF w, len
<1>4. \A m \in 1 .. len * w : <<T, range[((m - 1) \div w) + 1], ((m - 1) % w) + 1>> \in Byte
  <2> TAKE m \in 1 .. len * w
  <2> DEFINE q == ((m - 1) \div w) + 1
             r == ((m - 1) % w) + 1
  <2>1. q \in 1 .. len /\ r \in 1 .. w
    BY <1>1, Division
  <2> HIDE DEF q, r
  <2>2. range[q] \in Values /\ r \in Nat
    BY <1>1, <2>1 DEF len
  <2>3. <<T, range[q], r>> \in STRING \X Values \X Nat
    BY <2>2
  <2> QED
    BY <2>3 DEF Byte, q, r
<1>5. bytes \in [1 .. len * w -> Byte]
  BY <1>3, <1>4
<1> HIDE DEF bytes
<1>6. bytes \in Seq(Byte)
  BY <1>1, <1>5, SeqDef
<1> QED
  BY <1>2, <1>6 DEF bytes, w, len

\* The tensors of a model, as the client understands them.
Tensors(tensors) ==
  /\ tensors \in Seq(TensorType)
  /\ \A n \in 1 .. Len(tensors) : /\ DatatypeOf(tensors[n].tag) = tensors[n].datatype
                                  /\ ValuesFit(tensors[n].datatype, tensors[n].values)

\* A response that gives these tensors in these forms.
Gives(given, tensors, forms) ==
  /\ Tensors(tensors)
  /\ forms \in [1 .. Len(tensors) -> Forms]
  /\ \A n \in 1 .. Len(tensors) : Expressible(tensors[n], forms[n])
  /\ given = ResponseOf(tensors, forms)

\* What a node says of its tensor.
LEMMA NodeFields ==
  ASSUME NEW t \in TensorType, NEW form \in Forms, Expressible(t, form)
  PROVE  LET node == NodeOf(t, form)
             len == Len(t.values) * Width[t.datatype]
         IN /\ t.datatype \in DOMAIN Width /\ len \in Nat
            /\ node.name = t.name /\ node.tag = t.tag
            /\ node.size \in Int
            /\ form = "inline" => /\ node.size = -1 /\ node.has_data = TRUE
                                  /\ t.datatype \in Encodable
                                  /\ node.data = [n \in 1 .. Len(t.values) |->
                                                    Text(t.datatype, t.values[n])]
            /\ form # "inline" => node.has_data = FALSE
            /\ form = "binary" => node.size = len
<1> DEFINE len == Len(t.values) * Width[t.datatype]
           size == CASE form = "inline" -> NoSize
                     [] form = "binary" -> len
                     [] form = "short" -> len - 1
                     [] form = "long" -> len + 1
           data == IF Sized(form) THEN <<>>
                   ELSE [n \in 1 .. Len(t.values) |-> Text(t.datatype, t.values[n])]
           has == ~Sized(form)
<1>1. t.datatype \in DOMAIN Width /\ (form = "inline" => t.datatype \in Encodable)
  <2>1. t.datatype \in IF Sized(form) THEN DOMAIN Width ELSE Encodable
    BY DEF Expressible
  <2> QED
    BY <2>1, EncodableWidths DEF Sized
<1>2. len \in Nat
  <2>1. t.values \in Seq(Values)
    BY DEF TensorType
  <2> QED
    BY <1>1, <2>1, WriteType
<1>3. NodeOf(t, form) = [name |-> t.name, tag |-> t.tag, has_data |-> has, size |-> size,
                         data |-> data]
  BY Zenon DEF NodeOf
<1>4. form = "inline" => data = [n \in 1 .. Len(t.values) |-> Text(t.datatype, t.values[n])]
  BY DEF Sized
<1>5. (form = "inline" => has = TRUE) /\ (form # "inline" => has = FALSE)
  BY DEF Sized
<1> HIDE DEF data, has, len
<1>6. /\ form = "inline" => size = NoSize
      /\ form = "binary" => size = len
      /\ form = "short" => size = len - 1
      /\ form = "long" => size = len + 1
  BY Zenon
<1> HIDE DEF size
<1>7. size \in Int /\ (form = "inline" => size = -1)
  BY <1>2, <1>6 DEF NoSize, Forms
<1> QED
  BY <1>1, <1>2, <1>3, <1>4, <1>5, <1>6, <1>7 DEF data, len

\* The nodes of a response.
LEMMA ResponseNodes ==
  ASSUME NEW given, NEW tensors, NEW forms, Gives(given, tensors, forms)
  PROVE  /\ Len(tensors) \in Nat /\ Len(given.nodes) = Len(tensors)
         /\ \A n \in 1 .. Len(tensors) :
              /\ given.nodes[n] = NodeOf(tensors[n], forms[n])
              /\ forms[n] # "inline" => given.header_length = JsonLen
              /\ tensors[n] \in TensorType /\ forms[n] \in Forms
              /\ Expressible(tensors[n], forms[n])
              /\ DatatypeOf(tensors[n].tag) = tensors[n].datatype
              /\ ValuesFit(tensors[n].datatype, tensors[n].values)
<1> DEFINE L == Len(tensors)
           nodes == [n \in 1 .. L |-> NodeOf(tensors[n], forms[n])]
           header == IF \E n \in 1 .. Len(forms) : Sized(forms[n]) THEN JsonLen ELSE NoSize
<1>1. L \in Nat /\ Len(forms) = L /\ tensors \in Seq(TensorType)
  BY DEF Gives, Tensors
<1>2. given.nodes = nodes /\ given.header_length = header
  BY DEF Gives, ResponseOf
<1>3. Len(nodes) = L /\ \A n \in 1 .. L : nodes[n] = NodeOf(tensors[n], forms[n])
  BY <1>1
<1>4. \A n \in 1 .. L : forms[n] # "inline" => header = JsonLen
  BY <1>1 DEF Sized
<1>5. \A n \in 1 .. L : /\ tensors[n] \in TensorType /\ forms[n] \in Forms
                        /\ Expressible(tensors[n], forms[n])
                        /\ DatatypeOf(tensors[n].tag) = tensors[n].datatype
                        /\ ValuesFit(tensors[n].datatype, tensors[n].values)
  BY <1>1 DEF Gives, Tensors
<1> HIDE DEF nodes, header
<1> QED
  BY <1>1, <1>2, <1>3, <1>4, <1>5

\* The bytes of a tensor in the blob.
Piece(tensors, forms, n) ==
  IF Sized(forms[n]) THEN writeArray(tensors[n].values, tensors[n].datatype) ELSE <<>>

\* The blob of a response.
LEMMA ResponseFields ==
  ASSUME NEW given, NEW tensors, NEW forms, Gives(given, tensors, forms)
  PROVE  LET L == Len(tensors)
             pieces == [n \in 1 .. L |-> Piece(tensors, forms, n)]
         IN /\ L \in Nat /\ given.json = JsonLen /\ given.has_outputs = TRUE
            /\ pieces \in Seq(Seq(Byte)) /\ Len(pieces) = L
            /\ given.blob = FlattenSeq(pieces) /\ given.blob \in Seq(Byte)
<1> DEFINE L == Len(tensors)
           pieces == [n \in 1 .. L |-> Piece(tensors, forms, n)]
           nodes == [n \in 1 .. L |-> NodeOf(tensors[n], forms[n])]
           header == IF \E n \in 1 .. Len(forms) : Sized(forms[n]) THEN JsonLen ELSE NoSize
<1>1. L \in Nat /\ Len(forms) = L /\ tensors \in Seq(TensorType)
  BY DEF Gives, Tensors
<1>2. BlobOf(tensors, forms) = FlattenSeq(pieces)
  BY DEF BlobOf, Piece
<1>3. given = [header_length |-> header, json |-> JsonLen, has_outputs |-> TRUE,
               nodes |-> nodes, blob |-> FlattenSeq(pieces)]
  BY <1>2, Zenon DEF Gives, ResponseOf
<1>6. \A n \in 1 .. L : Piece(tensors, forms, n) \in Seq(Byte)
  <2> TAKE n \in 1 .. L
  <2>1. tensors[n] \in TensorType /\ forms[n] \in Forms /\ Expressible(tensors[n], forms[n])
    BY ResponseNodes
  <2>2. /\ tensors[n].datatype \in DOMAIN Width /\ tensors[n].datatype \in STRING
        /\ tensors[n].values \in Seq(Values)
    BY <2>1, NodeFields DEF TensorType
  <2>3. writeArray(tensors[n].values, tensors[n].datatype) \in Seq(Byte)
    BY <2>2, WriteBytes
  <2> QED
    BY <2>3 DEF Piece
<1>7. pieces \in Seq(Seq(Byte)) /\ Len(pieces) = L
  BY <1>1, <1>6
<1> HIDE DEF pieces, nodes, header, L
<1>8. FlattenSeq(pieces) \in Seq(Byte)
  <2>1. PICK flat : Flattens(flat, Byte, pieces)
    BY <1>7, FlattenSteps
  <2> QED
    BY <1>1, <1>7, <2>1 DEF Flattens
<1>9. /\ given.json = JsonLen /\ given.has_outputs = TRUE
      /\ given.blob = FlattenSeq(pieces)
  BY <1>3
<1> QED
  BY <1>1, <1>7, <1>8, <1>9 DEF pieces, L

----------------------------------------------------------------------------
(* What arrives of a response.                                              *)

\* What arrives when the JSON is whole: all of it, and the beginning of the blob.
LEMMA ArrivedFields ==
  ASSUME NEW given, NEW tensors, NEW forms, Gives(given, tensors, forms),
         NEW m \in 0 .. BodyLen(given), ~splitThrows(CutTo(given, m))
  PROVE  LET arrived == CutTo(given, m) IN
         /\ arrived.nodes = given.nodes /\ arrived.header_length = given.header_length
         /\ arrived.blob \in Seq(Byte) /\ Begins(arrived.blob, given.blob)
<1> DEFINE blob == given.blob
           json == IF m < given.json THEN m ELSE given.json
           part == SubSeq(blob, 1, m - given.json)
           arrived == CutTo(given, m)
<1>1. given.json = 2 /\ blob \in Seq(Byte) /\ Len(blob) \in Nat
  <2>1. given.json = JsonLen /\ blob \in Seq(Byte)
    BY ResponseFields
  <2> HIDE DEF blob
  <2> QED
    BY <2>1 DEF JsonLen
<1>2. given = [header_length |-> given.header_length, json |-> given.json,
               has_outputs |-> given.has_outputs, nodes |-> given.nodes, blob |-> given.blob]
  BY DEF Gives, ResponseOf
<1>3. arrived.json = json /\ arrived.blob = part /\ arrived.nodes = given.nodes
      /\ arrived.header_length = given.header_length
  BY <1>2 DEF CutTo
<1>4. m >= 2 /\ m - given.json \in 0 .. Len(blob)
  <2>1. ~(json < 2)
    BY <1>3 DEF splitThrows, JsonLen
  <2>2. m \in Nat /\ m <= 2 + Len(blob)
    BY <1>1 DEF BodyLen
  <2> HIDE DEF blob
  <2> QED
    BY <1>1, <2>1, <2>2
<1> DEFINE k == m - given.json
<1>5. k \in 0 .. Len(blob)
  BY <1>4
<1> HIDE DEF blob, k
<1>6. \A i \in 1 .. k : blob[i] \in Byte
  BY <1>1, <1>5
<1>7. /\ SubSeq(blob, 1, k) \in Seq(Byte)
      /\ Len(SubSeq(blob, 1, k)) = IF 1 <= k THEN k - 1 + 1 ELSE 0
      /\ \A i \in 1 .. k - 1 + 1 : SubSeq(blob, 1, k)[i] = blob[1 + i - 1]
  BY <1>1, <1>5, <1>6, SubSeqProperties
<1>8. /\ Len(SubSeq(blob, 1, k)) = k
      /\ \A i \in 1 .. k : SubSeq(blob, 1, k)[i] = blob[i]
  <2>1. k - 1 + 1 = k /\ (IF 1 <= k THEN k - 1 + 1 ELSE 0) = k
    BY <1>1, <1>5
  <2>2. \A i \in 1 .. k : 1 + i - 1 = i
    BY <1>1, <1>5
  <2> QED
    BY <1>7, <2>1, <2>2
<1>9. Begins(SubSeq(blob, 1, k), blob)
  BY <1>1, <1>5, <1>8 DEF Begins
<1> QED
  BY <1>3, <1>7, <1>9 DEF k, blob

\* Every node that states a size is cut out of the blob, none beyond its end.
Cuts(nodes, blob, pieces) ==
  /\ Len(nodes) \in Nat /\ Len(pieces) = Len(nodes)
  /\ \A n \in 1 .. Len(nodes) :
       /\ nodes[n].size \in Int
       /\ nodes[n].size >= 0 =>
            /\ ~SliceThrows(blob, Ends(nodes)[n - 1], nodes[n].size)
            /\ pieces[n] = sliceBlob(blob, Ends(nodes)[n - 1], nodes[n].size)
       /\ nodes[n].size < 0 => pieces[n] = <<>>

\* The slices follow one another from the first byte on.
LEMMA SlicesFollow ==
  ASSUME NEW S, NEW blob \in Seq(S), NEW nodes, NEW pieces, pieces = [n \in 1 .. Len(nodes) |-> pieces[n]],
         Cuts(nodes, blob, pieces)
  PROVE  /\ \A n \in 1 .. Len(nodes) : nodes[n].size >= 0 => Len(pieces[n]) = nodes[n].size
         /\ Begins(FlattenSeq(pieces), blob)
         /\ FlattenSeq(pieces) \in Seq(S)
<1> DEFINE L == Len(nodes)
           E == Ends(nodes)
<1>1. L \in Nat /\ Len(pieces) = L /\ Len(blob) \in Nat /\ blob \in Seq(S)
  BY DEF Cuts
<1>2. \A n \in 1 .. L : SizeOf(nodes[n]) \in Nat
  BY DEF Cuts, SizeOf
<1>3. /\ E[0] = 0 /\ \A n \in 0 .. L : E[n] \in Nat
      /\ \A n \in 1 .. L : E[n] = E[n - 1] + SizeOf(nodes[n])
  BY <1>1, <1>2, RunningOffset
<1> HIDE DEF E
<1>4. ASSUME NEW n \in 1 .. L, nodes[n].size >= 0
      PROVE  /\ pieces[n] = sliceBlob(blob, E[n - 1], nodes[n].size)
             /\ E[n - 1] \in Nat /\ nodes[n].size \in Nat
             /\ E[n] = E[n - 1] + nodes[n].size /\ E[n] <= Len(blob)
             /\ pieces[n] \in Seq(S) /\ Len(pieces[n]) = nodes[n].size
  <2>1. /\ nodes[n].size \in Nat /\ pieces[n] = sliceBlob(blob, E[n - 1], nodes[n].size)
        /\ ~SliceThrows(blob, E[n - 1], nodes[n].size)
    BY <1>4 DEF Cuts, E
  <2>2. n - 1 \in 0 .. L
    BY <1>1
  <2>3. E[n - 1] \in Nat /\ E[n] = E[n - 1] + nodes[n].size
    BY <1>3, <1>4, <2>1, <2>2 DEF SizeOf
  <2>4. E[n - 1] + nodes[n].size <= Len(blob)
    BY <1>1, <2>1, <2>3 DEF SliceThrows
  <2>5. Begins(blob, blob)
    BY <1>1 DEF Begins
  <2>6. /\ sliceBlob(blob, E[n - 1], nodes[n].size) \in Seq(S)
        /\ Len(sliceBlob(blob, E[n - 1], nodes[n].size)) = nodes[n].size
    BY <2>1, <2>3, <2>4, <2>5, SliceOfBeginning
  <2> QED
    BY <2>1, <2>3, <2>4, <2>6
<1>5. ASSUME NEW n \in 1 .. L, nodes[n].size < 0
      PROVE  pieces[n] = <<>> /\ E[n] = E[n - 1]
  <2>1. n - 1 \in 0 .. L
    BY <1>1
  <2>2. nodes[n].size \in Int /\ pieces[n] = <<>>
    BY <1>5 DEF Cuts
  <2> QED
    BY <1>3, <1>5, <2>1, <2>2 DEF SizeOf
<1>6. \A n \in 1 .. L : nodes[n].size \in Int
  BY DEF Cuts
<1>7. pieces \in Seq(Seq(S))
  <2>1. ASSUME NEW n \in 1 .. L
        PROVE  pieces[n] \in Seq(S)
    <3>1. CASE nodes[n].size >= 0
      BY <1>4, <3>1
    <3>2. CASE nodes[n].size < 0
      <4>1. pieces[n] = <<>>
        BY <1>5, <3>2
      <4> QED
        BY <4>1
    <3>3. nodes[n].size \in Int
      BY <1>6
    <3> QED
      BY <3>1, <3>2, <3>3
  <2>2. pieces \in [1 .. L -> Seq(S)]
    BY <2>1
  <2> QED
    BY <1>1, <2>2, SeqDef
<1>8. PICK flat : Flattens(flat, S, pieces)
  BY <1>7, FlattenSteps
<1> DEFINE T == {n \in Nat : n <= L => E[n] <= Len(blob) /\ flat[n] = SubSeq(blob, 1, E[n])}
<1>9. 0 \in T
  <2>1. SubSeq(blob, 1, 0) = <<>>
    BY SubSeqEmpty
  <2> QED
    BY <1>1, <1>3, <1>8, <2>1 DEF Flattens
<1>10. ASSUME NEW n \in Nat, n \in T
       PROVE  n + 1 \in T
  <2> SUFFICES ASSUME n + 1 <= L
               PROVE  E[n + 1] <= Len(blob) /\ flat[n + 1] = SubSeq(blob, 1, E[n + 1])
    OBVIOUS
  <2>1. n < L /\ n + 1 \in 1 .. L /\ (n + 1) - 1 = n /\ n \in 0 .. L
        /\ E[n] <= Len(blob) /\ flat[n] = SubSeq(blob, 1, E[n])
    BY <1>1, <1>10
  <2>2. flat[n + 1] = flat[n] \o pieces[n + 1] /\ flat[n] \in Seq(S)
    BY <1>1, <1>8, <2>1 DEF Flattens
  <2>3. CASE nodes[n + 1].size >= 0
    <3>1. /\ pieces[n + 1] = sliceBlob(blob, E[n], nodes[n + 1].size)
          /\ E[n] \in Nat /\ nodes[n + 1].size \in Nat
          /\ E[n + 1] = E[n] + nodes[n + 1].size /\ E[n + 1] <= Len(blob)
      BY <1>4, <2>1, <2>3
    <3>2. pieces[n + 1] = SubSeq(blob, E[n] + 1, E[n + 1])
      BY <3>1 DEF sliceBlob
    <3>3. 1 \in 1 .. Len(blob) + 1 /\ E[n] \in (1 - 1) .. Len(blob) /\ E[n + 1] \in E[n] .. Len(blob)
      BY <1>1, <2>1, <3>1
    <3>4. SubSeq(blob, 1, E[n]) \o SubSeq(blob, E[n] + 1, E[n + 1]) = SubSeq(blob, 1, E[n + 1])
      BY <1>1, <3>3, ConcatAdjacentSubSeq
    <3> QED
      BY <2>1, <2>2, <3>1, <3>2, <3>4
  <2>4. CASE nodes[n + 1].size < 0
    <3>1. pieces[n + 1] = <<>> /\ E[n + 1] = E[n]
      BY <1>5, <2>1, <2>4
    <3>2. flat[n] \o <<>> = flat[n]
      BY <2>2, ConcatEmptySeq
    <3> QED
      BY <2>1, <2>2, <3>1, <3>2
  <2> QED
    BY <1>6, <2>1, <2>3, <2>4
<1>11. Nat \subseteq T
  BY <1>9, <1>10, SetInduction
<1>12. L \in T
  BY <1>1, <1>11
<1>13. /\ FlattenSeq(pieces) = SubSeq(blob, 1, E[L]) /\ E[L] \in Nat /\ E[L] <= Len(blob)
       /\ FlattenSeq(pieces) \in Seq(S)
  <2>1. FlattenSeq(pieces) = flat[L] /\ flat[L] \in Seq(S)
    BY <1>1, <1>8 DEF Flattens
  <2>2. E[L] <= Len(blob) /\ flat[L] = SubSeq(blob, 1, E[L])
    BY <1>1, <1>12
  <2>3. E[L] \in Nat
    BY <1>1, <1>3
  <2> QED
    BY <2>1, <2>2, <2>3
<1>14. Begins(FlattenSeq(pieces), blob)
  <2> DEFINE k == E[L]
  <2>1. k \in Nat /\ k <= Len(blob)
    BY <1>13
  <2> HIDE DEF k
  <2>2. \A i \in 1 .. k : blob[i] \in S
    BY <1>1, <2>1
  <2>3. /\ Len(SubSeq(blob, 1, k)) = IF 1 <= k THEN k - 1 + 1 ELSE 0
        /\ \A i \in 1 .. k - 1 + 1 : SubSeq(blob, 1, k)[i] = blob[1 + i - 1]
    BY <2>1, <2>2, SubSeqProperties
  <2>4. k - 1 + 1 = k /\ (IF 1 <= k THEN k - 1 + 1 ELSE 0) = k
        /\ \A i \in 1 .. k : 1 + i - 1 = i
    BY <2>1
  <2>5. Begins(SubSeq(blob, 1, k), blob)
    BY <2>1, <2>3, <2>4 DEF Begins
  <2> QED
    BY <1>13, <2>5 DEF k
<1>15. \A n \in 1 .. L : nodes[n].size >= 0 => Len(pieces[n]) = nodes[n].size
  BY <1>4
<1> QED
  BY <1>13, <1>14, <1>15

----------------------------------------------------------------------------
(* What infer makes of it.                                                  *)

\* The tensors that infer makes of what arrived of a response.
Makes(out, arrived) ==
  /\ ~InferThrows(arrived)
  /\ out = [n \in 1 .. Len(arrived.nodes) |-> OutputOf(arrived, n)]

\* What infer makes of a node: one with a size is sliced out of the blob, an
\* inline one is decoded.
Output(output, tensor, form, given, arrived, n) ==
  LET node == given.nodes[n]
      T == tensor.datatype
  IN /\ output = [name |-> tensor.name, datatype |-> T, data |-> output.data]
     /\ node.size >= 0 =>
          /\ ~SliceThrows(arrived.blob, Ends(given.nodes)[n - 1], node.size)
          /\ output.data = sliceBlob(arrived.blob, Ends(given.nodes)[n - 1], node.size)
     /\ form = "inline" => ~DecodeThrows(node.data, T) /\ output.data = decodeTensorData(node.data, T)

\* It makes one of each node.
LEMMA OutputFields ==
  ASSUME NEW given, NEW tensors, NEW forms, Gives(given, tensors, forms),
         NEW m \in 0 .. BodyLen(given), NEW out, Makes(out, CutTo(given, m))
  PROVE  /\ Len(out) = Len(tensors) /\ out = [n \in 1 .. Len(tensors) |-> out[n]]
         /\ \A n \in 1 .. Len(tensors) :
              Output(out[n], tensors[n], forms[n], given, CutTo(given, m), n)
<1> DEFINE arrived == CutTo(given, m)
           L == Len(tensors)
           nodes == given.nodes
           blob == arrived.blob
<1>1. ~splitThrows(arrived)
  BY DEF Makes, InferThrows
<1>2. /\ L \in Nat /\ Len(nodes) = L
      /\ \A n \in 1 .. L : nodes[n] = NodeOf(tensors[n], forms[n])
      /\ \A n \in 1 .. L : forms[n] # "inline" => given.header_length = JsonLen
  BY ResponseNodes
<1>3. arrived.nodes = nodes /\ arrived.header_length = given.header_length
  BY <1>1, ArrivedFields
<1> HIDE DEF arrived
<1>4. out = [n \in 1 .. L |-> OutputOf(arrived, n)]
  BY <1>2, <1>3 DEF Makes, arrived
<1>5. ASSUME NEW n \in 1 .. L
      PROVE  Output(out[n], tensors[n], forms[n], given, arrived, n)
  <2> DEFINE node == nodes[n]
             T == tensors[n].datatype
             bin == IsBinary(arrived) /\ node.size >= 0
             slice == sliceBlob(blob, Ends(nodes)[n - 1], node.size)
             text == decodeTensorData(node.data, T)
             data == IF bin THEN slice ELSE IF node.has_data THEN text ELSE <<>>
  <2>1. tensors[n] \in TensorType /\ forms[n] \in Forms /\ Expressible(tensors[n], forms[n])
        /\ DatatypeOf(tensors[n].tag) = T
    BY ResponseNodes
  <2>2. /\ node.name = tensors[n].name /\ node.tag = tensors[n].tag /\ node.size \in Int
        /\ forms[n] = "inline" => node.size = -1 /\ node.has_data = TRUE
    <3>1. nodes[n] = NodeOf(tensors[n], forms[n])
      BY <1>2
    <3> QED
      <4>1. NodeOf(tensors[n], forms[n]).size \in Int
        BY <2>1, NodeFields
      <4>2. /\ NodeOf(tensors[n], forms[n]).name = tensors[n].name
            /\ NodeOf(tensors[n], forms[n]).tag = tensors[n].tag
        BY <2>1, NodeFields
      <4>3. forms[n] = "inline" => /\ NodeOf(tensors[n], forms[n]).size = -1
                                   /\ NodeOf(tensors[n], forms[n]).has_data = TRUE
        BY <2>1, NodeFields
      <4> HIDE DEF nodes
      <4> QED
        BY <3>1, <4>1, <4>2, <4>3, Zenon
  <2>3. node.size >= 0 => IsBinary(arrived)
    <3>1. node.size >= 0 => forms[n] # "inline"
      BY <2>2
    <3>2. node.size >= 0 => arrived.header_length = 2
      BY <1>2, <1>3, <3>1 DEF JsonLen
    <3> QED
      BY <3>2 DEF IsBinary
  <2>4. out[n] = [name |-> node.name, datatype |-> T, data |-> data]
    <3>1. out[n] = OutputOf(arrived, n)
      BY <1>4
    <3>2. DatatypeOf(arrived.nodes[n].tag) = T
      BY <1>3, <2>1, <2>2
    <3> QED
      BY <1>3, <3>1, <3>2, Zenon DEF OutputOf
  <2>5. IF bin THEN ~SliceThrows(blob, Ends(nodes)[n - 1], node.size)
        ELSE ~(node.has_data /\ DecodeThrows(node.data, T))
    <3>1. ~(IF IsBinary(arrived) /\ arrived.nodes[n].size >= 0
            THEN SliceThrows(arrived.blob, Ends(arrived.nodes)[n - 1], arrived.nodes[n].size)
            ELSE arrived.nodes[n].has_data
                 /\ DecodeThrows(arrived.nodes[n].data, DatatypeOf(arrived.nodes[n].tag)))
      BY <1>2, <1>3 DEF Makes, InferThrows, arrived
    <3>2. DatatypeOf(arrived.nodes[n].tag) = T
      BY <1>3, <2>1, <2>2
    <3> QED
      BY <1>3, <3>1, <3>2, Zenon
  <2>6. node.size >= 0 => bin
    BY <2>3
  <2>7. forms[n] = "inline" => ~bin /\ node.has_data
    BY <2>2
  <2>8. out[n].data = data
    BY <2>4
  <2> HIDE DEF node, slice, text, bin
  <2>9. (node.size >= 0 => data = slice) /\ (forms[n] = "inline" => data = text)
    BY <2>6, <2>7
  <2>10. /\ node.size >= 0 => ~SliceThrows(blob, Ends(nodes)[n - 1], node.size)
         /\ forms[n] = "inline" => ~DecodeThrows(node.data, T)
    BY <2>5, <2>6, <2>7
  <2>11. out[n] = [name |-> tensors[n].name, datatype |-> T, data |-> out[n].data]
    BY <2>2, <2>4, <2>8
  <2> QED
    BY <2>8, <2>9, <2>10, <2>11, Zenon DEF Output, node, slice, text
<1>6. Len(out) = L /\ out = [n \in 1 .. L |-> out[n]]
  BY <1>2, <1>4
<1> QED
  BY <1>5, <1>6, Zenon DEF arrived

\* The outputs with a size tile the blob.
Tiles(out, given) ==
  /\ \A n \in 1 .. Len(out) : given.nodes[n].size >= 0 => Len(out[n].data) = given.nodes[n].size
  /\ IsPrefix(FlattenSeq([n \in 1 .. Len(out) |->
                IF given.nodes[n].size >= 0 THEN out[n].data ELSE <<>>]), given.blob)

\* A beginning of a beginning is a beginning, and a prefix.
LEMMA BeginsPrefix ==
  ASSUME NEW S, NEW s \in Seq(S), NEW t \in Seq(S), NEW u \in Seq(S), Begins(s, t), Begins(t, u)
  PROVE  IsPrefix(s, u)
<1>1. Len(s) \in Nat /\ Len(t) \in Nat /\ Len(u) \in Nat
  OBVIOUS
<1>2. Begins(s, u)
  BY <1>1 DEF Begins
<1> DEFINE k == Len(s)
<1>3. k \in Nat /\ k <= Len(s) /\ k <= Len(u)
  BY <1>1, <1>2 DEF Begins
<1>4. 0 \in Nat /\ 0 + k <= Len(s) /\ 0 + 1 = 1 /\ 0 + k = k
  BY <1>1
<1>5. sliceBlob(s, 0, k) = sliceBlob(u, 0, k)
  BY <1>2, <1>3, <1>4, SliceOfBeginning
<1>6. SubSeq(s, 1, k) = SubSeq(u, 1, k)
  BY <1>4, <1>5 DEF sliceBlob
<1> QED
  BY <1>3, <1>6 DEF IsPrefix

\* Whatever sizes the response states, the outputs made of it tile its blob.
LEMMA ReturnTiles ==
  ASSUME NEW given, NEW tensors, NEW forms, Gives(given, tensors, forms),
         NEW m \in 0 .. BodyLen(given), NEW out, Makes(out, CutTo(given, m))
  PROVE  Tiles(out, given)
<1> DEFINE arrived == CutTo(given, m)
           L == Len(tensors)
           nodes == given.nodes
           blob == arrived.blob
           pieces == [n \in 1 .. L |-> IF nodes[n].size >= 0 THEN out[n].data ELSE <<>>]
<1>1. /\ L \in Nat /\ Len(nodes) = L /\ given.blob \in Seq(Byte)
      /\ \A n \in 1 .. L : nodes[n] = NodeOf(tensors[n], forms[n])
  <2>1. given.blob \in Seq(Byte)
    BY ResponseFields
  <2>2. L \in Nat /\ Len(nodes) = L /\ \A n \in 1 .. L : nodes[n] = NodeOf(tensors[n], forms[n])
    BY ResponseNodes
  <2> QED
    BY <2>1, <2>2
<1>2. ~splitThrows(arrived)
  BY DEF Makes, InferThrows
<1>3. blob \in Seq(Byte) /\ Begins(blob, given.blob)
  BY <1>2, ArrivedFields
<1>4. Len(out) = L
  BY OutputFields
<1>5. \A n \in 1 .. L :
        nodes[n].size >= 0 =>
           /\ ~SliceThrows(blob, Ends(nodes)[n - 1], nodes[n].size)
           /\ out[n].data = sliceBlob(blob, Ends(nodes)[n - 1], nodes[n].size)
  <2>1. \A n \in 1 .. L : Output(out[n], tensors[n], forms[n], given, arrived, n)
    BY OutputFields, Zenon
  <2> QED
    BY <2>1, Zenon DEF Output
<1>6. \A n \in 1 .. L : nodes[n].size \in Int
  <2> TAKE n \in 1 .. L
  <2>1. tensors[n] \in TensorType /\ forms[n] \in Forms /\ Expressible(tensors[n], forms[n])
    BY ResponseNodes
  <2> QED
    BY <1>1, <2>1, NodeFields
<1> HIDE DEF nodes, blob, L
<1>7. Len(pieces) = L /\ pieces = [n \in 1 .. Len(nodes) |-> pieces[n]]
      /\ \A n \in 1 .. L : pieces[n] = IF nodes[n].size >= 0 THEN out[n].data ELSE <<>>
  BY <1>1
<1> HIDE DEF pieces
<1>8. Cuts(nodes, blob, pieces)
  BY <1>1, <1>5, <1>6, <1>7 DEF Cuts
<1>9. /\ \A n \in 1 .. Len(nodes) : nodes[n].size >= 0 => Len(pieces[n]) = nodes[n].size
      /\ Begins(FlattenSeq(pieces), blob)
      /\ FlattenSeq(pieces) \in Seq(Byte)
  BY <1>3, <1>7, <1>8, SlicesFollow, Zenon
<1>10. IsPrefix(FlattenSeq(pieces), given.blob)
  BY <1>1, <1>3, <1>9, BeginsPrefix
<1>11. \A n \in 1 .. L : nodes[n].size >= 0 => Len(out[n].data) = nodes[n].size
  BY <1>1, <1>7, <1>9
<1> QED
  BY <1>4, <1>10, <1>11, Zenon DEF Tiles, pieces, nodes

\* The client decodes the text of a tensor into its bytes.
LEMMA TextDecoded ==
  ASSUME NEW T, NEW range \in Seq(Values), ValuesFit(T, range), NEW data,
         data = [n \in 1 .. Len(range) |-> Text(T, range[n])], ~DecodeThrows(data, T)
  PROVE  decodeTensorData(data, T) = writeArray(range, T)
<1> DEFINE Number(n) == IF T = "FP16" THEN floatToHalf(data[n][2]) ELSE data[n][2]
<1>1. Len(data) = Len(range) /\ \A n \in 1 .. Len(range) : data[n] = Text(T, range[n])
  OBVIOUS
<1>2. \A n \in 1 .. Len(range) : data[n] # Null
  BY <1>1 DEF DecodeThrows
<1>3. \A n \in 1 .. Len(range) : range[n] \in Values /\ (T = "FP16" => range[n] \in Half)
  <2>1. \A n \in 1 .. Len(range) : range[n] \in Values /\ range[n] \in Range(range)
    BY LenProperties DEF Range
  <2> QED
    BY <2>1 DEF ValuesFit
<1>4. decodeTensorData(data, T) = writeArray([n \in 1 .. Len(range) |-> Number(n)], T)
  BY <1>1, Zenon DEF decodeTensorData
<1>5. \A n \in 1 .. Len(range) : Number(n) = range[n]
  <2> TAKE n \in 1 .. Len(range)
  <2>1. data[n] = Text(T, range[n]) /\ Text(T, range[n]) # Null /\ range[n] \in Values
        /\ (T = "FP16" => range[n] \in Half)
    BY <1>1, <1>2, <1>3
  <2>2. /\ T = "FP16" => floatToHalf(Text(T, range[n])[2]) = range[n]
        /\ T # "FP16" => Text(T, range[n])[2] = range[n]
    BY <2>1, TextSurvives
  <2> QED
    BY <2>1, <2>2, Zenon
<1> HIDE DEF Number
<1>6. [n \in 1 .. Len(range) |-> Number(n)] = range
  <2>1. range = [n \in 1 .. Len(range) |-> range[n]]
    OBVIOUS
  <2> QED
    BY <1>5, <2>1, Zenon
<1> QED
  BY <1>4, <1>6

\* Of a response with right sizes, however it was cut, infer makes the tensors
\* the server produced or nothing.
LEMMA ResponseMeans ==
  ASSUME NEW given, NEW tensors, NEW forms, Gives(given, tensors, forms),
         \A n \in 1 .. Len(tensors) : forms[n] \in {"inline", "binary"},
         NEW m \in 0 .. BodyLen(given), NEW out, Makes(out, CutTo(given, m))
  PROVE  out = Meant(tensors)
<1> DEFINE arrived == CutTo(given, m)
           L == Len(tensors)
           nodes == given.nodes
           Bytes(n) == writeArray(tensors[n].values, tensors[n].datatype)
           pieces == [n \in 1 .. L |-> Piece(tensors, forms, n)]
<1>1. /\ pieces \in Seq(Seq(Byte)) /\ Len(pieces) = L
      /\ given.blob = FlattenSeq(pieces) /\ given.blob \in Seq(Byte)
  BY ResponseFields, Zenon
<1>2. L \in Nat /\ Len(nodes) = L /\ \A n \in 1 .. L : nodes[n] = NodeOf(tensors[n], forms[n])
  BY ResponseNodes
<1>3. arrived.blob \in Seq(Byte) /\ Begins(arrived.blob, given.blob)
  <2>1. ~splitThrows(arrived)
    BY DEF Makes, InferThrows
  <2> QED
    BY <2>1, ArrivedFields
<1>4. /\ Len(out) = L /\ out = [n \in 1 .. L |-> out[n]]
      /\ \A n \in 1 .. L : Output(out[n], tensors[n], forms[n], given, arrived, n)
  BY OutputFields, Zenon
<1>5. \A n \in 1 .. L : pieces[n] = IF forms[n] = "inline" THEN <<>> ELSE Bytes(n)
  BY DEF Piece, Sized
<1> HIDE DEF arrived, pieces
<1>6. ASSUME NEW n \in 1 .. L
      PROVE  LET T == tensors[n].datatype IN
             /\ T \in DOMAIN Width /\ tensors[n].values \in Seq(Values)
             /\ ValuesFit(T, tensors[n].values)
             /\ Bytes(n) \in Seq(Byte)
             /\ forms[n] = "inline" =>
                  /\ nodes[n].size = -1
                  /\ nodes[n].data = [k \in 1 .. Len(tensors[n].values) |->
                                        Text(T, tensors[n].values[k])]
             /\ forms[n] = "binary" => nodes[n].size = Len(Bytes(n))
  <2> DEFINE t == tensors[n]
             T == t.datatype
             form == forms[n]
             node == NodeOf(t, form)
  <2>1. t \in TensorType /\ form \in Forms /\ Expressible(t, form) /\ ValuesFit(T, t.values)
    BY ResponseNodes
  <2>2. nodes[n] = node
    BY <1>2
  <2> HIDE DEF t, form
  <2>3. T \in DOMAIN Width /\ T \in STRING /\ t.values \in Seq(Values)
    BY <2>1, NodeFields DEF TensorType
  <2>4. form = "inline" => node.size = -1
    BY <2>1, NodeFields
  <2>5. form = "inline" => node.data = [k \in 1 .. Len(t.values) |-> Text(T, t.values[k])]
    BY <2>1, NodeFields
  <2>6. form = "binary" => node.size = Len(t.values) * Width[T]
    BY <2>1, NodeFields
  <2>7. writeArray(t.values, T) \in Seq(Byte) /\ Len(writeArray(t.values, T)) = Len(t.values) * Width[T]
    BY <2>3, WriteBytes
  <2> HIDE DEF node, nodes
  <2> QED
    BY <2>1, <2>2, <2>3, <2>4, <2>5, <2>6, <2>7, Zenon DEF t, form
<1>7. Sizes(nodes, pieces)
  <2>1. ASSUME NEW n \in 1 .. L
        PROVE  SizeOf(nodes[n]) = Len(pieces[n])
    <3>1. CASE forms[n] = "inline"
      <4>1. nodes[n].size = -1 /\ pieces[n] = <<>>
        BY <1>5, <1>6, <3>1, Zenon
      <4> QED
        BY <4>1 DEF SizeOf
    <3>2. CASE forms[n] = "binary"
      <4>1. nodes[n].size = Len(Bytes(n)) /\ Bytes(n) \in Seq(Byte)
        BY <1>6, <3>2, Zenon
      <4>2. pieces[n] = Bytes(n)
        BY <1>5, <3>2
      <4> HIDE DEF Bytes
      <4> QED
        BY <4>1, <4>2 DEF SizeOf
    <3> QED
      BY <3>1, <3>2
  <2> QED
    BY <1>1, <1>2, <2>1 DEF Sizes
<1>8. PICK flat : Flattens(flat, Byte, pieces)
  BY <1>1, FlattenSteps
<1>9. \A n \in 0 .. L : Ends(nodes)[n] = Len(flat[n])
  <2>1. \A n \in 0 .. Len(pieces) : Ends(nodes)[n] = Len(flat[n])
    BY <1>1, <1>7, <1>8, OffsetsMatch
  <2> QED
    BY <1>1, <2>1
<1>10. ASSUME NEW n \in 1 .. L
       PROVE  out[n].data = Bytes(n)
  <2>1. CASE forms[n] = "inline"
    <3> DEFINE T == tensors[n].datatype
               range == tensors[n].values
               data == nodes[n].data
    <3>1. /\ range \in Seq(Values) /\ ValuesFit(T, range)
          /\ data = [k \in 1 .. Len(range) |-> Text(T, range[k])]
      BY <1>6, <2>1, Zenon
    <3>2. ~DecodeThrows(data, T) /\ out[n].data = decodeTensorData(data, T)
      BY <1>4, <2>1, Zenon DEF Output
    <3> HIDE DEF T, range, data
    <3>3. decodeTensorData(data, T) = writeArray(range, T)
      BY <3>1, <3>2, TextDecoded
    <3> QED
      BY <3>2, <3>3 DEF T, range
  <2>2. CASE forms[n] = "binary"
    <3> DEFINE offset == Ends(nodes)[n - 1]
               size == nodes[n].size
    <3>1. size = Len(pieces[n]) /\ pieces[n] = Bytes(n) /\ pieces[n] \in Seq(Byte)
      <4>1. size = Len(Bytes(n)) /\ Bytes(n) \in Seq(Byte)
        BY <1>6, <2>2, Zenon
      <4>2. pieces[n] = Bytes(n)
        BY <1>5, <2>2
      <4> QED
        BY <4>1, <4>2, Zenon
    <3>2. size \in Nat /\ size >= 0
      <4> HIDE DEF size
      <4> QED
        BY <3>1
    <3>3. ~SliceThrows(arrived.blob, offset, size) /\ out[n].data = sliceBlob(arrived.blob, offset, size)
      BY <1>4, <3>2, Zenon DEF Output
    <3>4. n - 1 \in 0 .. L /\ n \in 1 .. Len(pieces)
      BY <1>1, <1>2
    <3>5. offset = Len(flat[n - 1])
      BY <1>9, <3>4
    <3> HIDE DEF offset, size
    <3>6. offset \in Nat /\ sliceBlob(given.blob, offset, size) = pieces[n]
      BY <1>1, <1>8, <3>1, <3>4, <3>5, PiecesInPlace
    <3>7. offset + size <= Len(arrived.blob)
      <4>1. Len(arrived.blob) \in Nat
        BY <1>3
      <4> QED
        BY <3>2, <3>3, <3>6, <4>1 DEF SliceThrows
    <3>8. sliceBlob(arrived.blob, offset, size) = sliceBlob(given.blob, offset, size)
      BY <1>1, <1>3, <3>2, <3>6, <3>7, SliceOfBeginning
    <3> QED
      BY <3>1, <3>3, <3>6, <3>8
  <2> QED
    BY <2>1, <2>2
<1> HIDE DEF Bytes
<1>11. \A n \in 1 .. L : out[n] = [name |-> tensors[n].name, datatype |-> tensors[n].datatype,
                                   data |-> Bytes(n)]
  <2> TAKE n \in 1 .. L
  <2>1. out[n] = [name |-> tensors[n].name, datatype |-> tensors[n].datatype, data |-> out[n].data]
    BY <1>4, Zenon DEF Output
  <2> QED
    BY <1>10, <2>1, Zenon
<1>12. out = [n \in 1 .. L |-> [name |-> tensors[n].name, datatype |-> tensors[n].datatype,
                                data |-> Bytes(n)]]
  BY <1>4, <1>11, Zenon
<1> QED
  BY <1>12 DEF Meant, Bytes

----------------------------------------------------------------------------
(* The invariant.                                                           *)

\* The request on its way is the one built for this call.
Requesting ==
  pc # "idle" =>
    /\ result = "none"
    /\ \E binary \in BOOLEAN : /\ request = RequestOf(asked, binary, output_names_)
                               /\ \A n \in 1 .. Len(asked) : ~InputThrows(asked[n], binary)

\* An honest answer states the right sizes.
Right(forms, tensors) == \A n \in 1 .. Len(tensors) : forms[n] \in {"inline", "binary"}

\* The answer gives the tensors that were produced, or none.
Formed ==
  pc = "answered" =>
    \/ response.has_outputs = FALSE
    \/ \E forms : Gives(response, produced, forms) /\ (honest = TRUE => Right(forms, produced))

\* What every step keeps.
IInv ==
  /\ TypeOK /\ Requesting /\ Formed
  /\ InputsArrive /\ InferReturnsTensors /\ SlicesTile

\* Every call is made with elements of the datatypes it states.
LEMMA AskedElements ==
  ASSUME TypeOK
  PROVE  Elements(asked)
<1>1. CASE asked \in InputLists
  BY <1>1, InputsAssumption DEF Elements
<1>2. CASE asked = <<>>
  BY <1>2 DEF Elements
<1> QED
  BY <1>1, <1>2 DEF TypeOK

\* The server produces tensors of its model.
LEMMA WantedTensors ==
  ASSUME TypeOK
  PROVE  Tensors(Wanted)
<1> DEFINE S == {t \in TensorType : DatatypeOf(t.tag) = t.datatype /\ ValuesFit(t.datatype, t.values)}
           pieces == [n \in 1 .. Len(model) |->
                        IF model[n].name \in Range(request.outputs) THEN <<model[n]>> ELSE <<>>]
<1>1. model \in Seq(S)
  <2>1. /\ model \in Seq(TensorType)
        /\ \A n \in 1 .. Len(model) : /\ DatatypeOf(model[n].tag) = model[n].datatype
                                      /\ ValuesFit(model[n].datatype, model[n].values)
    BY ModelsAssumption DEF TypeOK
  <2>2. \A n \in 1 .. Len(model) : model[n] \in S
    BY <2>1
  <2>3. Len(model) \in Nat /\ model \in [1 .. Len(model) -> S]
    <3> HIDE DEF S
    <3> QED
      BY <2>1, <2>2
  <2> HIDE DEF S
  <2> QED
    BY <2>3, SeqDef
<1>2. ASSUME NEW tensors \in Seq(S)
      PROVE  Tensors(tensors)
  <2>1. Len(tensors) \in Nat /\ \A n \in 1 .. Len(tensors) : tensors[n] \in S
    <3> HIDE DEF S
    <3> QED
      OBVIOUS
  <2>2. tensors \in [1 .. Len(tensors) -> TensorType]
    <3>1. tensors = [n \in 1 .. Len(tensors) |-> tensors[n]]
      <4> HIDE DEF S
      <4> QED
        OBVIOUS
    <3> QED
      BY <2>1, <3>1
  <2>3. tensors \in Seq(TensorType)
    BY <2>1, <2>2, SeqDef
  <2> QED
    BY <2>1, <2>3 DEF Tensors
<1> HIDE DEF S
<1>3. pieces \in Seq(Seq(S))
  <2>1. \A n \in 1 .. Len(model) : model[n] \in S
    BY <1>1
  <2>2. \A n \in 1 .. Len(model) : <<model[n]>> \in Seq(S) /\ <<>> \in Seq(S)
    BY <2>1
  <2> QED
    BY <1>1, <2>2
<1> HIDE DEF pieces
<1>4. PICK flat : Flattens(flat, S, pieces)
  BY <1>3, FlattenSteps
<1>5. FlattenSeq(pieces) \in Seq(S)
  BY <1>3, <1>4 DEF Flattens
<1>6. Wanted \in Seq(S)
  BY <1>1, <1>5 DEF Wanted, pieces
<1> QED
  BY <1>2, <1>6

\* The names in the metadata are as many as the outputs that were read.
LEMMA NamesBound ==
  ASSUME TypeOK, NEW k \in 0 .. Len(model)
  PROVE  Len(SubSeq(NamesOf(model), 1, k)) <= MaxOutputs
<1> DEFINE names == NamesOf(model)
<1>1. Len(model) \in Nat /\ Len(model) <= MaxOutputs
  BY ModelsAssumption DEF TypeOK
<1>2. k \in Nat /\ k <= MaxOutputs /\ MaxOutputs \in Nat
  BY <1>1, InferAssumption
<1>3. \A i \in 1 .. k : names[i] \in {names[j] : j \in 1 .. k}
  OBVIOUS
<1> HIDE DEF names
<1>4. Len(SubSeq(names, 1, k)) = IF 1 <= k THEN k - 1 + 1 ELSE 0
  BY <1>2, <1>3, SubSeqProperties
<1> QED
  BY <1>2, <1>4 DEF names

\* What is left when a call begins.
LEMMA Entering ==
  ASSUME TypeOK, Enter
  PROVE  /\ calls' \in 0 .. MaxCalls /\ model' \in Models /\ honest' \in BOOLEAN
         /\ response'.json \in {0, JsonLen} /\ response'.header_length \in {NoSize, JsonLen}
         /\ outputs' = <<>> /\ pc = "idle"
         /\ InputsArrive' /\ SlicesTile'
         /\ produced' = <<>>
<1>1. calls' \in 0 .. MaxCalls
  BY InferAssumption DEF TypeOK, Enter
<1>2. response' = NoResponse /\ outputs' = <<>> /\ read' = {} /\ produced' = <<>> /\ honest' = TRUE
      /\ model' = model /\ pc = "idle"
  BY DEF Enter
<1>3. NoResponse.json = 0 /\ NoResponse.header_length = NoSize
  BY DEF NoResponse
<1>4. SlicesTile'
  BY <1>2, Zenon DEF SlicesTile
<1>5. InputsArrive'
  BY <1>2 DEF InputsArrive
<1> QED
  BY <1>1, <1>2, <1>3, <1>4, <1>5 DEF TypeOK

\* No tensors are meant by none.
LEMMA MeantNone == Meant(<<>>) = <<>>
BY DEF Meant

----------------------------------------------------------------------------

\* The client starts in the invariant.
LEMMA InitInv == Init => IInv
<1> SUFFICES ASSUME Init PROVE IInv
  OBVIOUS
<1>1. TypeOK
  <2>1. NoResponse.json = 0 /\ NoResponse.header_length = NoSize
    BY DEF NoResponse
  <2>2. Len(<<>>) = 0
    OBVIOUS
  <2>3. calls \in 0 .. MaxCalls /\ Len(output_names_) <= MaxOutputs
    BY <2>2, InferAssumption DEF Init
  <2> QED
    BY <2>1, <2>3 DEF Init, TypeOK
<1>2. Requesting /\ Formed
  BY DEF Init, Requesting, Formed
<1>3. InputsArrive
  BY DEF Init, InputsArrive
<1>4. InferReturnsTensors
  BY DEF Init, InferReturnsTensors
<1>5. SlicesTile
  BY Zenon DEF Init, SlicesTile
<1> QED
  BY <1>1, <1>2, <1>3, <1>4, <1>5 DEF IInv

\* modelMetadata replaces the names and ends without tensors.
LEMMA MetadataInv ==
  ASSUME IInv, NEW k, modelMetadata(k)
  PROVE  IInv'
<1> USE DEF IInv
<1>1. Enter
  BY DEF modelMetadata
<1>2. /\ k \in 0 .. Len(model) /\ output_names_' = SubSeq(NamesOf(model), 1, k)
      /\ result' = (IF k = Len(model) THEN "value" ELSE "throw")
      /\ pc' = pc /\ asked' = asked
  BY DEF modelMetadata
<1>3. Len(output_names_') <= MaxOutputs
  BY <1>2, NamesBound
<1>4. TypeOK'
  BY <1>1, <1>2, <1>3, Entering DEF TypeOK
<1>5. pc' = "idle"
  BY <1>1, <1>2, Entering
<1>6. Requesting' /\ Formed'
  BY <1>5 DEF Requesting, Formed
<1>7. InferReturnsTensors'
  BY <1>1, Entering, MeantNone DEF InferReturnsTensors
<1> QED
  BY <1>1, <1>4, <1>6, <1>7, Entering

\* A modelMetadata that throws early leaves the names alone.
LEMMA MetadataThrowsInv ==
  ASSUME IInv, MetadataThrows
  PROVE  IInv'
<1> USE DEF IInv
<1>1. Enter /\ result' = "throw" /\ pc' = pc /\ output_names_' = output_names_ /\ asked' = asked
  BY DEF MetadataThrows, client
<1>2. TypeOK'
  BY <1>1, Entering DEF TypeOK
<1>3. pc' = "idle"
  BY <1>1, Entering
<1>4. Requesting' /\ Formed' /\ InferReturnsTensors'
  BY <1>1, <1>3 DEF Requesting, Formed, InferReturnsTensors
<1> QED
  BY <1>1, <1>2, <1>4, Entering

\* infer sends the request it built, or throws before it sends one.
LEMMA InferInv ==
  ASSUME IInv, NEW inputs \in InputLists, NEW binary \in BOOLEAN, infer(inputs, binary)
  PROVE  IInv'
<1> USE DEF IInv
<1>1. Enter /\ asked' = inputs /\ output_names_' = output_names_
  BY DEF infer
<1>2. pc = "idle"
  BY <1>1, Entering
<1>3. CASE \E n \in 1 .. Len(inputs) : InputThrows(inputs[n], binary)
  <2>1. pc' = "idle" /\ result' = "throw"
    BY <1>2, <1>3 DEF infer
  <2>2. TypeOK'
    BY <1>1, <2>1, Entering DEF TypeOK
  <2>3. Requesting' /\ Formed' /\ InferReturnsTensors'
    BY <2>1 DEF Requesting, Formed, InferReturnsTensors
  <2> QED
    BY <1>1, <2>2, <2>3, Entering
<1>4. CASE ~\E n \in 1 .. Len(inputs) : InputThrows(inputs[n], binary)
  <2>1. pc' = "sent" /\ result' = "none" /\ request' = RequestOf(inputs, binary, output_names_)
    BY <1>4 DEF infer
  <2>2. TypeOK'
    BY <1>1, <2>1, Entering DEF TypeOK
  <2>3. Requesting'
    BY <1>1, <1>4, <2>1 DEF Requesting
  <2>4. Formed' /\ InferReturnsTensors'
    BY <2>1 DEF Formed, InferReturnsTensors
  <2> QED
    BY <1>1, <2>2, <2>3, <2>4, Entering
<1> QED
  BY <1>3, <1>4

\* A call without an answer returns nothing.
LEMMA FailsInv ==
  ASSUME IInv, Fails
  PROVE  IInv'
<1> USE DEF IInv
<1>1. /\ pc # "idle" /\ pc' = "idle" /\ result' = "throw" /\ UNCHANGED <<calls, model, outputs>>
      /\ UNCHANGED <<output_names_, asked, request>> /\ UNCHANGED <<read, produced, honest, response>>
  BY DEF Fails, client, answer
<1>2. TypeOK'
  BY <1>1 DEF TypeOK
<1>3. Requesting' /\ Formed' /\ InferReturnsTensors'
  BY <1>1 DEF Requesting, Formed, InferReturnsTensors
<1>4. InputsArrive'
  BY <1>1 DEF InputsArrive
<1>5. SlicesTile'
  <2>1. outputs' = <<>>
    BY <1>1 DEF TypeOK
  <2> QED
    BY <2>1, Zenon DEF SlicesTile
<1> QED
  BY <1>2, <1>3, <1>4, <1>5

\* infer returns what it makes of the answer, cut anywhere, or throws.
LEMMA ReturnInv ==
  ASSUME IInv, NEW m \in 0 .. BodyLen(response), Return(m)
  PROVE  IInv'
<1> USE DEF IInv
<1> DEFINE arrived == CutTo(response, m)
<1>1. /\ pc = "answered" /\ pc' = "idle"
      /\ UNCHANGED <<calls, model>> /\ UNCHANGED <<output_names_, asked, request>>
      /\ UNCHANGED <<read, produced, honest, response>>
      /\ IF InferThrows(arrived) THEN result' = "throw" /\ outputs' = outputs
         ELSE /\ result' = "value"
              /\ outputs' = [n \in 1 .. Len(arrived.nodes) |-> OutputOf(arrived, n)]
  BY DEF Return, client, answer
<1>2. outputs = <<>>
  BY <1>1 DEF TypeOK
<1>3. Requesting' /\ Formed'
  BY <1>1 DEF Requesting, Formed
<1>4. InputsArrive'
  BY <1>1 DEF InputsArrive
<1>5. TypeOK'
  <2>1. result' \in {"none", "value", "throw"}
    BY <1>1
  <2> QED
    BY <1>1, <2>1 DEF TypeOK
<1>6. CASE InferThrows(arrived)
  <2>1. result' = "throw" /\ outputs' = <<>>
    BY <1>1, <1>2, <1>6
  <2>2. SlicesTile'
    BY <2>1, Zenon DEF SlicesTile
  <2>3. InferReturnsTensors'
    BY <2>1 DEF InferReturnsTensors
  <2> QED
    BY <1>3, <1>4, <1>5, <2>2, <2>3
<1>7. CASE ~InferThrows(arrived)
  <2>1. Makes(outputs', arrived)
    BY <1>1, <1>7 DEF Makes
  <2>2. response.has_outputs # FALSE
    <3>1. arrived.has_outputs = response.has_outputs
      BY DEF CutTo
    <3> QED
      BY <1>7, <3>1 DEF InferThrows
  <2>3. PICK forms : Gives(response, produced, forms) /\ (honest = TRUE => Right(forms, produced))
    BY <1>1, <2>2 DEF Formed
  <2>4. Tiles(outputs', response)
    BY <2>1, <2>3, ReturnTiles
  <2>5. SlicesTile'
    BY <1>1, <2>4, Zenon DEF SlicesTile, Tiles
  <2>6. honest = TRUE => outputs' = Meant(produced)
    BY <2>1, <2>3, ResponseMeans DEF Right
  <2>7. InferReturnsTensors'
    BY <1>1, <2>6, Zenon DEF InferReturnsTensors, TypeOK
  <2> QED
    BY <1>3, <1>4, <1>5, <2>5, <2>7
<1> QED
  BY <1>6, <1>7

\* The server reads the inputs and gives tensors of its model.
LEMMA ServeInv ==
  ASSUME IInv, NEW len \in 0 .. MaxOutputs, NEW forms \in [1 .. len -> Forms], Serve(forms)
  PROVE  IInv'
<1> USE DEF IInv
<1>1. /\ pc # "idle" /\ pc' = "answered" /\ ~ServerRejects(request)
      /\ Len(forms) = Len(Wanted)
      /\ \A n \in 1 .. Len(forms) : Expressible(Wanted[n], forms[n])
      /\ read' = {ServerReads(request)} /\ produced' = Wanted
      /\ honest' = (\A n \in 1 .. Len(forms) : forms[n] \in {"inline", "binary"})
      /\ response' = ResponseOf(Wanted, forms)
      /\ UNCHANGED <<calls, model>> /\ UNCHANGED <<output_names_, asked, request>>
      /\ UNCHANGED <<result, outputs>>
  BY DEF Serve, client, ending
<1>2. Len(forms) = len /\ len = Len(Wanted)
  <2>1. Len(forms) = len
    BY InferAssumption
  <2> QED
    BY <1>1, <2>1
<1>3. Gives(response', produced', forms)
  BY <1>1, <1>2, WantedTensors DEF Gives
<1>4. Formed'
  <2>1. honest' = TRUE => Right(forms, produced')
    BY <1>1, <1>2 DEF Right
  <2> QED
    BY <1>3, <2>1 DEF Formed
<1>5. outputs' = <<>> /\ result' = "none"
  BY <1>1 DEF TypeOK, Requesting
<1>6. TypeOK'
  <2>1. response'.json = JsonLen
    BY <1>1 DEF ResponseOf
  <2>2. response'.header_length \in {NoSize, JsonLen}
    BY <1>1 DEF ResponseOf
  <2>3. honest' \in BOOLEAN
    BY <1>1
  <2> QED
    BY <1>1, <1>5, <2>1, <2>2, <2>3 DEF TypeOK
<1>7. Requesting'
  BY <1>1 DEF Requesting
<1>8. InputsArrive'
  <2>1. PICK binary \in BOOLEAN : /\ request = RequestOf(asked, binary, output_names_)
                                  /\ \A n \in 1 .. Len(asked) : ~InputThrows(asked[n], binary)
    BY <1>1 DEF Requesting
  <2>2. ServerReads(request) = [n \in 1 .. Len(asked) |-> asked[n].data]
    BY <1>1, <2>1, AskedElements, RequestArrives
  <2> QED
    BY <1>1, <2>2 DEF InputsArrive
<1>9. InferReturnsTensors'
  BY <1>5 DEF InferReturnsTensors
<1>10. SlicesTile'
  BY <1>5, Zenon DEF SlicesTile
<1> QED
  BY <1>4, <1>6, <1>7, <1>8, <1>9, <1>10

\* An answer without outputs gives none.
LEMMA ServeOtherInv ==
  ASSUME IInv, ServeOther
  PROVE  IInv'
<1> USE DEF IInv
<1>1. /\ pc # "idle" /\ pc' = "answered"
      /\ response' = [NoResponse EXCEPT !.json = JsonLen]
      /\ read' = {} /\ produced' = <<>> /\ honest' = TRUE
      /\ UNCHANGED <<calls, model>> /\ UNCHANGED <<output_names_, asked, request>>
      /\ UNCHANGED <<result, outputs>>
  BY DEF ServeOther, client, ending
<1>2. response'.json = JsonLen /\ response'.header_length = NoSize /\ response'.has_outputs = FALSE
  BY <1>1 DEF NoResponse
<1>3. outputs' = <<>> /\ result' = "none"
  BY <1>1 DEF TypeOK, Requesting
<1>4. TypeOK'
  BY <1>1, <1>2, <1>3 DEF TypeOK
<1>5. Requesting' /\ Formed'
  BY <1>1, <1>2 DEF Requesting, Formed
<1>6. InputsArrive' /\ InferReturnsTensors'
  BY <1>1, <1>3 DEF InputsArrive, InferReturnsTensors
<1>7. SlicesTile'
  BY <1>3, Zenon DEF SlicesTile
<1> QED
  BY <1>4, <1>5, <1>6, <1>7

\* Another model does not disturb the call.
LEMMA ReloadInv ==
  ASSUME IInv, NEW m \in Models, Reload(m)
  PROVE  IInv'
<1> USE DEF IInv
<1>1. /\ model' = m /\ UNCHANGED <<pc, calls>> /\ UNCHANGED <<output_names_, asked, request>>
      /\ UNCHANGED <<read, produced, honest, response>> /\ UNCHANGED <<result, outputs>>
  BY DEF Reload, client, answer, ending
<1>2. TypeOK' /\ Requesting' /\ Formed'
  BY <1>1 DEF TypeOK, Requesting, Formed
<1>3. InputsArrive' /\ InferReturnsTensors'
  BY <1>1 DEF InputsArrive, InferReturnsTensors
<1>4. SlicesTile'
  BY <1>1, Zenon DEF SlicesTile
<1> QED
  BY <1>2, <1>3, <1>4

\* Every step keeps the invariant, one case per action.
LEMMA StepInv == IInv /\ [Next]_vars => IInv'
<1> SUFFICES ASSUME IInv, [Next]_vars PROVE IInv'
  OBVIOUS
<1>1. CASE \E k \in 0 .. MaxOutputs : modelMetadata(k)
  BY <1>1, MetadataInv
<1>2. CASE MetadataThrows
  BY <1>2, MetadataThrowsInv
<1>3. CASE \E inputs \in InputLists, binary \in BOOLEAN : infer(inputs, binary)
  BY <1>3, InferInv
<1>4. CASE Fails
  BY <1>4, FailsInv
<1>5. CASE \E m \in 0 .. BodyLen(response) : Return(m)
  BY <1>5, ReturnInv
<1>6. CASE \E len \in 0 .. MaxOutputs : \E forms \in [1 .. len -> Forms] : Serve(forms)
  BY <1>6, ServeInv
<1>7. CASE ServeOther
  BY <1>7, ServeOtherInv
<1>8. CASE \E m \in Models : Reload(m)
  BY <1>8, ReloadInv
<1>9. CASE UNCHANGED vars
  <2>1. /\ UNCHANGED <<pc, calls, model>> /\ UNCHANGED <<output_names_, asked, request>>
        /\ UNCHANGED <<read, produced, honest, response>> /\ UNCHANGED <<result, outputs>>
    BY <1>9 DEF vars, client, answer, ending
  <2>2. TypeOK' /\ Requesting' /\ Formed'
    BY <2>1 DEF IInv, TypeOK, Requesting, Formed
  <2>3. InputsArrive' /\ InferReturnsTensors'
    BY <2>1 DEF IInv, InputsArrive, InferReturnsTensors
  <2>4. SlicesTile'
    BY <2>1, Zenon DEF IInv, SlicesTile
  <2> QED
    BY <2>2, <2>3, <2>4 DEF IInv
<1> QED
  BY <1>1, <1>2, <1>3, <1>4, <1>5, <1>6, <1>7, <1>8, <1>9, Zenon DEF Next

\* The invariant holds throughout.
LEMMA Invariant == Spec => []IInv
<1>1. Init => IInv
  BY InitInv
<1>2. IInv /\ [Next]_vars => IInv'
  BY StepInv
<1> QED
  BY <1>1, <1>2, PTL DEF Spec

\* The state keeps its types: the list of names of modelMetadata never outgrows
\* the model, and a call that is under way has returned nothing.
THEOREM TypeCorrect == Spec => []TypeOK
<1>1. IInv => TypeOK
  BY DEF IInv
<1> QED
  BY Invariant, <1>1, PTL

\* buildInferRequest, appendBinaryInput and encodeTensorData: whatever the mode,
\* the widths and the number of inputs, the server finds the bytes of each.
THEOREM InputsReachServer == Spec => []InputsArrive
<1>1. IInv => InputsArrive
  BY DEF IInv
<1> QED
  BY Invariant, <1>1, PTL

\* infer: of an answer with right sizes, cut at any piece, it returns the tensors
\* that were produced, each with its own bytes, or throws.
THEOREM TensorsReturned == Spec => []InferReturnsTensors
<1>1. IInv => InferReturnsTensors
  BY DEF IInv
<1> QED
  BY Invariant, <1>1, PTL

\* sliceBlob and the running offset: whatever sizes the server states, the binary
\* outputs are consecutive pieces of the blob of exactly those sizes.
THEOREM OutputsTile == Spec => []SlicesTile
<1>1. IInv => SlicesTile
  BY DEF IInv
<1> QED
  BY Invariant, <1>1, PTL
============================================================================
