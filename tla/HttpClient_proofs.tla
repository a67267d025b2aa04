-------------------------- MODULE HttpClient_proofs ------------------------
(***************************************************************************)
(* The safety of the kept-alive connection: for any number of calls, any   *)
(* retry policy and any set of replies without a look-alike of the last    *)
(* chunk, a round trip reads its own reply, all of it and nothing else, a  *)
(* call returns what the server answered to it or says why it failed, and  *)
(* the names it caches are of one reply.  The client implements RetryLoop. *)
(***************************************************************************)
EXTENDS HttpClient, KserveRetry_proofs, SequenceTheorems, TLAPS

----------------------------------------------------------------------------
(* The framing of a reply: on a prefix of it, messageComplete says yes      *)
(* exactly at its end, provided no piece of the body looks like the         *)
(* zero-length chunk.                                                       *)

\* No piece of a body ends in the bytes of the zero-length chunk.
NoMimic == \A shape \in Shapes : \A m \in 1 .. Len(shape.body) : shape.body[m] = "data"

\* s holds the first tokens of the reply.
PrefixOfReply(s, reply) ==
  /\ Len(s) <= WireLen(reply.shape)
  /\ \A m \in 1 .. Len(s) : s[m] = Wire(reply)[m]

\* The length of a reply is that of its stream.
LEMMA WireLength ==
  ASSUME NEW shape \in ShapeType
  PROVE  WireLen(shape) \in Nat /\ WireLen(shape) >= 2
<1>1. Len(shape.body) \in Nat
  BY DEF ShapeType
<1> QED
  BY <1>1 DEF WireLen

\* The m-th token of a reply.
LEMMA WireAt ==
  ASSUME NEW reply, NEW m \in 1 .. WireLen(reply.shape)
  PROVE  Wire(reply)[m].k = KindAt(reply.shape, m) /\ Wire(reply)[m].reply = reply
<1>1. Wire(reply)[m] = [k |-> KindAt(reply.shape, m), reply |-> reply]
  BY DEF Wire
<1> QED
  BY <1>1

\* The kinds of the tokens of a reply, by position.
LEMMA WireKinds ==
  ASSUME NEW shape \in ShapeType, NEW m \in 1 .. WireLen(shape),
         \A n \in 1 .. Len(shape.body) : shape.body[n] = "data"
  PROVE  /\ KindAt(shape, m) \in Kinds
         /\ m = 1 => KindAt(shape, m) = "start"
         /\ m = 2 => KindAt(shape, m) = "blank"
         /\ m > 2 => KindAt(shape, m) \notin {"start", "blank", "mimic"}
         /\ m > 2 /\ KindAt(shape, m) = "last" => m = WireLen(shape)
<1>1. Len(shape.body) \in Nat
  BY DEF ShapeType
<1>2. CASE m <= 2
  BY <1>2, WireLength DEF KindAt, Kinds
<1>3. CASE m > 2 /\ shape.framing # "chunked"
  <2>1. m - 2 \in 1 .. Len(shape.body)
    BY <1>1, <1>3 DEF WireLen
  <2>2. KindAt(shape, m) = shape.body[m - 2]
    BY <1>3 DEF KindAt
  <2>3. KindAt(shape, m) = "data"
    BY <2>1, <2>2
  <2> QED
    BY <2>3, <1>3 DEF Kinds
<1>4. CASE m > 2 /\ shape.framing = "chunked" /\ m = WireLen(shape)
  BY <1>4 DEF KindAt, Kinds
<1>5. CASE m > 2 /\ shape.framing = "chunked" /\ m # WireLen(shape)
  <2>1. m < 3 + 3 * Len(shape.body)
    BY <1>1, <1>5 DEF WireLen
  <2>2. CASE m % 3 = 0
    BY <1>5, <2>2 DEF KindAt, Kinds
  <2>3. CASE m % 3 = 1
    <3>1. (m - 1) \div 3 \in 1 .. Len(shape.body)
      BY <1>1, <1>5, <2>1, <2>3
    <3> QED
      BY <1>5, <2>3, <3>1 DEF KindAt, Kinds
  <2>4. CASE m % 3 = 2
    BY <1>5, <2>4 DEF KindAt, Kinds
  <2> QED
    BY <2>2, <2>3, <2>4
<1> QED
  BY <1>2, <1>3, <1>4, <1>5, WireLength

\* The headers of a prefix of a reply are its first token, and end at the second.
LEMMA PrefixHeaders ==
  ASSUME NEW reply, reply.shape \in Shapes, NoMimic,
         NEW S, NEW s \in Seq(S), PrefixOfReply(s, reply), HasHeaders(s)
  PROVE  header_end(s) = 2 /\ Headers(s) = {1} /\ Len(s) >= 2
<1> DEFINE shape == reply.shape
<1>1. shape \in ShapeType /\ \A n \in 1 .. Len(shape.body) : shape.body[n] = "data"
  BY ShapesAssumption DEF NoMimic
<1>2. Len(s) \in Nat /\ WireLen(shape) \in Nat
  BY <1>1, WireLength
<1>3. \A m \in 1 .. Len(s) : m \in 1 .. WireLen(shape) /\ s[m].k = KindAt(shape, m)
  <2> TAKE m \in 1 .. Len(s)
  <2>1. m \in 1 .. WireLen(shape) /\ s[m] = Wire(reply)[m]
    BY <1>2 DEF PrefixOfReply
  <2> QED
    BY <2>1, WireAt
<1>4. \A m \in 1 .. Len(s) :
        /\ m = 1 => s[m].k = "start"
        /\ m = 2 => s[m].k = "blank"
        /\ m > 2 => s[m].k # "start"
  <2> TAKE m \in 1 .. Len(s)
  <2>1. m \in 1 .. WireLen(shape) /\ s[m].k = KindAt(shape, m)
    BY <1>3
  <2>2. /\ m = 1 => KindAt(shape, m) = "start"
        /\ m = 2 => KindAt(shape, m) = "blank"
        /\ m > 2 => KindAt(shape, m) \notin {"start", "blank", "mimic"}
    BY <1>1, <2>1, WireKinds
  <2> QED
    BY <2>1, <2>2
<1>5. Len(s) >= 2 /\ 2 \in HeaderEnds(s) /\ \A n \in HeaderEnds(s) : 2 <= n
  BY <1>2, <1>4 DEF HasHeaders, HeaderEnds
<1>6. header_end(s) = 2
  <2>1. \A m \in HeaderEnds(s) : (\A n \in HeaderEnds(s) : m <= n) => m = 2
    BY <1>5 DEF HeaderEnds
  <2> QED
    BY <1>5, <2>1 DEF header_end
<1>7. Headers(s) = {1}
  BY <1>2, <1>4, <1>5, <1>6 DEF Headers
<1> QED
  BY <1>5, <1>6, <1>7

\* messageComplete never stops short of the end of a reply.
LEMMA CompleteAtEnd ==
  ASSUME NEW reply, reply.shape \in Shapes, NoMimic,
         NEW S, NEW s \in Seq(S), PrefixOfReply(s, reply), messageComplete(s)
  PROVE  Len(s) = WireLen(reply.shape)
<1> DEFINE shape == reply.shape
<1>1. shape \in ShapeType /\ \A n \in 1 .. Len(shape.body) : shape.body[n] = "data"
  BY ShapesAssumption DEF NoMimic
<1>2. Len(s) \in Nat /\ WireLen(shape) \in Nat /\ Len(s) <= WireLen(shape)
  BY <1>1, WireLength DEF PrefixOfReply
<1>3. header_end(s) = 2 /\ Headers(s) = {1} /\ Len(s) >= 2
  BY PrefixHeaders DEF messageComplete
<1>4. s[1].reply = reply
  <2>1. 1 \in 1 .. WireLen(shape) /\ s[1] = Wire(reply)[1]
    BY <1>2, <1>3 DEF PrefixOfReply
  <2> QED
    BY <2>1, WireAt
<1>5. \/ shape.framing = "chunked" /\ \E n \in 3 .. Len(s) : s[n].k \in {"last", "mimic"}
      \/ shape.framing = "length" /\ Len(s) - 2 >= Len(shape.body)
  BY <1>3, <1>4 DEF messageComplete
<1>6. CASE shape.framing = "chunked" /\ \E n \in 3 .. Len(s) : s[n].k \in {"last", "mimic"}
  <2>1. PICK n \in 3 .. Len(s) : s[n].k \in {"last", "mimic"}
    BY <1>6
  <2>2. n \in 1 .. WireLen(shape) /\ n > 2 /\ s[n].k = KindAt(shape, n)
    <3>1. n \in 1 .. WireLen(shape) /\ n > 2 /\ s[n] = Wire(reply)[n]
      BY <1>2 DEF PrefixOfReply
    <3> QED
      BY <3>1, WireAt
  <2>3. n = WireLen(shape)
    BY <1>1, <2>1, <2>2, WireKinds
  <2> QED
    BY <1>2, <2>3
<1>7. CASE shape.framing = "length" /\ Len(s) - 2 >= Len(shape.body)
  <2>1. Len(shape.body) \in Nat
    BY <1>1 DEF ShapeType
  <2> QED
    BY <1>2, <1>7, <2>1 DEF WireLen
<1> QED
  BY <1>5, <1>6, <1>7

\* A prefix of a reply that parses yields the status of that reply.
LEMMA PrefixStatus ==
  ASSUME NEW reply, reply.shape \in Shapes, NoMimic,
         NEW S, NEW s \in Seq(S), PrefixOfReply(s, reply), s # <<>>
  PROVE  Status(s) = reply.shape.status
<1>1. reply.shape \in ShapeType
  BY ShapesAssumption
<1>2. Len(s) \in Nat \ {0} /\ WireLen(reply.shape) \in Nat
  BY <1>1, WireLength, EmptySeq
<1>3. s[1].k = "start" /\ s[1].reply = reply
  <2>1. 1 \in 1 .. WireLen(reply.shape) /\ s[1] = Wire(reply)[1]
    BY <1>2 DEF PrefixOfReply
  <2>2. KindAt(reply.shape, 1) = "start"
    BY DEF KindAt
  <2> QED
    BY <2>1, <2>2, WireAt
<1>4. StatusAt(s) = {1}
  BY <1>2, <1>3 DEF StatusAt
<1> QED
  BY <1>3, <1>4 DEF Status

\* A whole reply parses.
LEMMA WholeParses ==
  ASSUME NEW reply, reply.shape \in Shapes, NoMimic,
         NEW S, NEW s \in Seq(S), PrefixOfReply(s, reply),
         Len(s) = WireLen(reply.shape)
  PROVE  HasHeaders(s) /\ ~ParseThrows(s)
<1> DEFINE shape == reply.shape
           len == WireLen(shape)
<1>1. shape \in ShapeType /\ \A n \in 1 .. Len(shape.body) : shape.body[n] = "data"
  BY ShapesAssumption DEF NoMimic
<1>2. len \in Nat /\ len >= 2 /\ len = Len(s)
  BY <1>1, WireLength
<1>3. ASSUME NEW m \in 1 .. len
      PROVE  s[m].k = KindAt(shape, m) /\ s[m].reply = reply
  <2>1. s[m] = Wire(reply)[m]
    BY <1>2 DEF PrefixOfReply
  <2> QED
    BY <2>1, WireAt
<1>4. s[1].k = "start" /\ s[2].k = "blank" /\ s[1].reply = reply
  <2>1. 1 \in 1 .. len /\ 2 \in 1 .. len
    BY <1>2
  <2>2. KindAt(shape, 1) = "start" /\ KindAt(shape, 2) = "blank"
    BY DEF KindAt
  <2> QED
    BY <1>3, <2>1, <2>2
<1>5. 1 \in StatusAt(s)
  BY <1>2, <1>4 DEF StatusAt
<1>6. HasHeaders(s)
  BY <1>2, <1>4 DEF HasHeaders, HeaderEnds
<1>7. Headers(s) = {1}
  BY <1>6, PrefixHeaders
<1>8. ASSUME Framed(s, "chunked")
      PROVE  s[Len(s)].k # "size"
  <2>1. shape.framing = "chunked"
    BY <1>4, <1>7, <1>8 DEF Framed
  <2>2. len > 2 /\ len \in 1 .. len
    <3>1. Len(shape.body) \in Nat
      BY <1>1 DEF ShapeType
    <3> QED
      BY <2>1, <3>1 DEF WireLen
  <2>3. KindAt(shape, len) = "last"
    BY <2>1, <2>2 DEF KindAt
  <2> QED
    BY <1>2, <1>3, <2>2, <2>3
<1> QED
  BY <1>5, <1>6, <1>8 DEF ParseThrows

----------------------------------------------------------------------------
USE ClientAssumption

----------------------------------------------------------------------------
(* The inductive invariant.                                                 *)

\* During a call there is a request to be about.
Numbered == pc # "idle" => calls >= 1 /\ i >= 1

IInv == TypeOK /\ Numbered /\ InStep

LEMMA Initially == Init => IInv
<1> SUFFICES ASSUME Init PROVE IInv
  OBVIOUS
<1>1. <<>> \in Seq(Token) /\ <<>> \in Seq(Req) /\ Len(<<>>) = 0
  BY EmptySeq
<1>2. TypeOK
  <2>1. /\ output_names_ \in Seq(Req) /\ Len(output_names_) <= NOutputs
        /\ raw \in Seq(Token) /\ wire \in Seq(Token)
    BY <1>1, Zenon, SMT DEF Init
  <2>2. calls \in 0 .. MaxCalls /\ op \in Ops
    BY DEF Init, Ops
  <2> QED
    BY <2>1, <2>2 DEF Init, TypeOK
<1>3. Numbered /\ InStep
  BY DEF Init, Numbered, InStep
<1> QED
  BY <1>2, <1>3 DEF IInv

\* The identity of the current request.
LEMMA ReqType ==
  ASSUME TypeOK, Numbered, pc # "idle"
  PROVE  req \in Req
BY DEF TypeOK, Numbered, req, Req

\* A reply to a request is made of tokens.
LEMMA WireType ==
  ASSUME NEW r \in Req, NEW shape \in Shapes, NoMimic
  PROVE  /\ Wire([req |-> r, shape |-> shape]) \in Seq(Token)
         /\ Len(Wire([req |-> r, shape |-> shape])) = WireLen(shape)
<1> DEFINE reply == [req |-> r, shape |-> shape]
<1>1. shape \in ShapeType /\ \A n \in 1 .. Len(shape.body) : shape.body[n] = "data"
  BY ShapesAssumption DEF NoMimic
<1>2. WireLen(shape) \in Nat
  BY <1>1, WireLength
<1>3. \A m \in 1 .. WireLen(shape) : KindAt(shape, m) \in Kinds
  BY <1>1, WireKinds
<1>4. \A m \in 1 .. WireLen(shape) : [k |-> KindAt(shape, m), reply |-> reply] \in Token
  BY <1>3 DEF Token
<1>5. Wire(reply) = [m \in 1 .. WireLen(shape) |-> [k |-> KindAt(shape, m), reply |-> reply]]
  BY DEF Wire
<1> QED
  BY <1>2, <1>4, <1>5

----------------------------------------------------------------------------
(* The steps that end an attempt.                                           *)

\* An attempt that throws leaves nothing in flight.
LEMMA FailStep ==
  ASSUME IInv, NEW cause \in BOOLEAN, Fail(cause), pc # "idle"
  PROVE  IInv'
<1>1. TypeOK'
  BY EmptySeq DEF IInv, TypeOK, Fail, drop, call, loop, fixed
<1>2. Numbered' /\ InStep'
  BY DEF IInv, Numbered, InStep, Fail, drop, call, loop, fixed
<1> QED
  BY <1>1, <1>2 DEF IInv

\* So does one that gets a reply, whether or not the connection is kept.
LEMMA RepliedStep ==
  ASSUME IInv, NoMimic, Replied
  PROVE  /\ raw' = <<>> /\ wire' = <<>> /\ inbox' = {} /\ server_closed' = FALSE
         /\ conn' \in {"none", "open", "closed"} /\ late' \subseteq Req
         /\ outcome' \in Nat
         /\ UNCHANGED <<op, calls, env, transport, i, slept, served, fault, excused>>
<1>1. pc = "parse" /\ raw # <<>> /\ inbox = {} /\ Streaming /\ raw \in Seq(Token) /\ wire \in Seq(Token)
  BY DEF Replied, IInv, TypeOK, InStep
<1>2. PICK shape \in Shapes :
        LET w == Wire([req |-> req, shape |-> shape]) IN
        /\ Len(raw) + Len(wire) <= Len(w)
        /\ \A m \in 1 .. Len(raw) : raw[m] = w[m]
        /\ ~server_closed => Len(raw) = Len(w)
  BY <1>1 DEF Streaming
<1> DEFINE reply == [req |-> req, shape |-> shape]
<1>3. Len(Wire(reply)) = WireLen(shape) /\ req \in Req
  BY <1>1, ReqType, WireType DEF IInv
<1>4. WireLen(shape) \in Nat /\ shape.status \in Nat
  BY ShapesAssumption, WireLength DEF ShapeType
<1>5. Status(raw) \in Nat
  <2>1. PrefixOfReply(raw, reply)
    BY <1>1, <1>2, <1>3, <1>4 DEF PrefixOfReply
  <2>2. reply.shape = shape
    OBVIOUS
  <2>3. Status(raw) = shape.status
    BY <1>1, <2>1, <2>2, PrefixStatus
  <2> QED
    BY <2>3, <1>4
<1>6. ~server_closed => wire = <<>>
  <2>1. ~server_closed => Len(wire) = 0
    BY <1>1, <1>2, <1>3, <1>4
  <2> QED
    BY <2>1, <1>1, EmptySeq
<1>7. wire' = <<>> /\ inbox' = {}
  BY <1>1, <1>6 DEF Replied, drop
<1>8. conn' \in {"none", "open", "closed"} /\ late' \subseteq Req
  BY <1>1 DEF Replied, drop, IInv, TypeOK
<1> QED
  BY <1>5, <1>7, <1>8 DEF Replied, call, loop, fixed, history

LEMMA RetryStatusStep ==
  ASSUME IInv, NoMimic, RetryStatus
  PROVE  IInv'
<1>1. Replied /\ pc' = "backoff" /\ pc = "parse" /\ UNCHANGED <<result, output_names_>>
  BY DEF RetryStatus, Replied
<1>2. TypeOK'
  BY <1>1, RepliedStep, EmptySeq DEF IInv, TypeOK
<1>3. Numbered' /\ InStep'
  BY <1>1, RepliedStep DEF IInv, Numbered, InStep
<1> QED
  BY <1>2, <1>3 DEF IInv

LEMMA FinishStep ==
  ASSUME IInv, NoMimic, Finish
  PROVE  IInv'
<1>1. Replied /\ pc' = "idle" /\ pc = "parse"
  BY DEF Finish, Replied
<1>2. result' \in {"none", "value", "false", "throw"}
  BY DEF Finish, Decoded
<1>3. output_names_' \in Seq(Req) /\ Len(output_names_') <= NOutputs
  <2>1. req \in Req
    BY <1>1, ReqType DEF IInv
  <2>2. CASE CachedNames = output_names_
    BY <2>2 DEF Finish, IInv, TypeOK
  <2>3. ASSUME NEW n \in {NOutputs, NOutputs - 1}, CachedNames = [k \in 1 .. n |-> req]
        PROVE  output_names_' \in Seq(Req) /\ Len(output_names_') <= NOutputs
    <3>1. n \in Nat /\ n <= NOutputs
      OBVIOUS
    <3>2. [k \in 1 .. n |-> req] \in Seq(Req) /\ Len([k \in 1 .. n |-> req]) = n
      BY <2>1, <3>1
    <3> QED
      BY <2>3, <3>1, <3>2 DEF Finish
  <2> QED
    BY <2>2, <2>3 DEF CachedNames
<1>4. TypeOK'
  BY <1>1, <1>2, <1>3, RepliedStep, EmptySeq DEF IInv, TypeOK
<1>5. Numbered' /\ InStep'
  BY <1>1, RepliedStep DEF Numbered, InStep
<1> QED
  BY <1>4, <1>5 DEF IInv

----------------------------------------------------------------------------
(* The steps of a round trip.                                               *)

LEMMA ReceiveStep ==
  ASSUME IInv, NoMimic, NEW n \in 1 .. Len(wire), Receive(n)
  PROVE  IInv'
<1>1. /\ pc = "recv" /\ ~server_closed
      /\ raw \in Seq(Token) /\ wire \in Seq(Token) /\ Len(raw) \in Nat /\ Len(wire) \in Nat
  BY DEF Receive, IInv, TypeOK, InStep
<1>2. inbox = {} /\ Streaming
  BY <1>1, EmptySeq DEF IInv, InStep
<1>3. PICK shape \in Shapes :
        LET w == Wire([req |-> req, shape |-> shape]) IN
        /\ Len(raw) + Len(wire) <= Len(w)
        /\ \A m \in 1 .. Len(raw) : raw[m] = w[m]
        /\ \A m \in 1 .. Len(wire) : wire[m] = w[Len(raw) + m]
  BY <1>2 DEF Streaming
<1> DEFINE reply == [req |-> req, shape |-> shape]
           w == Wire(reply)
           got == SubSeq(wire, 1, n)
           left == SubSeq(wire, n + 1, Len(wire))
<1>4. req \in Req /\ Len(w) = WireLen(shape)
  BY <1>1, ReqType, WireType DEF IInv
<1>5. WireLen(shape) \in Nat
  BY ShapesAssumption, WireLength
<1>6. /\ got \in Seq(Token) /\ Len(got) = n
      /\ \A m \in 1 .. n : got[m] = wire[m]
  <2>1. \A m \in 1 .. n : wire[m] \in Token
    BY <1>1, ElementOfSeq
  <2> QED
    BY <1>1, <2>1, SubSeqProperties
<1>7. /\ left \in Seq(Token) /\ Len(left) = Len(wire) - n
      /\ \A m \in 1 .. (Len(wire) - n) : left[m] = wire[n + m]
  <2>1. \A m \in (n + 1) .. Len(wire) : wire[m] \in Token
    BY <1>1, ElementOfSeq
  <2> QED
    BY <1>1, <2>1, SubSeqProperties
<1>8. /\ raw' \in Seq(Token) /\ Len(raw') = Len(raw) + n
      /\ \A m \in 1 .. (Len(raw) + n) :
           raw'[m] = IF m <= Len(raw) THEN raw[m] ELSE got[m - Len(raw)]
  BY <1>1, <1>6, ConcatProperties DEF Receive
<1>9. wire' = left /\ req' = req /\ UNCHANGED <<inbox, server_closed>>
  BY DEF Receive, call, loop, fixed, req
<1>r. /\ \A m \in 1 .. Len(raw) : raw[m] = w[m]
      /\ \A m \in 1 .. Len(wire) : wire[m] = w[Len(raw) + m]
  BY <1>3
<1> HIDE DEF w, got, left
<1>10. \A m \in 1 .. Len(raw') : raw'[m] = w[m]
  <2> TAKE m \in 1 .. Len(raw')
  <2>1. CASE m <= Len(raw)
    BY <1>1, <1>8, <1>r, <2>1
  <2>2. CASE m > Len(raw)
    <3> DEFINE j == m - Len(raw)
    <3>1. j \in 1 .. n /\ j \in 1 .. Len(wire) /\ Len(raw) + j = m
      BY <1>1, <1>8, <2>2
    <3>2. raw'[m] = got[j]
      BY <1>1, <1>8, <2>2
    <3> QED
      BY <1>6, <1>r, <3>1, <3>2
  <2> QED
    BY <1>1, <1>8, <2>1, <2>2
<1>11. \A m \in 1 .. Len(wire') : wire'[m] = w[Len(raw') + m]
  <2> TAKE m \in 1 .. Len(wire')
  <2>1. m \in 1 .. (Len(wire) - n) /\ n + m \in 1 .. Len(wire)
    BY <1>1, <1>7, <1>9
  <2>2. wire'[m] = wire[n + m]
    BY <1>7, <1>9, <2>1
  <2>3. wire[n + m] = w[Len(raw) + (n + m)]
    BY <1>r, <2>1
  <2>4. Len(raw) + (n + m) = Len(raw') + m
    BY <1>1, <1>8
  <2> QED
    BY <2>2, <2>3, <2>4
<1>12. Len(raw') + Len(wire') <= Len(w)
  BY <1>1, <1>3, <1>4, <1>5, <1>7, <1>8, <1>9 DEF w
<1>13. pc' = "parse" => Len(raw') = Len(w)
  <2> SUFFICES ASSUME pc' = "parse" PROVE Len(raw') = Len(w)
    OBVIOUS
  <2>1. messageComplete(raw')
    BY DEF Receive
  <2>2. PrefixOfReply(raw', reply)
    BY <1>1, <1>4, <1>5, <1>7, <1>8, <1>9, <1>10, <1>12 DEF PrefixOfReply, w
  <2> QED
    BY <1>4, <1>8, <2>1, <2>2, CompleteAtEnd
<1>14. Streaming'
  <2>1. /\ Len(raw') + Len(wire') <= Len(Wire([req |-> req', shape |-> shape]))
        /\ \A m \in 1 .. Len(raw') : raw'[m] = Wire([req |-> req', shape |-> shape])[m]
        /\ \A m \in 1 .. Len(wire') :
             wire'[m] = Wire([req |-> req', shape |-> shape])[Len(raw') + m]
        /\ pc' = "parse" => Len(raw') = Len(Wire([req |-> req', shape |-> shape]))
    BY <1>9, <1>10, <1>11, <1>12, <1>13 DEF w
  <2> QED
    BY <2>1 DEF Streaming
<1>15. raw' # <<>>
  BY <1>1, <1>8, EmptySeq
<1>16. InStep'
  <2>1. pc' \in {"recv", "parse"} /\ inbox' = {} /\ ~server_closed'
    BY <1>1, <1>2, <1>9 DEF Receive
  <2> QED
    BY <2>1, <1>14, <1>15 DEF InStep
<1>17. TypeOK' /\ Numbered'
  BY <1>1, <1>7, <1>8, <1>9 DEF IInv, TypeOK, Numbered, Receive, call, loop, fixed, history
<1> QED
  BY <1>16, <1>17 DEF IInv

LEMMA ServeStep ==
  ASSUME IInv, NoMimic, NEW shape \in Shapes, Serve(shape)
  PROVE  IInv'
<1>1. PICK r \in inbox :
        /\ inbox' = inbox \ {r} /\ served' = served \cup {r}
        /\ wire' = wire \o Wire([req |-> r, shape |-> shape])
  BY DEF Serve
<1>2. pc = "recv" /\ ~server_closed /\ raw = <<>> /\ wire = <<>> /\ inbox \subseteq {req}
  BY <1>1 DEF IInv, InStep
<1>3. r = req /\ r \in Req /\ inbox' = {}
  BY <1>1, <1>2, ReqType DEF IInv
<1>4. Wire([req |-> r, shape |-> shape]) \in Seq(Token)
  BY <1>3, WireType
<1>5. wire' = Wire([req |-> r, shape |-> shape])
  BY <1>1, <1>2, <1>4, ConcatEmptySeq
<1>6. UNCHANGED <<raw, server_closed, pc, calls, i>> /\ req' = req
  BY DEF Serve, ServerUnchanged, call, loop, fixed, reading, req
<1>7. Len(raw') = 0 /\ Len(wire') \in Nat
  BY <1>2, <1>4, <1>5, <1>6, EmptySeq
<1>8. Streaming'
  BY <1>2, <1>3, <1>5, <1>6, <1>7 DEF Streaming
<1>9. TypeOK'
  BY <1>1, <1>3, <1>4, <1>5 DEF IInv, TypeOK, Serve, ServerUnchanged, call, loop, fixed, reading
<1> QED
  BY <1>2, <1>3, <1>6, <1>8, <1>9 DEF IInv, Numbered, InStep

LEMMA ServerClosesStep ==
  ASSUME IInv, NoMimic, NEW n \in 0 .. Len(wire), ServerCloses(n)
  PROVE  IInv'
<1>1. raw \in Seq(Token) /\ wire \in Seq(Token) /\ Len(raw) \in Nat /\ Len(wire) \in Nat
  BY DEF IInv, TypeOK
<1>2. /\ wire' \in Seq(Token) /\ Len(wire') = n
      /\ \A m \in 1 .. n : wire'[m] = wire[m]
  <2>1. \A m \in 1 .. n : wire[m] \in Token
    BY <1>1, ElementOfSeq
  <2> QED
    BY <1>1, <2>1, SubSeqProperties DEF ServerCloses
<1>3. UNCHANGED <<raw, server_closed, pc, calls, i>> /\ req' = req /\ inbox' = {}
  BY DEF ServerCloses, ServerUnchanged, call, loop, fixed, reading, req
<1>4. wire = <<>> => wire' = <<>>
  BY <1>1, <1>2, EmptySeq
<1>5. ASSUME Streaming
      PROVE  Streaming'
  <2>1. PICK shape \in Shapes :
          LET w == Wire([req |-> req, shape |-> shape]) IN
          /\ Len(raw) + Len(wire) <= Len(w)
          /\ \A m \in 1 .. Len(raw) : raw[m] = w[m]
          /\ \A m \in 1 .. Len(wire) : wire[m] = w[Len(raw) + m]
          /\ pc = "parse" /\ ~server_closed => Len(raw) = Len(w)
    BY <1>5 DEF Streaming
  <2> DEFINE w == Wire([req |-> req, shape |-> shape])
  <2>2. w = Wire([req |-> req', shape |-> shape])
    BY <1>3
  <2>3. Len(raw') + Len(wire') <= Len(w)
    <3>1. pc \in {"recv", "parse"} => Len(w) \in Nat
      <4>1. pc \in {"recv", "parse"} => req \in Req
        BY ReqType DEF IInv
      <4>2. WireLen(shape) \in Nat
        BY ShapesAssumption, WireLength
      <4> QED
        BY <4>1, <4>2, WireType
    <3> QED
      BY <1>1, <1>2, <1>3, <2>1, <3>1
  <2>4. \A m \in 1 .. Len(wire') : wire'[m] = w[Len(raw') + m]
    <3> TAKE m \in 1 .. Len(wire')
    <3>1. m \in 1 .. n /\ m \in 1 .. Len(wire) /\ raw' = raw
      BY <1>1, <1>2, <1>3
    <3>2. wire[m] = w[Len(raw) + m]
      BY <2>1, <3>1
    <3> QED
      BY <1>2, <3>1, <3>2
  <2> HIDE DEF w
  <2> QED
    BY <1>3, <2>1, <2>2, <2>3, <2>4 DEF Streaming, w
<1>6. InStep'
  BY <1>3, <1>4, <1>5 DEF IInv, InStep
<1>7. TypeOK' /\ Numbered'
  BY <1>2, <1>3 DEF IInv, TypeOK, Numbered, ServerCloses, ServerUnchanged, call, loop, fixed, reading
<1> QED
  BY <1>6, <1>7 DEF IInv

----------------------------------------------------------------------------
(* Induction.                                                               *)

\* Starting a call, connecting and sending: nothing is in flight before.
LEMMA RequestStep ==
  ASSUME IInv,
         \/ \E o \in Ops : StartCall(o)
         \/ RejectInput \/ Reuse \/ Connect \/ SendPart \/ Send \/ SendKills
  PROVE  IInv'
<1>1. ASSUME NEW o \in Ops, StartCall(o)
      PROVE  IInv'
  BY <1>1 DEF StartCall, IInv, TypeOK, Numbered, InStep, fixed, link, reading, history
<1>2. CASE RejectInput
  BY <1>2 DEF RejectInput, IInv, TypeOK, Numbered, InStep, Ops, loop, fixed, link, reading, history
<1>3. CASE Reuse \/ SendPart \/ SendKills
  BY <1>3 DEF Reuse, SendPart, SendKills, Sending, IInv, TypeOK, Numbered, InStep, call, loop, fixed, link, reading, history
<1>4. CASE Connect
  BY <1>4 DEF Connect, Sending, IInv, TypeOK, Numbered, InStep, call, loop, fixed, reading
<1>5. CASE Send
  <2>1. inbox' \subseteq {req} /\ req' = req /\ req \in Req
    BY <1>5, ReqType DEF Send, Sending, IInv, InStep, req, call, loop, fixed
  <2> QED
    BY <1>5, <2>1 DEF Send, Sending, IInv, TypeOK, Numbered, InStep, call, loop, fixed, reading, history
<1> QED
  BY <1>1, <1>2, <1>3, <1>4, <1>5

LEMMA BackoffStep ==
  ASSUME IInv, NEW draw \in 0 .. (Unit - 1), Backoff(draw)
  PROVE  IInv'
<1>1. retry_policy_ \in RetryPolicy
  BY PolicyType DEF IInv, TypeOK, retry_policy_
<1>2. \A p \in RetryPolicy, a \in Nat, u \in Int :
        backoffDelayMs(p, a, u) \in 0 .. p.max_delay_ms
  BY DelayBound
<1>3. i \in Nat /\ draw \in Int /\ slept \in Nat
  BY UnitAssumption DEF IInv, TypeOK
<1>4. backoffDelayMs(retry_policy_, i, draw) \in 0 .. retry_policy_.max_delay_ms
  BY <1>1, <1>2, <1>3
<1>5. slept' \in Nat /\ i' \in Nat /\ i' >= 1
  <2>1. retry_policy_.max_delay_ms \in Nat
    BY <1>1 DEF RetryPolicy
  <2> QED
    BY <1>3, <1>4, <2>1 DEF Backoff
<1> QED
  BY <1>5 DEF Backoff, IInv, TypeOK, Numbered, InStep, fixed, call, link, reading, history

\* EOF with a partial reply: whatever is still in flight is the rest of it.
LEMMA EOFStep ==
  ASSUME IInv, EOF
  PROVE  IInv'
<1>1. /\ pc = "recv" /\ raw # <<>> /\ pc' = "parse" /\ server_closed' = TRUE
      /\ UNCHANGED <<raw, wire, inbox, calls, i>> /\ req' = req
  BY DEF EOF, AtEOF, link, call, loop, fixed, req
<1>2. inbox = {} /\ Streaming
  BY <1>1 DEF IInv, InStep
<1>3. Streaming'
  BY <1>1, <1>2 DEF Streaming
<1>4. fault' \in BOOLEAN
  BY DEF EOF, Faulty, EndOfStream, IInv, TypeOK
<1>5. TypeOK' /\ Numbered'
  BY <1>1, <1>4 DEF EOF, IInv, TypeOK, Numbered, call, loop, fixed, link
<1> QED
  BY <1>1, <1>2, <1>3, <1>5 DEF IInv, InStep

LEMMA Induction ==
  ASSUME NoMimic, IInv, [Next]_vars
  PROVE  IInv'
<1>1. CASE \/ (\E o \in Ops : StartCall(o)) \/ RejectInput
           \/ Reuse \/ Connect \/ SendPart \/ Send \/ SendKills
  BY <1>1, RequestStep
<1>2. CASE RetryStep
  BY <1>2, BackoffStep DEF RetryStep
<1>3. CASE ConnectThrows \/ SendThrows \/ EOFEmpty \/ RecvThrows \/ ParseFails
  <2>1. pc # "idle"
    BY <1>3 DEF ConnectThrows, SendThrows, Sending, EOFEmpty, AtEOF, RecvThrows, ParseFails
  <2>2. \E cause \in BOOLEAN : Fail(cause)
    BY <1>3 DEF ConnectThrows, SendThrows, EOFEmpty, RecvThrows, ParseFails, Faulty,
       EndOfStream, IInv, TypeOK
  <2> QED
    BY <2>1, <2>2, FailStep
<1>4. CASE \E n \in 1 .. Len(wire) : Receive(n)
  BY <1>4, ReceiveStep
<1>5. CASE EOF
  BY <1>5, EOFStep
<1>6. CASE RetryStatus \/ Finish
  BY <1>6, RetryStatusStep, FinishStep
<1>7. CASE (\E shape \in Shapes : Serve(shape)) \/ (\E n \in 0 .. Len(wire) : ServerCloses(n))
  BY <1>7, ServeStep, ServerClosesStep
<1>8. CASE ServeLate
  <2>1. UNCHANGED <<raw, wire, inbox, server_closed, pc, calls, i>> /\ req' = req
    BY <1>8 DEF ServeLate, ServerUnchanged, call, loop, fixed, reading, req
  <2>2. InStep' /\ Numbered'
    BY <2>1 DEF IInv, InStep, Streaming, Numbered
  <2>3. TypeOK'
    BY <1>8 DEF ServeLate, ServerUnchanged, call, loop, fixed, reading, IInv, TypeOK
  <2> QED
    BY <2>2, <2>3 DEF IInv
<1>9. CASE UNCHANGED vars
  <2>1. UNCHANGED <<raw, wire, inbox, server_closed, pc, calls, i>> /\ req' = req
    BY <1>9 DEF vars, call, loop, fixed, link, reading, req
  <2>2. InStep' /\ Numbered'
    BY <2>1 DEF IInv, InStep, Streaming, Numbered
  <2>3. TypeOK'
    BY <1>9 DEF vars, call, loop, fixed, link, reading, history, IInv, TypeOK
  <2> QED
    BY <2>2, <2>3 DEF IInv
<1> QED
  BY <1>1, <1>2, <1>3, <1>4, <1>5, <1>6, <1>7, <1>8, <1>9
     DEF Next, ClientStep, ConnectStep, SendStep, RecvStep, ReplyStep, ServerStep

LEMMA Invariance ==
  ASSUME NoMimic
  PROVE  SafeSpec => []IInv
BY Initially, Induction, PTL DEF SafeSpec

----------------------------------------------------------------------------
(* The theorems.                                                            *)

\* The client's state keeps its types.
THEOREM TypeCorrect ==
  ASSUME NoMimic
  PROVE  SafeSpec => []TypeOK
<1>1. IInv => TypeOK
  BY DEF IInv
<1> QED
  BY <1>1, Invariance, PTL

\* Client and server stay in step on the kept-alive connection.
THEOREM StaysInStep ==
  ASSUME NoMimic
  PROVE  SafeSpec => []InStep
<1>1. IInv => InStep
  BY DEF IInv
<1> QED
  BY <1>1, Invariance, PTL

\* A round trip never parses the reply to another request.
THEOREM OwnResponse ==
  ASSUME NoMimic
  PROVE  SafeSpec => []ResponseIsOwn
<1>1. IInv => ResponseIsOwn
  <2> SUFFICES ASSUME IInv, pc = "parse", NEW m \in 1 .. Len(raw)
               PROVE  raw[m].reply.req = req
    BY DEF ResponseIsOwn
  <2>1. PICK shape \in Shapes :
          LET w == Wire([req |-> req, shape |-> shape]) IN
          Len(raw) + Len(wire) <= Len(w) /\ raw[m] = w[m]
    BY DEF IInv, InStep, Streaming
  <2> DEFINE reply == [req |-> req, shape |-> shape]
  <2>2. Len(Wire(reply)) = WireLen(shape) /\ WireLen(shape) \in Nat
    BY ReqType, WireType, ShapesAssumption, WireLength DEF IInv
  <2>3. m \in 1 .. WireLen(reply.shape)
    BY <2>1, <2>2 DEF IInv, TypeOK
  <2>4. raw[m].reply = reply
    BY <2>1, <2>3, WireAt
  <2> QED
    BY <2>4
<1> QED
  BY <1>1, Invariance, PTL

\* Unless the stream ended, a round trip has read exactly its reply.
THEOREM WholeResponse ==
  ASSUME NoMimic
  PROVE  SafeSpec => []WholeUnlessClosed
<1>1. IInv => WholeUnlessClosed
  <2> SUFFICES ASSUME IInv, pc = "parse", ~server_closed
               PROVE  raw = Wire(raw[1].reply)
    BY DEF WholeUnlessClosed
  <2>1. PICK shape \in Shapes :
          LET w == Wire([req |-> req, shape |-> shape]) IN
          Len(raw) = Len(w) /\ \A m \in 1 .. Len(raw) : raw[m] = w[m]
    BY DEF IInv, InStep, Streaming
  <2> DEFINE reply == [req |-> req, shape |-> shape]
  <2>2. /\ Wire(reply) \in Seq(Token) /\ Len(Wire(reply)) = WireLen(shape)
        /\ WireLen(shape) \in Nat /\ WireLen(shape) >= 2
    BY ReqType, WireType, ShapesAssumption, WireLength DEF IInv
  <2>3. raw = Wire(reply)
    BY <2>1, <2>2, SeqEqual DEF IInv, TypeOK
  <2>4. 1 \in 1 .. WireLen(reply.shape)
    BY <2>2
  <2> QED
    BY <2>3, <2>4, WireAt
<1> QED
  BY <1>1, Invariance, PTL

----------------------------------------------------------------------------
(* What the caller is told, and the names it caches.                      *)

\* What is read or on its way was sent by a server that executed the request of
\* this attempt, and a call has no result before it ends.
Executed ==
  /\ pc # "idle" => result = "none"
  /\ raw # <<>> \/ wire # <<>> => req \in served

SInv == IInv /\ Executed /\ AnswerWasServed /\ NamesFromOneReply

\* The names are kept while the server's record of requests only grows.
LEMMA NamesKept ==
  ASSUME NamesFromOneReply, UNCHANGED output_names_, served \subseteq served'
  PROVE  NamesFromOneReply'
BY DEF NamesFromOneReply

\* Nothing is in flight and nothing cached at first.
LEMMA ExecutedInit == Init => Executed /\ AnswerWasServed /\ NamesFromOneReply
<1> SUFFICES ASSUME Init PROVE Executed /\ AnswerWasServed /\ NamesFromOneReply
  OBVIOUS
<1>1. Executed /\ AnswerWasServed
  BY DEF Init, Executed, AnswerWasServed
<1>2. Len(output_names_) = 0
  BY EmptySeq DEF Init
<1> QED
  BY <1>1, <1>2 DEF NamesFromOneReply

\* An attempt that throws: the names and the record stay, the call has no answer.
LEMMA FailExecuted ==
  ASSUME SInv, NEW cause, Fail(cause), pc # "idle"
  PROVE  Executed' /\ AnswerWasServed' /\ NamesFromOneReply'
<1>1. NamesFromOneReply'
  BY NamesKept DEF SInv, Fail
<1>2. Executed' /\ AnswerWasServed'
  BY DEF SInv, Fail, drop, Executed, AnswerWasServed
<1> QED
  BY <1>1, <1>2

\* A reply: the request it answers was executed.
LEMMA RepliedExecuted ==
  ASSUME SInv, NoMimic, Replied
  PROVE  /\ req \in served /\ req' = req /\ served' = served
         /\ raw' = <<>> /\ wire' = <<>> /\ pc # "idle" /\ op' = op
<1>1. raw # <<>> /\ pc = "parse"
  BY DEF SInv, IInv, InStep, Replied
<1> QED
  BY <1>1, RepliedStep DEF SInv, Executed, req

\* A reply is sent by the step that executes its request.
LEMMA ServeExecuted ==
  ASSUME SInv, NEW shape \in Shapes, Serve(shape)
  PROVE  Executed' /\ AnswerWasServed' /\ NamesFromOneReply'
<1>1. PICK r \in inbox : served' = served \cup {r}
  BY DEF Serve
<1>2. r = req /\ UNCHANGED <<pc, op, outcome, result, output_names_>> /\ req' = req
  BY <1>1 DEF SInv, IInv, InStep, Serve, ServerUnchanged, call, loop, fixed, req
<1> QED
  BY <1>1, <1>2, NamesKept DEF SInv, Executed, AnswerWasServed

\* Every step keeps the three.
LEMMA ExecutedNext ==
  ASSUME NoMimic, SInv, [Next]_vars
  PROVE  Executed' /\ AnswerWasServed' /\ NamesFromOneReply'
<1>1. ASSUME NEW o \in Ops, StartCall(o)
      PROVE  Executed' /\ AnswerWasServed' /\ NamesFromOneReply'
  <2>1. raw' = <<>> /\ wire' = <<>> /\ result' = "none" /\ UNCHANGED <<served, output_names_>>
    BY <1>1 DEF SInv, IInv, InStep, StartCall, link, reading
  <2> QED
    BY <2>1, NamesKept DEF SInv, Executed, AnswerWasServed
<1>2. CASE RejectInput
  <2>1. raw' = <<>> /\ wire' = <<>> /\ UNCHANGED <<pc, served, output_names_>>
    BY <1>2 DEF SInv, IInv, InStep, RejectInput, link, reading
  <2> QED
    BY <1>2, <2>1, NamesKept DEF SInv, RejectInput, Executed, AnswerWasServed
<1>3. CASE Reuse \/ SendPart \/ SendKills \/ Connect \/ Send
  <2>1. /\ raw' = <<>> /\ wire' = <<>> /\ pc # "idle" /\ req' = req
        /\ UNCHANGED <<served, output_names_, result, outcome, op>>
    BY <1>3 DEF SInv, IInv, InStep, Reuse, SendPart, SendKills, Connect, Send, Sending, call, loop, fixed,
       link, reading, req
  <2> QED
    BY <2>1, NamesKept DEF SInv, Executed, AnswerWasServed
<1>4. CASE RetryStep
  <2>1. PICK draw \in 0 .. (Unit - 1) : Backoff(draw)
    BY <1>4 DEF RetryStep
  <2>2. /\ raw' = <<>> /\ wire' = <<>> /\ pc # "idle"
        /\ UNCHANGED <<served, output_names_, result, op>>
    BY <2>1 DEF SInv, IInv, InStep, Backoff, call, link, reading
  <2> QED
    BY <2>2, NamesKept DEF SInv, Executed, AnswerWasServed
<1>5. CASE ConnectThrows \/ SendThrows \/ EOFEmpty \/ RecvThrows \/ ParseFails
  <2>1. pc # "idle" /\ \E cause : Fail(cause)
    BY <1>5 DEF ConnectThrows, SendThrows, Sending, EOFEmpty, AtEOF, RecvThrows, ParseFails
  <2> QED
    BY <2>1, FailExecuted
<1>6. CASE (\E n \in 1 .. Len(wire) : Receive(n)) \/ EOF
  <2>1. pc = "recv" /\ UNCHANGED <<served, output_names_, result, outcome, op>> /\ req' = req
    BY <1>6 DEF Receive, EOF, AtEOF, call, loop, fixed, link, req
  <2>2. raw # <<>> \/ wire # <<>>
    <3>1. ASSUME NEW n \in 1 .. Len(wire) PROVE wire # <<>>
      BY <3>1, EmptySeq DEF SInv, IInv, TypeOK
    <3> QED
      BY <1>6, <3>1 DEF EOF
  <2> QED
    BY <2>1, <2>2, NamesKept DEF SInv, Executed, AnswerWasServed
<1>7. CASE RetryStatus
  <2>1. UNCHANGED <<result, output_names_>> /\ Replied
    BY <1>7 DEF RetryStatus
  <2> QED
    BY <2>1, RepliedExecuted, NamesKept DEF SInv, Executed, AnswerWasServed
<1>8. CASE Finish
  <2>1. Replied /\ pc' = "idle" /\ result' = Decoded /\ output_names_' = CachedNames
    BY <1>8 DEF Finish
  <2>2. op = "probe" => Decoded # "throw"
    BY DEF Decoded
  <2>3. Executed' /\ AnswerWasServed'
    BY <2>1, <2>2, RepliedExecuted DEF Executed, AnswerWasServed
  <2>4. NamesFromOneReply'
    <3>1. CASE CachedNames = output_names_
      BY <2>1, <3>1, RepliedExecuted, NamesKept DEF SInv
    <3>2. ASSUME NEW n \in {NOutputs, NOutputs - 1}, CachedNames = [k \in 1 .. n |-> req]
          PROVE  NamesFromOneReply'
      <4>1. n \in Nat
        BY <3>2
      <4>2. Len(output_names_') = n
        BY <2>1, <3>2, <4>1
      <4>3. \A m \in 1 .. Len(output_names_') : output_names_'[m] = req
        BY <2>1, <3>2, <4>2
      <4> QED
        BY <2>1, <4>3, RepliedExecuted DEF NamesFromOneReply
    <3> QED
      BY <3>1, <3>2 DEF CachedNames
  <2> QED
    BY <2>3, <2>4
<1>9. ASSUME NEW shape \in Shapes, Serve(shape)
      PROVE  Executed' /\ AnswerWasServed' /\ NamesFromOneReply'
  BY <1>9, ServeExecuted
<1>10. ASSUME NEW n \in 0 .. Len(wire), ServerCloses(n)
       PROVE  Executed' /\ AnswerWasServed' /\ NamesFromOneReply'
  <2>1. /\ UNCHANGED <<pc, raw, served, output_names_, result, outcome, op>> /\ req' = req
        /\ wire' = SubSeq(wire, 1, n)
    BY <1>10 DEF ServerCloses, ServerUnchanged, call, loop, fixed, reading, req
  <2>2. wire = <<>> => wire' = <<>>
    <3>1. wire = <<>> => n = 0 /\ wire' = SubSeq(<<>>, 1, 0)
      BY <2>1, EmptySeq
    <3>2. SubSeq(<<>>, 1, 0) = <<>>
      OBVIOUS
    <3> QED
      BY <3>1, <3>2
  <2> QED
    BY <2>1, <2>2, NamesKept DEF SInv, Executed, AnswerWasServed
<1>11. CASE ServeLate
  <2>1. /\ UNCHANGED <<pc, raw, wire, output_names_, result, outcome, op>> /\ req' = req
        /\ served \subseteq served'
    BY <1>11 DEF ServeLate, ServerUnchanged, call, loop, fixed, reading, req
  <2> QED
    BY <2>1, NamesKept DEF SInv, Executed, AnswerWasServed
<1>12. CASE UNCHANGED vars
  <2>1. UNCHANGED <<pc, raw, wire, output_names_, result, outcome, op, served>> /\ req' = req
    BY <1>12 DEF vars, call, loop, fixed, link, reading, req
  <2> QED
    BY <2>1, NamesKept DEF SInv, Executed, AnswerWasServed
<1> QED
  BY <1>1, <1>2, <1>3, <1>4, <1>5, <1>6, <1>7, <1>8, <1>9, <1>10, <1>11, <1>12
     DEF Next, ClientStep, ConnectStep, SendStep, RecvStep, ReplyStep, ServerStep

\* The invariant that carries both properties.
LEMMA ServedInvariance ==
  ASSUME NoMimic
  PROVE  SafeSpec => []SInv
<1>1. Init => SInv
  BY Initially, ExecutedInit DEF SInv
<1>2. SInv /\ [Next]_vars => SInv'
  BY Induction, ExecutedNext DEF SInv
<1> QED
  BY <1>1, <1>2, PTL DEF SafeSpec

\* A call that returns was executed by the server in its last attempt, and a
\* probe throws only when its last attempt did.
THEOREM ServedAnswer ==
  ASSUME NoMimic
  PROVE  SafeSpec => []AnswerWasServed
<1>1. SInv => AnswerWasServed
  BY DEF SInv
<1> QED
  BY <1>1, ServedInvariance, PTL

\* The cached output names are those of one reply the server gave.
THEOREM NamesOfOneReply ==
  ASSUME NoMimic
  PROVE  SafeSpec => []NamesFromOneReply
<1>1. SInv => NamesFromOneReply
  BY DEF SInv
<1> QED
  BY <1>1, ServedInvariance, PTL

----------------------------------------------------------------------------
(* No failure without a fault.                                            *)

\* Without a fault the connection is closed only by a reply that says so, all of
\* a reply arrives, and none is taken for whole before it ends.
InFlight == raw # <<>> \/ wire # <<>>
Shape == IF raw # <<>> THEN raw[1].reply.shape ELSE wire[1].reply.shape
ClosesAfter(shape) == shape.close \/ shape.framing = "close"

\* A reply of HTTP/1.0 says that the connection ends with it, or is delimited by
\* its end.
ClosesSaid == \A shape \in Shapes : EndsConnection(shape) => ClosesAfter(shape)
Unbroken ==
  /\ fault = FALSE /\ conn = "closed" => InFlight /\ ClosesAfter(Shape)
  /\ fault = FALSE /\ InFlight => Len(raw) + Len(wire) = WireLen(Shape)
  /\ fault = FALSE /\ pc = "parse" => wire = <<>>
  /\ pc = "parse" /\ server_closed = FALSE => raw[1].reply.shape.framing # "close"
  /\ pc \in Sending => conn # "none"

BInv == IInv /\ Unbroken /\ FailureHasCause

\* No connection at first.
LEMMA UnbrokenInit == Init => Unbroken /\ FailureHasCause
BY DEF Init, Sending, Unbroken, InFlight, FailureHasCause

\* What has been read is the beginning of a reply to the current request, whose
\* shape its first token tells.
LEMMA InHand ==
  ASSUME IInv, NoMimic, pc \in {"recv", "parse"}, raw # <<>>
  PROVE  /\ Shape \in Shapes /\ Shape = raw[1].reply.shape
         /\ PrefixOfReply(raw, [req |-> req, shape |-> Shape])
<1>1. Streaming /\ raw \in Seq(Token) /\ wire \in Seq(Token)
  BY DEF IInv, InStep, TypeOK
<1>2. PICK shape \in Shapes :
        LET w == Wire([req |-> req, shape |-> shape]) IN
        /\ Len(raw) + Len(wire) <= Len(w)
        /\ \A m \in 1 .. Len(raw) : raw[m] = w[m]
  BY <1>1 DEF Streaming
<1> DEFINE reply == [req |-> req, shape |-> shape]
<1>3. Len(Wire(reply)) = WireLen(shape) /\ WireLen(shape) \in Nat
  BY ReqType, WireType, ShapesAssumption, WireLength DEF IInv
<1>4. PrefixOfReply(raw, reply) /\ 1 \in 1 .. Len(raw)
  BY <1>1, <1>2, <1>3, EmptySeq DEF PrefixOfReply
<1>5. raw[1].reply = reply
  <2>1. raw[1] = Wire(reply)[1] /\ 1 \in 1 .. WireLen(reply.shape)
    BY <1>1, <1>3, <1>4 DEF PrefixOfReply
  <2> QED
    BY <2>1, WireAt
<1>6. Shape = shape
  BY <1>5 DEF Shape
<1> QED
  BY <1>4, <1>5, <1>6

\* A charged failure leaves no connection behind.
LEMMA FailUnbroken ==
  ASSUME NEW cause, cause, Fail(cause)
  PROVE  Unbroken' /\ FailureHasCause'
<1>1. /\ conn' = "none" /\ raw' = <<>> /\ wire' = <<>>
      /\ pc' \notin {"parse"} \cup Sending /\ excused'
  BY DEF Fail, drop, Sending
<1> QED
  BY <1>1 DEF Unbroken, InFlight, FailureHasCause

\* A reply that parses: a connection kept is still open, or has met a fault.
LEMMA RepliedUnbroken ==
  ASSUME BInv, NoMimic, Replied, pc' \notin {"parse"} \cup Sending
  PROVE  Unbroken' /\ FailureHasCause'
<1>1. /\ raw' = <<>> /\ wire' = <<>> /\ UNCHANGED <<fault, excused>>
      /\ pc = "parse" /\ raw # <<>> /\ raw \in Seq(Token)
  BY RepliedStep DEF BInv, IInv, TypeOK, InStep, Replied
<1>2. ASSUME fault = FALSE, conn' = "closed"
      PROVE  FALSE
  <2>1. conn = "closed" /\ server_closed = FALSE /\ ~wantsClose(raw)
    BY <1>2 DEF Replied, drop, BInv, IInv, TypeOK
  <2>2. ClosesAfter(Shape) /\ Len(raw) + Len(wire) = WireLen(Shape) /\ wire = <<>>
        /\ raw[1].reply.shape.framing # "close"
    BY <1>1, <1>2, <2>1 DEF BInv, Unbroken, InFlight
  <2> DEFINE reply == [req |-> req, shape |-> Shape]
  <2>3. Shape \in Shapes /\ Shape = raw[1].reply.shape /\ PrefixOfReply(raw, reply)
    BY <1>1, InHand DEF BInv
  <2>4. Len(raw) = WireLen(Shape)
    BY <1>1, <2>2, EmptySeq
  <2>5. reply.shape = Shape
    OBVIOUS
  <2>6. HasHeaders(raw)
    BY <1>1, <2>3, <2>4, <2>5, WholeParses
  <2>7. Headers(raw) = {1} /\ raw[1].k = "start"
    <3>1. Headers(raw) = {1}
      BY <1>1, <2>3, <2>5, <2>6, PrefixHeaders
    <3> QED
      BY <3>1 DEF Headers
  <2> QED
    BY <2>1, <2>2, <2>3, <2>6, <2>7 DEF wantsClose, ClosesAfter
<1> QED
  BY <1>1, <1>2 DEF BInv, Unbroken, InFlight, FailureHasCause

\* Reading moves tokens and takes no reply for whole before its end.
LEMMA ReceiveUnbroken ==
  ASSUME BInv, NoMimic, NEW n \in 1 .. Len(wire), Receive(n)
  PROVE  Unbroken' /\ FailureHasCause'
<1>1. /\ pc = "recv" /\ raw \in Seq(Token) /\ wire \in Seq(Token)
      /\ Len(raw) \in Nat /\ Len(wire) \in Nat /\ UNCHANGED <<conn, fault, excused>>
      /\ pc' \in {"recv", "parse"} /\ server_closed' = FALSE
  BY DEF BInv, IInv, TypeOK, InStep, Receive, history
<1> DEFINE got == SubSeq(wire, 1, n)
           left == SubSeq(wire, n + 1, Len(wire))
<1>2. IInv'
  BY ReceiveStep DEF BInv
<1>3. \A m \in 1 .. Len(wire) : wire[m] \in Token
  BY <1>1, ElementOfSeq
<1>4. got \in Seq(Token) /\ Len(got) = n /\ got[1] = wire[1]
  BY <1>1, <1>3, SubSeqProperties
<1>5. left \in Seq(Token) /\ Len(left) = Len(wire) - n
  BY <1>1, <1>3, SubSeqProperties
<1>6. /\ Len(raw') = Len(raw) + n /\ Len(wire') = Len(wire) - n
      /\ raw'[1] = IF raw # <<>> THEN raw[1] ELSE wire[1]
  <2>1. raw' = raw \o got /\ wire' = left
    BY DEF Receive
  <2>2. Len(raw') = Len(raw) + n /\ 1 \in 1 .. (Len(raw) + n)
    BY <1>1, <1>4, <2>1, ConcatProperties
  <2>3. raw'[1] = IF 1 <= Len(raw) THEN raw[1] ELSE got[1 - Len(raw)]
    BY <1>1, <1>4, <2>1, <2>2, ConcatProperties
  <2>4. raw # <<>> <=> 1 <= Len(raw)
    BY <1>1, EmptySeq
  <2>5. raw = <<>> => got[1 - Len(raw)] = wire[1]
    BY <1>1, <1>4, <2>4, EmptySeq
  <2> QED
    BY <1>5, <2>1, <2>2, <2>3, <2>4, <2>5
<1>7. raw' # <<>> /\ wire # <<>> /\ raw' \in Seq(Token) /\ wire' \in Seq(Token)
  BY <1>1, <1>2, <1>6, EmptySeq DEF IInv, TypeOK
<1>8. Shape' = Shape /\ InFlight /\ InFlight' /\ Len(raw') + Len(wire') = Len(raw) + Len(wire)
  BY <1>1, <1>6, <1>7 DEF Shape, InFlight
<1>9. ASSUME pc' = "parse"
      PROVE  wire' = <<>> /\ raw'[1].reply.shape.framing # "close"
  <2> DEFINE reply == [req |-> req', shape |-> Shape']
  <2>1. Shape' \in Shapes /\ Shape' = raw'[1].reply.shape /\ PrefixOfReply(raw', reply)
    <3>1. PICK shape \in Shapes :
            LET w == Wire([req |-> req', shape |-> shape]) IN
            /\ Len(raw') + Len(wire') <= Len(w)
            /\ \A m \in 1 .. Len(raw') : raw'[m] = w[m]
      BY <1>2, <1>9 DEF IInv, InStep, Streaming
    <3> DEFINE own == [req |-> req', shape |-> shape]
    <3>2. req' \in Req
      <4>1. req \in Req
        BY <1>1, ReqType DEF BInv, IInv
      <4>2. UNCHANGED req
        BY DEF Receive, req, call, loop
      <4> QED
        BY <4>1, <4>2
    <3>3. Len(Wire(own)) = WireLen(own.shape) /\ WireLen(own.shape) \in Nat
      BY <3>2, WireType, ShapesAssumption, WireLength
    <3>4. PrefixOfReply(raw', own) /\ 1 \in 1 .. Len(raw')
      BY <1>7, <3>1, <3>3, EmptySeq DEF PrefixOfReply
    <3>5. raw'[1] = Wire(own)[1] /\ 1 \in 1 .. WireLen(own.shape)
      BY <1>7, <3>3, <3>4 DEF PrefixOfReply
    <3>6. raw'[1].reply = own
      BY <3>5, WireAt
    <3>7. Shape' = shape
      BY <1>7, <3>6 DEF Shape
    <3> QED
      BY <3>4, <3>6, <3>7
  <2>2. messageComplete(raw') /\ reply.shape = Shape'
    BY <1>9 DEF Receive
  <2>3. Headers(raw') = {1}
    BY <1>7, <2>1, <2>2, PrefixHeaders DEF messageComplete
  <2>4. raw'[1].reply.shape.framing # "close"
    BY <2>2, <2>3 DEF messageComplete
  <2>5. Len(wire') = 0
    <3>1. PICK shape \in Shapes :
            LET w == Wire([req |-> req', shape |-> shape]) IN
            Len(raw') + Len(wire') <= Len(w) /\ Len(raw') = Len(w)
      BY <1>1, <1>2, <1>9 DEF IInv, InStep, Streaming
    <3> QED
      BY <3>1, <1>1, <1>6
  <2> QED
    BY <1>7, <2>4, <2>5, EmptySeq
<1> QED
  BY <1>1, <1>8, <1>9 DEF BInv, Unbroken, Sending, FailureHasCause

\* The server sends all of a reply, and closes only as the reply says.
LEMMA ServeUnbroken ==
  ASSUME BInv, NoMimic, ClosesSaid, NEW shape \in Shapes, Serve(shape)
  PROVE  Unbroken' /\ FailureHasCause'
<1>1. PICK r \in inbox : wire' = wire \o Wire([req |-> r, shape |-> shape])
  BY DEF Serve
<1> DEFINE reply == [req |-> r, shape |-> shape]
<1>2. /\ raw' = <<>> /\ wire = <<>> /\ pc' = "recv" /\ UNCHANGED <<fault, excused>>
      /\ r = req /\ r \in Req /\ conn' \in {"open", "closed"}
      /\ conn' = "closed" => ClosesAfter(shape)
  <2>1. conn' \in {"open", "closed"} /\ (conn' = "closed" => EndsConnection(shape))
    BY DEF Serve
  <2>2. conn' = "closed" => ClosesAfter(shape)
    BY <2>1, ClosesSaid DEF ClosesSaid
  <2>3. /\ raw' = <<>> /\ wire = <<>> /\ pc' = "recv" /\ UNCHANGED <<fault, excused>>
        /\ r = req /\ r \in Req
    BY <1>1, ReqType DEF BInv, IInv, InStep, Serve, ServerUnchanged, reading
  <2> QED
    BY <2>1, <2>2, <2>3
<1>3. Wire(reply) \in Seq(Token) /\ Len(Wire(reply)) = WireLen(shape)
  BY <1>2, WireType
<1>4. wire' = Wire(reply)
  BY <1>1, <1>2, <1>3, ConcatEmptySeq
<1>5. WireLen(shape) \in Nat /\ 1 \in 1 .. WireLen(reply.shape)
  BY ShapesAssumption, WireLength
<1>6. Shape' = shape
  <2>1. wire'[1].reply = reply
    BY <1>4, <1>5, WireAt
  <2> QED
    BY <1>2, <2>1 DEF Shape
<1>7. InFlight' /\ Len(raw') + Len(wire') = WireLen(shape)
  <2>1. Len(raw') = 0
    BY <1>2, EmptySeq
  <2>2. wire' # <<>>
    BY <1>3, <1>4, <1>5, EmptySeq
  <2> QED
    BY <1>3, <1>4, <1>5, <2>1, <2>2 DEF InFlight
<1> QED
  BY <1>2, <1>6, <1>7 DEF BInv, Unbroken, Sending, FailureHasCause

\* Whatever throws can name a fault.
LEMMA ThrowUnbroken ==
  ASSUME BInv, NoMimic, ConnectThrows \/ SendThrows \/ EOFEmpty \/ RecvThrows \/ ParseFails
  PROVE  Unbroken' /\ FailureHasCause'
<1>0. /\ fault \in BOOLEAN /\ conn \in {"none", "open", "closed"}
      /\ raw \in Seq(Token) /\ wire \in Seq(Token)
  BY DEF BInv, IInv, TypeOK
<1>1. CASE ConnectThrows
  BY <1>1, FailUnbroken DEF ConnectThrows
<1>2. CASE SendThrows
  <2>1. conn = "open" \/ fault
    BY <1>0, <1>2 DEF SendThrows, Sending, BInv, IInv, InStep, Unbroken, InFlight
  <2> QED
    BY <1>2, <2>1, FailUnbroken DEF SendThrows
<1>3. raw = <<>> => Faulty
  BY <1>0 DEF Faulty, EndOfStream, BInv, Unbroken, InFlight
<1>4. CASE EOFEmpty
  BY <1>3, <1>4, FailUnbroken DEF EOFEmpty
<1>5. CASE RecvThrows
  <2>1. Faulty \/ raw # <<>>
    BY <1>3
  <2> QED
    BY <1>5, <2>1, FailUnbroken DEF RecvThrows
<1>6. CASE ParseFails
  <2>1. ASSUME fault = FALSE
        PROVE  FALSE
    <3>1. raw # <<>> /\ pc = "parse" /\ ParseThrows(raw)
      BY <1>6 DEF ParseFails, BInv, IInv, InStep
    <3>2. Len(raw) + Len(wire) = WireLen(Shape) /\ wire = <<>>
      BY <2>1, <3>1 DEF BInv, Unbroken, InFlight
    <3>3. Len(raw) = WireLen(Shape)
      BY <1>0, <3>2, EmptySeq
    <3> DEFINE reply == [req |-> req, shape |-> Shape]
    <3>4. Shape \in Shapes /\ PrefixOfReply(raw, reply) /\ reply.shape = Shape
      BY <3>1, InHand DEF BInv
    <3> QED
      BY <1>0, <3>1, <3>3, <3>4, WholeParses
  <2>2. fault
    BY <1>0, <2>1
  <2> QED
    BY <1>6, <2>2, FailUnbroken DEF ParseFails
<1> QED
  BY <1>1, <1>2, <1>4, <1>5, <1>6

\* Every step keeps the two.
LEMMA UnbrokenNext ==
  ASSUME NoMimic, ClosesSaid, BInv, [Next]_vars
  PROVE  Unbroken' /\ FailureHasCause'
<1>1. ASSUME UNCHANGED <<conn, raw, wire, fault, excused>>,
             pc \notin {"recv", "parse"}, pc' # "parse", pc' \in Sending => conn # "none"
      PROVE  Unbroken' /\ FailureHasCause'
  BY <1>1 DEF BInv, IInv, InStep, Unbroken, InFlight, FailureHasCause
<1>2. CASE (\E o \in Ops : StartCall(o)) \/ RejectInput \/ Reuse \/ SendPart \/ SendKills \/ RetryStep
  <2>1. /\ UNCHANGED <<conn, raw, wire, fault, excused>>
        /\ pc \notin {"recv", "parse"} /\ pc' # "parse" /\ (pc' \in Sending => conn # "none")
    BY <1>2 DEF StartCall, RejectInput, Reuse, SendPart, SendKills, Sending, RetryStep,
       Backoff, link, reading, history, BInv, Unbroken
  <2> QED
    BY <1>1, <2>1
<1>3. CASE Connect
  <2>1. conn' = "open" /\ raw' = <<>> /\ wire' = <<>> /\ pc' = "send" /\ UNCHANGED excused
    BY <1>3 DEF Connect, reading, BInv, IInv, InStep
  <2> QED
    BY <2>1 DEF BInv, Unbroken, InFlight, Sending, FailureHasCause
<1>4. CASE Send
  <2>1. UNCHANGED <<conn, raw, wire, fault, excused>> /\ pc \in Sending /\ pc' = "recv"
    BY <1>4 DEF Send, reading, history
  <2> QED
    BY <1>1, <2>1 DEF Sending
<1>5. CASE ConnectThrows \/ SendThrows \/ EOFEmpty \/ RecvThrows \/ ParseFails
  BY <1>5, ThrowUnbroken
<1>6. CASE \E n \in 1 .. Len(wire) : Receive(n)
  BY <1>6, ReceiveUnbroken
<1>7. CASE EOF
  <2>1. /\ UNCHANGED <<conn, raw, wire, excused>> /\ pc' = "parse" /\ server_closed' = TRUE
        /\ fault' = FALSE => fault = FALSE /\ wire = <<>>
    BY <1>7 DEF EOF, link, Faulty, EndOfStream, BInv, IInv, TypeOK
  <2> QED
    BY <2>1 DEF BInv, Unbroken, InFlight, Shape, Sending, FailureHasCause
<1>8. CASE RetryStatus \/ Finish
  BY <1>8, RepliedUnbroken DEF RetryStatus, Finish, Sending
<1>9. ASSUME NEW shape \in Shapes, Serve(shape)
      PROVE  Unbroken' /\ FailureHasCause'
  BY <1>9, ServeUnbroken
<1>10. ASSUME NEW n \in 0 .. Len(wire), ServerCloses(n)
       PROVE  Unbroken' /\ FailureHasCause'
  <2>1. fault' = TRUE /\ conn' = "closed" /\ UNCHANGED <<pc, raw, server_closed, excused>>
    BY <1>10 DEF ServerCloses, ServerUnchanged, reading
  <2> QED
    BY <2>1 DEF BInv, Unbroken, FailureHasCause
<1>11. CASE ServeLate \/ UNCHANGED vars
  <2>1. UNCHANGED <<pc, conn, raw, wire, server_closed, fault, excused>>
    BY <1>11 DEF ServeLate, ServerUnchanged, reading, vars, link, history
  <2> QED
    BY <2>1 DEF BInv, Unbroken, InFlight, Shape, FailureHasCause
<1> QED
  BY <1>2, <1>3, <1>4, <1>5, <1>6, <1>7, <1>8, <1>9, <1>10, <1>11
     DEF Next, ClientStep, ConnectStep, SendStep, RecvStep, ReplyStep, ServerStep

\* No attempt fails without a fault of its own: a connection the server closed
\* costs one attempt, and a whole reply is never refused.  wantsClose must be
\* able to see from the headers that the server is going to close.
THEOREM CauseOfFailure ==
  ASSUME NoMimic, ClosesSaid
  PROVE  SafeSpec => []FailureHasCause
<1>1. Init => BInv
  BY Initially, UnbrokenInit DEF BInv
<1>2. BInv /\ [Next]_vars => BInv'
  BY Induction, UnbrokenNext DEF BInv
<1>3. BInv => FailureHasCause
  BY DEF BInv
<1> QED
  BY <1>1, <1>2, <1>3, PTL DEF SafeSpec

----------------------------------------------------------------------------
(* The retry loop.                                                        *)

\* The pure functions mean the same inside the instance of RetryLoop.
LEMMA SameFunctions ==
  /\ Retry!policy = retry_policy_
  /\ Retry!last = last
  /\ \A n, draw : Retry!backoffDelayMs(retry_policy_, n, draw)
                    = backoffDelayMs(retry_policy_, n, draw)
<1>1. Retry!policy = retry_policy_
  BY DEF Retry!policy, retry_policy_, Retry!retryPolicyFromEnv, retryPolicyFromEnv,
     Retry!envAttempts, envAttempts, Retry!envInt, envInt, Retry!envFraction, envFraction,
     Retry!DefaultPolicy, DefaultPolicy, Retry!AddInt, AddInt
<1>2. Retry!last = last
  BY <1>1 DEF Retry!last, last, Retry!AttemptsOf, AttemptsOf
<1>3. \A n, draw : Retry!backoffDelayMs(retry_policy_, n, draw)
                   = backoffDelayMs(retry_policy_, n, draw)
  BY DEF Retry!backoffDelayMs, backoffDelayMs, Retry!ExpDelay, ExpDelay, Retry!Round, Round,
     Retry!Clamp, Clamp, Retry!Lesser, Lesser, Retry!PowerOf2, PowerOf2
<1> QED
  BY <1>1, <1>2, <1>3

\* The phase of the loop, by where the client is.
LEMMA PhaseIs ==
  /\ pc = "idle" => phase = "idle"
  /\ pc = "backoff" => phase = "backoff"
  /\ pc \notin {"idle", "backoff"} => phase = "attempt"
BY DEF phase

\* The same, after a step.
LEMMA NextPhaseIs ==
  /\ pc' = "idle" => phase' = "idle"
  /\ pc' = "backoff" => phase' = "backoff"
  /\ pc' \notin {"idle", "backoff"} => phase' = "attempt"
BY DEF phase

\* The status of a reply in hand is one the server may give.
LEMMA StatusInHand ==
  ASSUME IInv, NoMimic, pc = "parse"
  PROVE  Status(raw) \in Statuses
<1>1. PICK shape \in Shapes :
        LET w == Wire([req |-> req, shape |-> shape]) IN
        /\ Len(raw) + Len(wire) <= Len(w)
        /\ \A m \in 1 .. Len(raw) : raw[m] = w[m]
  BY DEF IInv, InStep, Streaming
<1> DEFINE reply == [req |-> req, shape |-> shape]
<1>2. Len(Wire(reply)) = WireLen(shape) /\ raw # <<>> /\ raw \in Seq(Token) /\ wire \in Seq(Token)
  BY ReqType, WireType DEF IInv, InStep, TypeOK
<1>3. PrefixOfReply(raw, reply) /\ reply.shape = shape
  <2>1. WireLen(shape) \in Nat /\ Len(raw) \in Nat /\ Len(wire) \in Nat
    BY <1>2, ShapesAssumption, WireLength
  <2> QED
    BY <1>1, <1>2, <2>1 DEF PrefixOfReply
<1>4. Status(raw) = shape.status
  BY <1>2, <1>3, PrefixStatus
<1> QED
  BY <1>4 DEF Statuses

\* Every behaviour of the HTTP client is one of runWithRetry.
THEOREM RefinesRetryLoop ==
  ASSUME NoMimic
  PROVE  SafeSpec => ImplementsRetryLoop
<1>1. Init => Retry!Init
  BY PhaseIs DEF Init, Retry!Init
<1>2. ASSUME IInv, [Next]_vars
      PROVE  [Retry!Next]_Retry!vars
  <2>1. ASSUME NEW o \in Ops, StartCall(o) PROVE Retry!Call
    BY <2>1, PhaseIs, NextPhaseIs DEF StartCall, fixed, Retry!Call
  <2>2. ASSUME NEW cause, Fail(cause), pc \notin {"idle", "backoff"}
        PROVE  Retry!AttemptThrows
    <3>1. outcome' = Threw /\ UNCHANGED <<env, i, slept>>
      BY <2>2 DEF Fail, loop, fixed
    <3>2. phase' = IF last THEN "idle" ELSE "backoff"
      BY <2>2, NextPhaseIs DEF Fail
    <3> QED
      BY <2>2, <3>1, <3>2, PhaseIs, SameFunctions DEF Retry!AttemptThrows
  <2>3. CASE ConnectThrows \/ SendThrows \/ EOFEmpty \/ RecvThrows \/ ParseFails
    <3>1. pc \notin {"idle", "backoff"} /\ \E cause : Fail(cause)
      BY <2>3 DEF ConnectThrows, SendThrows, Sending, EOFEmpty, AtEOF, RecvThrows, ParseFails
    <3> QED
      BY <2>2, <3>1 DEF Retry!Next
  <2>4. CASE RetryStatus \/ Finish
    <3>1. /\ pc = "parse" /\ outcome' = Status(raw) /\ UNCHANGED <<env, i, slept>>
          /\ \/ pc' = "backoff" /\ ~last /\ isRetryableHttpStatus(Status(raw))
             \/ pc' = "idle" /\ (last \/ ~isRetryableHttpStatus(Status(raw)))
      BY <2>4 DEF RetryStatus, Finish, Replied, loop, fixed
    <3>2. Status(raw) \in Statuses
      BY <1>2, <3>1, StatusInHand
    <3>3. Retry!AttemptReturns(Status(raw))
      BY <3>1, <3>2, PhaseIs, NextPhaseIs, SameFunctions DEF Retry!AttemptReturns
    <3> QED
      BY <3>2, <3>3 DEF Retry!Next
  <2>5. ASSUME NEW draw \in 0 .. (Unit - 1), Backoff(draw) PROVE Retry!Backoff(draw)
    BY <2>5, PhaseIs, NextPhaseIs, SameFunctions DEF Backoff, fixed, Retry!Backoff
  <2>6. ASSUME UNCHANGED <<loop, outcome>>, \/ pc' = pc
                                            \/ /\ pc \notin {"idle", "backoff"}
                                               /\ pc' \notin {"idle", "backoff"}
        PROVE  UNCHANGED Retry!vars
    <3>1. phase' = phase
      BY <2>6, PhaseIs, NextPhaseIs DEF phase
    <3> QED
      BY <2>6, <3>1 DEF loop, fixed, Retry!vars
  <2>7. CASE RejectInput \/ Reuse \/ Connect \/ SendPart \/ Send \/ SendKills \/ EOF
    BY <2>6, <2>7 DEF RejectInput, Reuse, Connect, SendPart, Send, SendKills, Sending,
       EOF, AtEOF
  <2>8. ASSUME NEW n, Receive(n) PROVE UNCHANGED Retry!vars
    <3>1. pc = "recv" /\ pc' \in {"recv", "parse"} /\ UNCHANGED <<loop, outcome>>
      BY <2>8 DEF Receive
    <3> QED
      BY <2>6, <3>1
  <2>9. CASE ServerStep \/ UNCHANGED vars
    BY <2>6, <2>9 DEF ServerStep, Serve, ServerCloses, ServeLate, ServerUnchanged, vars
  <2> QED
    BY <1>2, <2>1, <2>3, <2>4, <2>5, <2>7, <2>8, <2>9
       DEF Next, ClientStep, RetryStep, ConnectStep, SendStep, RecvStep, ReplyStep, Retry!Next
<1> QED
  BY <1>1, <1>2, Invariance, PTL DEF SafeSpec, ImplementsRetryLoop, Retry!SafeSpec
============================================================================
