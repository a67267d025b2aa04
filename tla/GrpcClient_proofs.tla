------------------------- MODULE GrpcClient_proofs -------------------------
(***************************************************************************)
(* The safety of GrpcClient and its refinement of RetryLoop, for every     *)
(* environment, any number of calls and whatever the server answers.       *)
(***************************************************************************)
EXTENDS GrpcClient, KserveRetry_proofs, Lemmas

\* The pure functions mean the same inside the instance of RetryLoop.
LEMMA SameFunctions ==
  /\ Retry!policy = retry_policy
  /\ Retry!last = last
  /\ \A n, draw : Retry!backoffDelayMs(retry_policy, n, draw)
                    = backoffDelayMs(retry_policy, n, draw)
<1>1. Retry!policy = retry_policy
  BY DEF Retry!policy, retry_policy, Retry!retryPolicyFromEnv, retryPolicyFromEnv,
     Retry!envAttempts, envAttempts, Retry!envInt, envInt, Retry!envFraction, envFraction,
     Retry!DefaultPolicy, DefaultPolicy, Retry!AddInt, AddInt
<1>2. Retry!last = last
  BY <1>1 DEF Retry!last, last, Retry!AttemptsOf, AttemptsOf
<1>3. \A n, draw : Retry!backoffDelayMs(retry_policy, n, draw)
                   = backoffDelayMs(retry_policy, n, draw)
  BY DEF Retry!backoffDelayMs, backoffDelayMs, Retry!ExpDelay, ExpDelay, Retry!Round, Round,
     Retry!Clamp, Clamp, Retry!Lesser, Lesser, Retry!PowerOf2, PowerOf2
<1> QED
  BY <1>1, <1>2, <1>3

AnyAnswer == UNION {Answers(o) : o \in Ops}

\* What the requests in the server's hands have to do with the call: none is of
\* a later call, those of this call are for its operation, and an answer belongs
\* to a request of this attempt that was executed.
Bookkeeping ==
  /\ pc # "idle" => i >= 1 /\ calls >= 1 /\ result = "none"
  /\ \A r \in inbox \cup served : r.req[1] <= calls
  /\ \A r \in inbox : r.req[1] = calls => r.op = op
  /\ pc = "rpc" /\ reply # {} => \E r \in served : r.req = req /\ r.op = op

IInv == TypeOK /\ Bookkeeping /\ AnswerWasServed

----------------------------------------------------------------------------
(* Facts about the operators.                                               *)

\* An answer carries a code an RPC may end with.
LEMMA AnswerCode ==
  ASSUME NEW a \in AnyAnswer
  PROVE  a.code \in Codes \cup {OK}
<1>1. PICK o \in Ops : a \in Answers(o)
  BY DEF AnyAnswer
<1>2. CASE a \in [code : Codes, ready : {FALSE}, layout : {NoTensors}]
  BY <1>2
<1>3. CASE a \in [code : {OK}, ready : IF o = "probe" THEN BOOLEAN ELSE {FALSE},
                  layout : IF o = "infer" THEN Layouts ELSE {NoTensors}]
  BY <1>3
<1> QED
  BY <1>1, <1>2, <1>3 DEF Answers

\* The message of an OK answer says what the server said.
LEMMA MessageReady ==
  ASSUME NEW a, a.code = OK
  PROVE  Message(a).ready = a.ready
BY DEF Message, ResponseOf

\* A backoff sleeps for a number of milliseconds.
LEMMA DelayType ==
  ASSUME env \in Envs, i \in Nat, NEW draw \in 0 .. (Unit - 1)
  PROVE  backoffDelayMs(retry_policy, i, draw) \in Nat
<1>1. retry_policy \in RetryPolicy
  BY PolicyType, GrpcAssumption DEF retry_policy
<1>2. \A p \in RetryPolicy, a \in Nat, u \in Int :
        backoffDelayMs(p, a, u) \in 0 .. p.max_delay_ms
  BY DelayBound
<1>3. draw \in Int
  BY UnitAssumption
<1>4. backoffDelayMs(retry_policy, i, draw) \in 0 .. retry_policy.max_delay_ms
  BY <1>1, <1>2, <1>3
<1>5. retry_policy.max_delay_ms \in Nat
  BY <1>1, IntMaxAssumption DEF RetryPolicy
<1> QED
  BY <1>4, <1>5

----------------------------------------------------------------------------
(* The inductive step.                                                      *)

LEMMA EnterType ==
  ASSUME IInv, NEW o \in Ops, NEW inputs, Enter(o, inputs)
  PROVE  /\ op' = o /\ pc = "idle"
         /\ calls' \in 1 .. MaxCalls /\ calls' = calls + 1
         /\ \A r \in inbox \cup served : r.req[1] < calls'
BY GrpcAssumption DEF Enter, IInv, TypeOK, Bookkeeping, Req

LEMMA BeginStep ==
  ASSUME IInv, NEW o \in Ops, NEW inputs, Enter(o, inputs), Begin
  PROVE  IInv'
<1>1. /\ op' = o /\ calls' \in 1 .. MaxCalls /\ calls' = calls + 1
      /\ \A r \in inbox \cup served : r.req[1] < calls'
  BY EnterType
<1>2. TypeOK'
  BY <1>1 DEF Begin, fixed, server, IInv, TypeOK
<1>3. Bookkeeping'
  BY <1>1 DEF Begin, fixed, server, IInv, TypeOK, Bookkeeping, Req
<1>4. AnswerWasServed'
  BY <1>1 DEF Begin, AnswerWasServed
<1> QED
  BY <1>2, <1>3, <1>4 DEF IInv

LEMMA RejectedStep ==
  ASSUME IInv, NEW o \in Ops \ {"probe"}, NEW inputs, Enter(o, inputs), Rejected
  PROVE  IInv'
<1>1. /\ op' = o /\ pc = "idle" /\ calls' \in 1 .. MaxCalls /\ calls' = calls + 1
      /\ \A r \in inbox \cup served : r.req[1] < calls'
  BY EnterType
<1>2. TypeOK'
  BY <1>1 DEF Rejected, fixed, loop, server, IInv, TypeOK
<1>3. Bookkeeping'
  BY <1>1 DEF Rejected, fixed, loop, server, IInv, TypeOK, Bookkeeping, Req
<1>4. AnswerWasServed'
  BY <1>1 DEF Rejected, AnswerWasServed
<1> QED
  BY <1>2, <1>3, <1>4 DEF IInv

\* An attempt that ends with a code it may end with, and returns to the caller
\* only what an answer of this attempt said.
LEMMA EndStep ==
  ASSUME IInv, NEW code \in Codes \cup {OK}, NEW response, AttemptEnds(code, response),
         code = OK => \E a \in reply : a.code = OK /\ response.ready = a.ready
  PROVE  IInv'
<1>1. TypeOK'
  BY DEF AttemptEnds, Decoded, fixed, call, loop, server, IInv, TypeOK
<1>2. Bookkeeping'
  BY DEF AttemptEnds, fixed, call, loop, server, req, IInv, TypeOK, Bookkeeping
<1>3. AnswerWasServed'
  <2>0. UNCHANGED <<op, calls, i, served, reply>> /\ outcome' = code
    BY DEF AttemptEnds, call, loop, server
  <2>1. CASE pc' = "backoff"
    BY <2>0, <2>1 DEF AttemptEnds, AnswerWasServed, IInv, Bookkeeping
  <2>2. CASE result' = Decoded(code, response)
    <3>1. CASE code # OK
      BY <2>0, <2>2, <3>1 DEF Decoded, AnswerWasServed
    <3>2. CASE code = OK
      <4>1. PICK a \in reply : a.code = OK /\ response.ready = a.ready
        BY <3>2
      <4>2. \E r \in served : r.req = req /\ r.op = op
        BY <4>1 DEF AttemptEnds, IInv, Bookkeeping
      <4>3. op = "probe" => result' = IF a.ready THEN "value" ELSE "false"
        BY <2>2, <3>2, <4>1 DEF Decoded
      <4> QED
        BY <2>0, <4>1, <4>2, <4>3 DEF AnswerWasServed, req
    <3> QED
      BY <3>1, <3>2
  <2> QED
    BY <2>1, <2>2 DEF AttemptEnds
<1> QED
  BY <1>1, <1>2, <1>3 DEF IInv

\* Executing a request leaves the client alone.
LEMMA ExecuteStep ==
  ASSUME IInv, NEW r, Execute(r), reply' \subseteq AnyAnswer,
         \/ reply' = reply
         \/ pc = "rpc" /\ r.req = req
  PROVE  IInv'
<1>0. UNCHANGED <<env, repository, pc, op, calls, i, slept, outcome, result>>
  BY DEF Execute, fixed, call, loop, ending
<1>1. TypeOK'
  BY <1>0 DEF Execute, IInv, TypeOK, AnyAnswer
<1>2. Bookkeeping'
  BY <1>0 DEF Execute, IInv, Bookkeeping, req
<1>3. AnswerWasServed'
  BY <1>0 DEF Execute, IInv, Bookkeeping, AnswerWasServed, req
<1> QED
  BY <1>1, <1>2, <1>3 DEF IInv

\* The inductive step of everything below.
LEMMA Induction ==
  ASSUME IInv, [Next]_vars
  PROVE  IInv'
<1>1. ASSUME NEW o \in Ops, StartCall(o) PROVE IInv'
  BY <1>1, BeginStep DEF StartCall
<1>2. ASSUME NEW o \in Ops, RejectRepository(o) PROVE IInv'
  BY <1>2, RejectedStep DEF RejectRepository, RepositoryOps
<1>3. ASSUME NEW inputs \in InputLists, NEW kb \in KserveBinary, StartInfer(inputs, kb)
      PROVE  IInv'
  <2>1. Enter("infer", inputs) /\ Begin /\ "infer" \in Ops
    BY <1>3 DEF StartInfer, Ops
  <2> QED
    BY <2>1, BeginStep
<1>4. ASSUME NEW inputs \in InputLists, NEW kb \in KserveBinary, RejectInput(inputs, kb)
      PROVE  IInv'
  <2>1. Enter("infer", inputs) /\ Rejected /\ "infer" \in Ops \ {"probe"}
    BY <1>4 DEF RejectInput, Ops
  <2> QED
    BY <2>1, RejectedStep
<1>5. CASE Attempt
  <2>1. req \in Req
    BY <1>5 DEF Attempt, IInv, TypeOK, Bookkeeping, req, Req
  <2>2. TypeOK'
    BY <1>5, <2>1 DEF Attempt, fixed, call, loop, ending, IInv, TypeOK
  <2>3. Bookkeeping'
    BY <1>5 DEF Attempt, fixed, call, loop, ending, IInv, TypeOK, Bookkeeping, req
  <2>4. AnswerWasServed'
    BY <1>5 DEF Attempt, ending, call, IInv, Bookkeeping, AnswerWasServed
  <2> QED
    BY <2>2, <2>3, <2>4 DEF IInv
<1>6. CASE Answered
  <2>1. PICK a \in reply : AttemptEnds(a.code, Message(a))
    BY <1>6 DEF Answered
  <2>2. a.code \in Codes \cup {OK}
    BY <2>1, AnswerCode DEF IInv, TypeOK, AnyAnswer
  <2>3. a.code = OK => \E b \in reply : b.code = OK /\ Message(a).ready = b.ready
    BY MessageReady
  <2> QED
    <3>1. \A code \in Codes \cup {OK} : \A response :
            AttemptEnds(code, response)
            /\ (code = OK => \E b \in reply : b.code = OK /\ response.ready = b.ready)
            => IInv'
      BY EndStep
    <3> QED
      BY <2>1, <2>2, <2>3, <3>1
<1>7. CASE Unanswered
  <2>1. PICK code \in Codes, response \in {NoResponse} \cup {Message(a) : a \in reply} :
          AttemptEnds(code, response)
    BY <1>7 DEF Unanswered
  <2>2. code # OK
    BY <2>1, GrpcAssumption
  <2> QED
    BY <2>1, <2>2, EndStep
<1>8. ASSUME NEW draw \in 0 .. (Unit - 1), Backoff(draw) PROVE IInv'
  <2>1. backoffDelayMs(retry_policy, i, draw) \in Nat
    BY DelayType DEF IInv, TypeOK
  <2>2. TypeOK'
    BY <1>8, <2>1 DEF Backoff, fixed, call, server, IInv, TypeOK
  <2>3. Bookkeeping' /\ AnswerWasServed'
    BY <1>8 DEF Backoff, fixed, call, server, IInv, TypeOK, Bookkeeping, AnswerWasServed
  <2> QED
    BY <2>2, <2>3 DEF IInv
<1>9. ASSUME NEW answer \in AnyAnswer, Serve(answer) PROVE IInv'
  BY <1>9, ExecuteStep DEF Serve
<1>10. CASE ServeLate
  <2>1. PICK r \in inbox : Execute(r) /\ reply' = reply
    BY <1>10 DEF ServeLate
  <2>2. reply' \subseteq AnyAnswer
    BY <2>1 DEF IInv, TypeOK, AnyAnswer
  <2> QED
    BY <2>1, <2>2, ExecuteStep
<1>11. CASE Lose
  BY <1>11 DEF Lose, fixed, call, loop, ending, req, IInv, TypeOK, Bookkeeping, AnswerWasServed
<1>12. CASE UNCHANGED vars
  BY <1>12 DEF vars, fixed, call, loop, ending, server, req, IInv, TypeOK, Bookkeeping,
     AnswerWasServed
<1> QED
  BY <1>1, <1>2, <1>3, <1>4, <1>5, <1>6, <1>7, <1>8, <1>9, <1>10, <1>11, <1>12
     DEF Next, ClientStep, AnyAnswer

LEMMA Initially == Init => IInv
BY GrpcAssumption DEF Init, IInv, TypeOK, Bookkeeping, AnswerWasServed, Ops

----------------------------------------------------------------------------
(* The theorems.                                                            *)

\* The gRPC client keeps its types, whatever the server does: in particular no
\* request is ever sent outside a call or an attempt.
THEOREM TypeCorrect == SafeSpec => []TypeOK
<1>1. IInv => TypeOK
  BY DEF IInv
<1> QED
  BY <1>1, Initially, Induction, PTL DEF SafeSpec

\* A call returns only what the server answered to its last attempt, and a probe
\* never takes "down" for "not ready".
THEOREM ServedAnswer == SafeSpec => []AnswerWasServed
<1>1. IInv => AnswerWasServed
  BY DEF IInv
<1> QED
  BY <1>1, Initially, Induction, PTL DEF SafeSpec

\* Every behaviour of the gRPC client is one of runWithRetry.
THEOREM RefinesRetryLoop == SafeSpec => ImplementsRetryLoop
<1> USE SameFunctions DEF phase
<1>1. Init => Retry!Init
  BY DEF Init, Retry!Init
<1>2. ASSUME IInv, [Next]_vars
      PROVE  [Retry!Next]_Retry!vars
  <2>1. ASSUME NEW o, NEW inputs, Enter(o, inputs), Begin PROVE Retry!Call
    BY <2>1 DEF Enter, Begin, fixed, Retry!Call
  <2>2. ASSUME Rejected PROVE UNCHANGED Retry!vars
    BY <2>2 DEF Rejected, fixed, loop, Retry!vars
  <2>3. ASSUME NEW code \in Codes \cup {OK}, NEW response, AttemptEnds(code, response)
        PROVE  Retry!AttemptReturns(code)
    BY <2>3 DEF AttemptEnds, fixed, loop, isRetryableGrpcStatus, OK,
       Retry!AttemptReturns
  <2>4. ASSUME NEW draw \in 0 .. (Unit - 1), Backoff(draw) PROVE Retry!Backoff(draw)
    BY <2>4 DEF Backoff, fixed, Retry!Backoff
  <2>5. ASSUME UNCHANGED <<fixed, loop, ending>>, phase' = phase PROVE UNCHANGED Retry!vars
    BY <2>5 DEF fixed, loop, ending, Retry!vars
  <2>6. CASE Attempt
    BY <2>5, <2>6 DEF Attempt
  <2>7. CASE Answered
    <3>1. PICK a \in reply : AttemptEnds(a.code, Message(a))
      BY <2>7 DEF Answered
    <3>2. a.code \in Codes \cup {OK}
      BY <1>2, <3>1, AnswerCode DEF IInv, TypeOK, AnyAnswer
    <3>3. Retry!AttemptReturns(a.code)
      BY <2>3, <3>1, <3>2
    <3> QED
      BY <3>2, <3>3 DEF Retry!Next
  <2>8. CASE Unanswered
    BY <2>3, <2>8 DEF Unanswered, Retry!Next
  <2>9. ASSUME NEW r, Execute(r) PROVE UNCHANGED Retry!vars
    BY <2>5, <2>9 DEF Execute
  <2>10. CASE Lose
    BY <2>5, <2>10 DEF Lose
  <2>11. CASE UNCHANGED vars
    BY <2>5, <2>11 DEF vars
  <2> QED
    BY <1>2, <2>1, <2>2, <2>4, <2>6, <2>7, <2>8, <2>9, <2>10, <2>11
       DEF Next, ClientStep, StartCall, StartInfer, RejectInput, RejectRepository,
           Serve, ServeLate, Retry!Next
<1> QED
  BY <1>1, <1>2, Initially, Induction, PTL DEF SafeSpec, ImplementsRetryLoop, Retry!SafeSpec

----------------------------------------------------------------------------
(* Inputs.                                                                  *)

\* A request carries the inputs: a server finds in it the bytes of each.
Carries(message, inputs) ==
  ServerReads(message) = [n \in 1 .. Len(inputs) |-> inputs[n].data]

\* No input is of the one datatype whose typed field the server does not read.
NoBool == \A inputs \in InputLists : \A n \in 1 .. Len(inputs) : inputs[n].datatype # "BOOL"

\* The datatypes of the typed request fields have a width, and all but BOOL go
\* where the server reads them.
LEMMA RequestFields ==
  ASSUME NEW T \in DOMAIN EncodeField
  PROVE  /\ T \in DOMAIN Width
         /\ EncodeField[T] \in Fields
         /\ T # "BOOL" => EncodeField[T] = ServerField[T]
BY DEF EncodeField, Width, ServerField, Fields

\* What infer sends carries its inputs, in either form.
LEMMA RequestCarries ==
  ASSUME NoBool, NEW inputs \in InputLists, NEW raw_contents \in BOOLEAN,
         \A n \in 1 .. Len(inputs) : ~InputThrows(inputs[n], raw_contents)
  PROVE  Carries(RequestOf(inputs, raw_contents), inputs)
<1> DEFINE message == RequestOf(inputs, raw_contents)
<1>0. message = RequestOf(inputs, raw_contents)
  OBVIOUS
<1>1. inputs \in Seq(InputType) /\ Len(inputs) \in Nat
  BY InputsAssumption
<1>2. ASSUME NEW n \in 1 .. Len(inputs)
      PROVE  /\ inputs[n] \in InputType /\ inputs[n].datatype # "BOOL"
             /\ inputs[n].datatype \in DOMAIN Width =>
                  ElementsOf(inputs[n].data, inputs[n].datatype)
  BY <1>1, InputsAssumption, ElementOfSeq DEF NoBool
<1>3. /\ Len(message.inputs) = Len(inputs)
      /\ \A n \in 1 .. Len(inputs) : message.inputs[n].datatype = inputs[n].datatype
      /\ \A n \in 1 .. Len(inputs) : ~raw_contents =>
           message.inputs[n].contents = encodeInput(inputs[n])
  BY <1>1 DEF RequestOf
<1>4. CASE raw_contents
  <2>1. message.raw_input_contents = [n \in 1 .. Len(inputs) |-> inputs[n].data]
    BY <1>4 DEF RequestOf
  <2>2. Len(message.raw_input_contents) = Len(inputs)
    BY <1>1, <2>1
  <2>3. ASSUME NEW n \in 1 .. Len(inputs)
        PROVE  Len(message.raw_input_contents) > 0 /\ message.raw_input_contents[n] = inputs[n].data
    BY <1>1, <2>1, <2>2
  <2> HIDE DEF message
  <2> QED
    BY <1>0, <1>3, <2>3 DEF ServerReads, Carries
<1>5. CASE ~raw_contents
  <2>1. Len(message.raw_input_contents) = 0
    BY <1>5 DEF RequestOf
  <2>2. ASSUME NEW n \in 1 .. Len(inputs)
        PROVE  LET T == message.inputs[n].datatype IN
               writeArray(message.inputs[n].contents[ServerField[T]], T) = inputs[n].data
    <3> DEFINE T == inputs[n].datatype
               data == inputs[n].data
    <3>1. T \in DOMAIN EncodeField /\ ~Misaligned(data, T) /\ T # "BOOL"
      BY <1>2, <1>5 DEF InputThrows, EncodeThrows
    <3>2. T \in DOMAIN Width /\ EncodeField[T] = ServerField[T] /\ EncodeField[T] \in Fields
      BY <3>1, RequestFields
    <3>3. encodeInput(inputs[n])[ServerField[T]] = fillContents(data, T)
      BY <3>2 DEF encodeInput, NoContents
    <3>4. ElementsOf(data, T) /\ data \in Seq(Byte)
      BY <1>2, <3>2 DEF InputType
    <3>5. writeArray(readArray(data, T), T) = data
      BY <3>1, <3>2, <3>4, ReadThenWrite
    <3> HIDE DEF message
    <3> QED
      BY <1>3, <1>5, <3>3, <3>5 DEF fillContents
  <2> HIDE DEF message
  <2> QED
    BY <1>0, <1>3, <2>1, <2>2 DEF ServerReads, Carries
<1> QED
  BY <1>4, <1>5

\* The message of a call, and every request of it the server holds or has
\* executed, carries the inputs the caller passed to that call.
Sent ==
  /\ asked \in Seq(InputLists \cup {<<>>}) /\ Len(asked) = calls
  /\ pc # "idle" /\ op = "infer" => Carries(request, asked[calls])
  /\ \A r \in inbox \cup served : r.op = "infer" => Carries(r.request, asked[r.req[1]])

\* A call begins: the earlier entries of asked stay as they are.
LEMMA EnterSent ==
  ASSUME IInv, Sent, NEW o \in Ops, NEW inputs \in InputLists \cup {<<>>}, Enter(o, inputs),
         UNCHANGED <<inbox, served>>,
         pc' # "idle" /\ o = "infer" => Carries(request', inputs)
  PROVE  Sent'
<1> DEFINE Lists == InputLists \cup {<<>>}
<1>1. /\ asked \in Seq(Lists) /\ Len(asked) = calls /\ calls \in Nat
      /\ op' = o /\ calls' = calls + 1 /\ asked' = Append(asked, inputs)
      /\ \A r \in inbox \cup served : r.req \in Req /\ r.req[1] <= calls
  BY GrpcAssumption DEF Enter, IInv, TypeOK, Bookkeeping, Sent
<1>2. /\ asked' \in Seq(Lists) /\ Len(asked') = calls'
      /\ \A n \in 1 .. calls : asked'[n] = asked[n]
      /\ asked'[calls'] = inputs
  BY <1>1, AppendProperties
<1>3. \A r \in inbox \cup served : r.op = "infer" => Carries(r.request, asked'[r.req[1]])
  <2> TAKE r \in inbox \cup served
  <2>1. r.req[1] \in 1 .. calls
    BY <1>1 DEF Req
  <2> QED
    BY <1>2, <2>1 DEF Sent
<1> QED
  BY <1>1, <1>2, <1>3 DEF Sent

\* Every step keeps it.
LEMMA SentNext ==
  ASSUME NoBool, IInv, Sent, [Next]_vars
  PROVE  Sent'
<1>1. ASSUME NEW o \in Ops, StartCall(o) PROVE Sent'
  BY <1>1, EnterSent DEF StartCall, Begin, server
<1>2. ASSUME NEW o \in Ops, RejectRepository(o) PROVE Sent'
  BY <1>2, EnterSent DEF RejectRepository, Rejected, Enter, server
<1>3. ASSUME NEW inputs \in InputLists, NEW kserve_binary \in KserveBinary,
             StartInfer(inputs, kserve_binary)
      PROVE  Sent'
  <2>1. rawContentsEnabled(kserve_binary) \in BOOLEAN
    BY DEF rawContentsEnabled
  <2>2. Carries(request', inputs)
    BY <1>3, <2>1, RequestCarries DEF StartInfer
  <2> QED
    BY <1>3, <2>2, EnterSent DEF StartInfer, Begin, server, Ops
<1>4. ASSUME NEW inputs \in InputLists, NEW kserve_binary \in KserveBinary,
             RejectInput(inputs, kserve_binary)
      PROVE  Sent'
  BY <1>4, EnterSent DEF RejectInput, Rejected, Enter, server, Ops
<1>5. CASE Attempt
  <2>1. /\ pc = "start" /\ pc' = "rpc" /\ UNCHANGED <<op, calls, request, asked, served>>
        /\ inbox' = inbox \cup {[req |-> req, op |-> op, request |-> request]}
    BY <1>5 DEF Attempt, call
  <2> QED
    BY <2>1 DEF Sent, req
<1>6. ASSUME NEW code, NEW response, AttemptEnds(code, response) PROVE Sent'
  <2>1. UNCHANGED <<op, calls, request, asked, inbox, served>> /\ pc # "idle"
    BY <1>6 DEF AttemptEnds, call, server
  <2> QED
    BY <2>1 DEF Sent
<1>7. ASSUME NEW draw, Backoff(draw) PROVE Sent'
  <2>1. UNCHANGED <<op, calls, request, asked, inbox, served>> /\ pc # "idle"
    BY <1>7 DEF Backoff, call, server
  <2> QED
    BY <2>1 DEF Sent
<1>8. ASSUME NEW r, Execute(r) PROVE Sent'
  <2>1. /\ UNCHANGED <<op, calls, request, asked, pc>>
        /\ inbox' \cup served' = inbox \cup served
    BY <1>8 DEF Execute, call
  <2> QED
    BY <2>1 DEF Sent
<1>9. CASE Lose
  <2>1. /\ UNCHANGED <<op, calls, request, asked, pc, served>> /\ inbox' \subseteq inbox
    BY <1>9 DEF Lose, call
  <2> QED
    BY <2>1 DEF Sent
<1>10. CASE UNCHANGED vars
  <2>1. UNCHANGED <<op, calls, request, asked, pc, served, inbox>>
    BY <1>10 DEF vars, call, server
  <2> QED
    BY <2>1 DEF Sent
<1> QED
  BY <1>1, <1>2, <1>3, <1>4, <1>5, <1>6, <1>7, <1>8, <1>9, <1>10
     DEF Next, ClientStep, Answered, Unanswered, Serve, ServeLate

\* Unless an input is of the datatype BOOL, the server finds in whatever it
\* executes the bytes the caller passed, in raw and in typed form.
THEOREM InputsReachServer ==
  ASSUME NoBool
  PROVE  SafeSpec => []InputsArrive
<1>1. Init => Sent
  <2>1. Init => <<>> \in Seq(InputLists \cup {<<>>}) /\ Len(<<>>) = 0
    BY EmptySeq
  <2> QED
    BY <2>1 DEF Init, Sent
<1>2. IInv /\ Sent /\ [Next]_vars => Sent'
  BY SentNext
<1>3. Sent => InputsArrive
  BY DEF Sent, InputsArrive, Carries
<1> QED
  BY <1>1, <1>2, <1>3, Initially, Induction, PTL DEF SafeSpec

----------------------------------------------------------------------------
(* Outputs.                                                                 *)

\* The field a datatype is decoded from is the one a server fills.
LEMMA ResponseFields ==
  ASSUME NEW T \in DOMAIN DecodeField
  PROVE  /\ T \in DOMAIN Width /\ T \in DOMAIN ServerField /\ T \in DOMAIN EncodeField
         /\ DecodeField[T] = ServerField[T] /\ DecodeField[T] \in Fields
         /\ "fp64_contents" \in Fields
         /\ T # "FP64" => DecodeField[T] # "fp64_contents"
BY DEF DecodeField, EncodeField, Width, ServerField, Fields

\* contentsToBytes yields the values a server put into the field of the datatype
\* or, but for BOOL, into fp64_contents.
LEMMA ContentsMean ==
  ASSUME NEW T \in DOMAIN DecodeField, NEW S, NEW values \in Seq(S),
         NEW f \in {DecodeField[T], "fp64_contents"}, f = DecodeField[T] \/ T # "BOOL"
  PROVE  contentsToBytes([NoContents EXCEPT ![f] = values], T) = appendBytes(T, values)
<1> DEFINE contents == [NoContents EXCEPT ![f] = values]
<1>1. /\ DecodeField[T] \in Fields /\ "fp64_contents" \in Fields
      /\ T # "FP64" => DecodeField[T] # "fp64_contents"
  BY ResponseFields
<1>2. \A g \in Fields : contents[g] = IF g = f THEN values ELSE <<>>
  BY <1>1 DEF NoContents
<1>3. Len(<<>>) = 0 /\ Len(values) \in Nat /\ (Len(values) = 0 => values = <<>>)
  BY EmptySeq
<1> HIDE DEF contents
<1>4. CASE f = DecodeField[T]
  <2>1. contents[DecodeField[T]] = values
    BY <1>1, <1>2, <1>4
  <2>2. Len(values) = 0 => contents["fp64_contents"] = values
    BY <1>1, <1>2, <1>3
  <2>3. (IF Len(values) > 0 \/ T = "BOOL" THEN values ELSE contents["fp64_contents"]) = values
    BY <1>3, <2>2
  <2> QED
    BY <2>1, <2>3 DEF contentsToBytes, contents
<1>5. CASE f # DecodeField[T]
  <2>1. Len(contents[DecodeField[T]]) = 0 /\ T # "BOOL" /\ contents["fp64_contents"] = values
    BY <1>1, <1>2, <1>3, <1>5
  <2> QED
    BY <2>1 DEF contentsToBytes, contents
<1> QED
  BY <1>4, <1>5

\* The elements of a tensor as the server lays them out, and what appendBytes
\* makes of them.
Laid(tensor, style) ==
  IF style = "fp64" THEN AsDoubles(tensor.values, tensor.datatype) ELSE tensor.values
Cast(range) == [n \in 1 .. Len(range) |-> static_cast(range[n])]

\* They are as many as the tensor has, and the exact ones are unchanged.
LEMMA CastKeepsExact ==
  ASSUME NEW tensor, tensor.values \in Seq(Values), NEW style
  PROVE  LET values == tensor.values
             range == Laid(tensor, style)
         IN /\ range \in Seq(Values \cup {TooLarge})
            /\ Cast(range) \in Seq(Values) /\ Len(Cast(range)) = Len(values)
            /\ \A n \in 1 .. Len(values) :
                 Exact(values[n], tensor.datatype, style) => Cast(range)[n] = values[n]
<1> DEFINE values == tensor.values
           range == Laid(tensor, style)
           T == tensor.datatype
           Doubles == Values \cup {TooLarge}
<1>0. TooLarge \notin Values /\ Undefined \in Values
  BY DoublesAssumption
<1>1. Len(values) \in Nat /\ \A n \in 1 .. Len(values) : values[n] \in Values
  BY ElementOfSeq
<1>2. /\ range \in Seq(Doubles) /\ Len(range) = Len(values)
      /\ \A n \in 1 .. Len(values) : range[n] \in Doubles
      /\ \A n \in 1 .. Len(values) : Exact(values[n], T, style) => range[n] = values[n]
  <2>1. CASE style = "fp64" /\ T \in LongInts
    <3>1. range = [n \in 1 .. Len(values) |-> Nearest[T][values[n]]]
      BY <2>1 DEF Laid, AsDoubles
    <3>2. \A n \in 1 .. Len(values) : Nearest[T][values[n]] \in Doubles
      BY <1>1, <2>1, DoublesAssumption
    <3>3. Len(range) = Len(values) /\ \A n \in 1 .. Len(values) : range[n] = Nearest[T][values[n]]
      BY <1>1, <3>1
    <3>4. range \in Seq(Doubles)
      BY <1>1, <3>1, <3>2
    <3> HIDE DEF range, values, T, Doubles
    <3> QED
      BY <2>1, <3>2, <3>3, <3>4 DEF Exact
  <2>2. CASE ~(style = "fp64" /\ T \in LongInts)
    <3>1. range = values
      BY <2>2 DEF Laid, AsDoubles
    <3> QED
      BY <1>1, <3>1
  <2> QED
    BY <2>1, <2>2
<1> HIDE DEF range, values, T, Doubles
<1>3. \A n \in 1 .. Len(values) : static_cast(range[n]) \in Values
  BY <1>0, <1>2 DEF static_cast, Doubles
<1>4. Cast(range) = [n \in 1 .. Len(values) |-> static_cast(range[n])]
  BY <1>2 DEF Cast
<1>5. Cast(range) \in Seq(Values) /\ Len(Cast(range)) = Len(values)
  BY <1>1, <1>3, <1>4
<1>6. ASSUME NEW n \in 1 .. Len(values), Exact(values[n], T, style)
      PROVE  Cast(range)[n] = values[n]
  <2>1. range[n] = values[n] /\ values[n] # TooLarge
    BY <1>0, <1>1, <1>2, <1>6
  <2> QED
    BY <1>4, <2>1 DEF static_cast
<1> QED
  BY <1>2, <1>5, <1>6 DEF range, values, T, Doubles

\* Bytes written of a range that agrees with the tensor in what is exact.
LEMMA BytesReturned ==
  ASSUME NEW tensor, tensor.values \in Seq(Values), tensor.datatype \in DOMAIN Width, NEW style,
         NEW range \in Seq(Values), Len(range) = Len(tensor.values),
         \A n \in 1 .. Len(range) :
           Exact(tensor.values[n], tensor.datatype, style) => range[n] = tensor.values[n],
         NEW output, output.datatype = tensor.datatype,
         output.data = writeArray(range, tensor.datatype)
  PROVE  Returned(output, tensor, style)
<1> DEFINE values == tensor.values
           T == tensor.datatype
           bytes == writeArray(values, T)
           got == writeArray(range, T)
           w == Width[T]
<1>1. w \in {1, 2, 4, 8} /\ Len(values) \in Nat
  BY Widths
<1>2. /\ Len(bytes) = Len(values) * w /\ Len(got) = Len(values) * w
      /\ Len(values) * w \in Nat
  BY WriteType
<1>3. ASSUME NEW m \in 1 .. Len(values) * w, Exact(bytes[m][2], T, style)
      PROVE  got[m] = bytes[m]
  <2> DEFINE n == (m - 1) \div w + 1
             k == ((m - 1) % w) + 1
  <2>1. n \in 1 .. Len(values)
    BY <1>1, Division
  <2>2. bytes[m] = <<T, values[n], k>> /\ got[m] = <<T, range[n], k>>
    BY DEF writeArray
  <2> HIDE DEF n, k, bytes, got, values, T
  <2>3. bytes[m][2] = values[n]
    BY <2>2
  <2>4. range[n] = values[n]
    BY <1>3, <2>1, <2>3 DEF values, T
  <2> QED
    BY <2>2, <2>4
<1> HIDE DEF bytes, got, values, w
<1> QED
  BY <1>2, <1>3 DEF Returned, bytes, got, values

\* What infer makes of a response, when it does not throw, is what the server
\* meant, in whichever layout.
LEMMA ResponseMeans ==
  ASSUME NEW tensors \in TensorLists, NEW style \in Styles, Expressible(tensors, style),
         NEW ready, ~OutputThrows(ResponseOf(ready, tensors, style))
  PROVE  Meant(OutputsOf(ResponseOf(ready, tensors, style)), tensors, style)
<1> DEFINE response == ResponseOf(ready, tensors, style)
           RawCount == CASE style = "raw" -> Len(tensors)
                         [] style = "mixed" /\ Len(tensors) > 0 -> 1
                         [] OTHER -> 0
           FieldOf(T) == IF style = "fp64" THEN "fp64_contents" ELSE ServerField[T]
<1>0. response = ResponseOf(ready, tensors, style)
  OBVIOUS
<1>1. tensors \in Seq(TensorType) /\ Len(tensors) \in Nat
  BY TensorsAssumption
<1>2. ASSUME NEW n \in 1 .. Len(tensors)
      PROVE  /\ tensors[n].values \in Seq(Values)
             /\ DatatypeOf(tensors[n].tag) = tensors[n].datatype
  <2>1. tensors[n] \in TensorType
    BY <1>1, ElementOfSeq
  <2> QED
    BY <2>1, TensorsAssumption DEF TensorType
<1>3. RawCount \in 0 .. Len(tensors)
  <2>1. CASE style = "raw"
    BY <1>1, <2>1
  <2>2. CASE style = "mixed" /\ Len(tensors) > 0
    BY <1>1, <2>2
  <2>3. CASE style # "raw" /\ ~(style = "mixed" /\ Len(tensors) > 0)
    BY <1>1, <2>3
  <2> QED
    BY <2>1, <2>2, <2>3
<1>4. /\ response.outputs = [n \in 1 .. Len(tensors) |->
           [tag |-> tensors[n].tag,
            contents |-> IF n <= RawCount THEN NoContents
                         ELSE [NoContents EXCEPT ![FieldOf(tensors[n].datatype)] =
                                 Laid(tensors[n], style)]]]
      /\ response.raw_output_contents = [n \in 1 .. RawCount |->
           writeArray(tensors[n].values, tensors[n].datatype)]
  BY Zenon DEF ResponseOf, Laid
<1>5. Len(response.outputs) = Len(tensors) /\ Len(response.raw_output_contents) = RawCount
  <2> HIDE DEF RawCount, response
  <2> QED
    BY <1>1, <1>3, <1>4
<1> HIDE DEF RawCount, FieldOf
<1>6. ASSUME NEW n \in 1 .. Len(tensors)
      PROVE  /\ DatatypeOf(response.outputs[n].tag) = tensors[n].datatype
             /\ IsRaw(response, n) <=> n <= RawCount
             /\ IsRaw(response, n) => response.raw_output_contents[n] =
                  writeArray(tensors[n].values, tensors[n].datatype)
             /\ ~IsRaw(response, n) => response.outputs[n].contents =
                  [NoContents EXCEPT ![FieldOf(tensors[n].datatype)] = Laid(tensors[n], style)]
  <2> DEFINE contents == IF n <= RawCount THEN NoContents
                         ELSE [NoContents EXCEPT ![FieldOf(tensors[n].datatype)] =
                                 Laid(tensors[n], style)]
             output == response.outputs[n]
  <2>0. output = [tag |-> tensors[n].tag, contents |-> contents]
    BY <1>4, Zenon
  <2>1. output.tag = tensors[n].tag /\ output.contents = contents
    <3> HIDE DEF contents, output
    <3> QED
      BY <2>0
  <2>2. IsRaw(response, n) <=> n <= RawCount
    BY <1>5 DEF IsRaw
  <2>3. IsRaw(response, n) => n \in 1 .. RawCount
    BY <1>3, <2>2
  <2>4. IsRaw(response, n) => response.raw_output_contents[n] =
          writeArray(tensors[n].values, tensors[n].datatype)
    BY <1>4, <2>3, Zenon
  <2>5. ~IsRaw(response, n) => response.outputs[n].contents =
          [NoContents EXCEPT ![FieldOf(tensors[n].datatype)] = Laid(tensors[n], style)]
    BY <2>1, <2>2, Zenon
  <2>6. DatatypeOf(response.outputs[n].tag) = tensors[n].datatype
    BY <1>2, <2>1, Zenon
  <2> QED
    BY <2>2, <2>4, <2>5, <2>6
<1>7. ASSUME NEW n \in 1 .. Len(tensors), ~IsRaw(response, n)
      PROVE  /\ tensors[n].datatype \in DOMAIN Width
             /\ contentsToBytes(response.outputs[n].contents, tensors[n].datatype)
                  = appendBytes(tensors[n].datatype, Laid(tensors[n], style))
  <2> DEFINE T == tensors[n].datatype
  <2>1. T \in DOMAIN DecodeField
    BY <1>5, <1>6, <1>7 DEF OutputThrows
  <2>2. style = "fp64" => T \in DOMAIN EncodeField \ {"BOOL"}
    BY Zenon DEF Expressible
  <2>3. /\ FieldOf(T) \in {DecodeField[T], "fp64_contents"}
        /\ FieldOf(T) = DecodeField[T] \/ T # "BOOL"
    BY <2>1, <2>2, ResponseFields DEF FieldOf
  <2>4. Laid(tensors[n], style) \in Seq(Values \cup {TooLarge})
    BY <1>2, CastKeepsExact
  <2>5. contentsToBytes([NoContents EXCEPT ![FieldOf(T)] = Laid(tensors[n], style)], T)
          = appendBytes(T, Laid(tensors[n], style))
    BY <2>1, <2>3, <2>4, ContentsMean
  <2>6. T \in DOMAIN Width
    BY <2>1, ResponseFields
  <2> QED
    BY <1>6, <1>7, <2>5, <2>6, Zenon
<1> DEFINE out == OutputsOf(response)
           Data(n, T) == IF IsRaw(response, n) THEN response.raw_output_contents[n]
                         ELSE contentsToBytes(response.outputs[n].contents, T)
<1> HIDE DEF response
<1>8. /\ Len(out) = Len(tensors)
      /\ \A n \in 1 .. Len(tensors) :
           /\ out[n].datatype = tensors[n].datatype
           /\ out[n].data = Data(n, tensors[n].datatype)
  <2> DEFINE Tag(n) == DatatypeOf(response.outputs[n].tag)
  <2>1. out = [n \in 1 .. Len(tensors) |-> [datatype |-> Tag(n), data |-> Data(n, Tag(n))]]
    BY <1>5, Zenon DEF OutputsOf
  <2>2. \A n \in 1 .. Len(tensors) : Tag(n) = tensors[n].datatype
    BY <1>6
  <2> HIDE DEF out, Data, Tag
  <2> QED
    BY <1>1, <2>1, <2>2
<1> HIDE DEF out
<1>9. ASSUME NEW n \in 1 .. Len(tensors) PROVE Returned(out[n], tensors[n], style)
  <2> DEFINE T == tensors[n].datatype
             values == tensors[n].values
  <2>0. values \in Seq(Values) /\ out[n].datatype = T
    BY <1>2, <1>8
  <2>1. CASE IsRaw(response, n)
    <3>1. out[n].data = writeArray(values, T)
      BY <1>6, <1>8, <2>1, Zenon
    <3>2. T \in DOMAIN Width
      <4>1. n <= RawCount
        BY <1>6, <2>1
      <4>2. style = "raw" \/ (style = "mixed" /\ n = 1)
        BY <1>1, <4>1 DEF RawCount
      <4> QED
        BY <4>2, Zenon DEF Expressible
    <3> QED
      BY <2>0, <3>1, <3>2, BytesReturned
  <2>2. CASE ~IsRaw(response, n)
    <3> DEFINE range == Cast(Laid(tensors[n], style))
    <3>1. out[n].data = appendBytes(T, Laid(tensors[n], style)) /\ T \in DOMAIN Width
      BY <1>7, <1>8, <2>2, Zenon
    <3>2. out[n].data = writeArray(range, T)
      BY <3>1, Zenon DEF appendBytes, Cast
    <3>3. /\ range \in Seq(Values) /\ Len(range) = Len(values)
          /\ \A k \in 1 .. Len(values) : Exact(values[k], T, style) => range[k] = values[k]
      BY <2>0, CastKeepsExact
    <3> HIDE DEF range
    <3> QED
      BY <2>0, <3>1, <3>2, <3>3, BytesReturned
  <2> QED
    BY <2>1, <2>2
<1> QED
  BY <1>0, <1>8, <1>9 DEF Meant, out

\* An answer in hand is one to the operation being called.
Answering == pc = "rpc" => reply \subseteq Answers(op)

\* An infer that ends with a value hands out what the answer meant.
LEMMA EndReturns ==
  ASSUME NEW a \in reply, reply \subseteq Answers(op), AttemptEnds(a.code, Message(a)),
         result = "none"
  PROVE  InferReturnsTensors'
<1> SUFFICES ASSUME op' = "infer", result' = "value"
             PROVE  \E b \in reply' : Meant(outputs', b.layout[1], b.layout[2])
  BY DEF InferReturnsTensors
<1>1. /\ UNCHANGED <<op, reply>> /\ op = "infer"
      /\ result' = Decoded(a.code, Message(a))
      /\ outputs' = OutputsOf(Message(a))
  BY DEF AttemptEnds, call, server
<1>2. a.code = OK /\ ~OutputThrows(Message(a))
  BY <1>1 DEF Decoded
<1>3. a \in Answers("infer")
  BY <1>1
<1>4. a.layout \in Layouts
  <2>1. CASE a \in [code : Codes, ready : {FALSE}, layout : {NoTensors}]
    BY <1>2, <2>1, GrpcAssumption
  <2>2. CASE a \in [code : {OK}, ready : {FALSE}, layout : Layouts]
    BY <2>2
  <2> QED
    BY <1>3, <2>1, <2>2 DEF Answers
<1> DEFINE tensors == a.layout[1]
           style == a.layout[2]
<1>5. tensors \in TensorLists /\ style \in Styles /\ Expressible(tensors, style)
  BY <1>4 DEF Layouts
<1>6. Message(a) = ResponseOf(a.ready, tensors, style)
  BY <1>2 DEF Message
<1>7. Meant(OutputsOf(Message(a)), tensors, style)
  BY <1>2, <1>5, <1>6, ResponseMeans
<1> QED
  BY <1>1, <1>7

\* Every step keeps the two.
LEMMA ReturnsNext ==
  ASSUME IInv, Answering, InferReturnsTensors, [Next]_vars
  PROVE  Answering' /\ InferReturnsTensors'
<1>1. ASSUME pc' # "rpc", result' \notin {"value"}
      PROVE  Answering' /\ InferReturnsTensors'
  BY <1>1 DEF Answering, InferReturnsTensors
<1>2. ASSUME NEW o, NEW inputs, Enter(o, inputs), Begin \/ Rejected
      PROVE  Answering' /\ InferReturnsTensors'
  BY <1>1, <1>2 DEF Enter, Begin, Rejected
<1>3. CASE Attempt
  <2>1. pc = "start" /\ pc' = "rpc" /\ reply' = {} /\ UNCHANGED <<op, result>>
    BY <1>3 DEF Attempt, call, ending
  <2> QED
    BY <2>1 DEF Answering, InferReturnsTensors, IInv, Bookkeeping
<1>4. CASE Answered
  <2>1. PICK a \in reply : AttemptEnds(a.code, Message(a))
    BY <1>4 DEF Answered
  <2>2. pc = "rpc" /\ pc' # "rpc" /\ result = "none"
    BY <2>1 DEF AttemptEnds, IInv, Bookkeeping
  <2> QED
    BY <2>1, <2>2, EndReturns DEF Answering
<1>5. CASE Unanswered
  <2>1. PICK code \in Codes, response \in {NoResponse} \cup {Message(a) : a \in reply} :
          AttemptEnds(code, response)
    BY <1>5 DEF Unanswered
  <2>2. pc' # "rpc" /\ result' \in {"none", "throw"}
    BY <2>1, GrpcAssumption DEF AttemptEnds, Decoded, IInv, Bookkeeping
  <2> QED
    BY <1>1, <2>2
<1>6. ASSUME NEW draw, Backoff(draw) PROVE Answering' /\ InferReturnsTensors'
  <2>1. pc' = "start" /\ result' = "none"
    BY <1>6 DEF Backoff, IInv, Bookkeeping
  <2> QED
    BY <1>1, <2>1
<1>7. ASSUME NEW answer, Serve(answer) PROVE Answering' /\ InferReturnsTensors'
  <2>1. PICK r \in inbox :
          r.req = req /\ answer \in Answers(r.op) /\ Execute(r) /\ reply' = {answer}
    BY <1>7 DEF Serve
  <2>2. pc = "rpc" /\ UNCHANGED <<op, result, pc>>
    BY <1>7, <2>1 DEF Serve, Execute, call, ending
  <2>3. r.op = op
    BY <2>1 DEF IInv, Bookkeeping, req
  <2> QED
    BY <2>1, <2>2, <2>3 DEF Answering, InferReturnsTensors, IInv, Bookkeeping
<1>8. CASE ServeLate \/ Lose \/ UNCHANGED vars
  <2>1. UNCHANGED <<op, result, outputs, reply, pc>>
    BY <1>8 DEF ServeLate, Execute, Lose, vars, call, ending, server
  <2> QED
    BY <2>1 DEF Answering, InferReturnsTensors
<1> QED
  BY <1>2, <1>3, <1>4, <1>5, <1>6, <1>7, <1>8
     DEF Next, ClientStep, StartCall, StartInfer, RejectInput, RejectRepository

\* infer returns the server's tensors, whatever their layout, byte for byte but
\* for the 64-bit integers among widened ones that no double equals.
THEOREM TensorsReturned == SafeSpec => []InferReturnsTensors
<1>1. Init => Answering /\ InferReturnsTensors
  BY DEF Init, Answering, InferReturnsTensors
<1>2. IInv /\ Answering /\ InferReturnsTensors /\ [Next]_vars =>
        Answering' /\ InferReturnsTensors'
  BY ReturnsNext
<1> QED
  BY <1>1, <1>2, Initially, Induction, PTL DEF SafeSpec
============================================================================
