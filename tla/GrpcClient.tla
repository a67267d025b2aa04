---------------------------- MODULE GrpcClient -----------------------------
(***************************************************************************)
(* GrpcClient of src/KserveGrpcClient.cpp over the gRPC library, and the   *)
(* server.  Every attempt is a unary RPC of its own: the library never     *)
(* gives a reply to another attempt, but a deadline may expire before,     *)
(* while or after the server executes the request, and a request whose     *)
(* attempt has ended may still be executed.                                *)
(***************************************************************************)
EXTENDS KserveRetry, GrpcContents

CONSTANTS
  Envs,        \* the environments a client may be constructed in
  Builds,      \* whether KSERVE_CLIENT_PROTO_REPOSITORY is defined
  MaxCalls,    \* bound on the calls of a behaviour
  InputLists,  \* the arguments infer may be called with
  TensorLists, \* the tensors a server may answer infer with
  Codes,       \* the codes other than OK an RPC may end with
  None,        \* no attempt of the call has ended yet
  Threw        \* never an outcome here: an attempt returns a grpc::Status

OK == 0
DEADLINE_EXCEEDED == 4

ASSUME GrpcAssumption ==
  /\ Envs \subseteq RetryEnv
  /\ Builds \subseteq BOOLEAN
  /\ MaxCalls \in Nat
  /\ Codes \subseteq Nat \ {OK} /\ DEADLINE_EXCEEDED \in Codes
  /\ None \notin Nat /\ Threw \notin Nat /\ None # Threw

\* Callers pass elements of the datatype they state.
ASSUME InputsAssumption ==
  \A inputs \in InputLists :
    /\ inputs \in Seq(InputType)
    /\ \A n \in 1 .. Len(inputs) : inputs[n].datatype \in DOMAIN Width =>
         ElementsOf(inputs[n].data, inputs[n].datatype)

\* A server states the datatype of a tensor in a way the client understands.
ASSUME TensorsAssumption ==
  \A tensors \in TensorLists :
    /\ tensors \in Seq(TensorType)
    /\ \A n \in 1 .. Len(tensors) : DatatypeOf(tensors[n].tag) = tensors[n].datatype

VARIABLES
  env,        \* the KSERVE_* variables the policy was read from
  repository, \* this build's choice from Builds
  pc,         \* where the client is
  op,         \* the operation being called, or called last
  calls,      \* calls started
  i,          \* the retry loop's counter
  slept,      \* milliseconds this call has slept
  outcome,    \* how the latest attempt ended: None or a code
  result,     \* how the call ended
  outputs,    \* what infer returned
  request,    \* the message of this call, the same in every attempt
  asked,      \* history: the inputs of each call
  inbox,      \* requests sent and not executed
  served,     \* requests executed
  reply       \* the server's answer to this attempt, none or one

fixed == <<env, repository>>
call == <<op, calls, request, asked>>
loop == <<i, slept>>
ending == <<outcome, result, outputs>>
server == <<inbox, served, reply>>
vars == <<fixed, call, loop, ending, server, pc>>

\* probe is serverLive, serverReady and modelReady; loadModel is unloadModel too.
RepositoryOps == {"repositoryIndex", "loadModel"}
Ops == {"probe", "modelMetadata", "infer"} \cup RepositoryOps
req == <<calls, i>>
retry_policy == retryPolicyFromEnv(env)

last_mutant == i > AttemptsOf(retry_policy)
last == i >= AttemptsOf(retry_policy)

Init ==
  /\ env \in Envs
  /\ repository \in Builds
  /\ pc = "idle"
  /\ op = "probe"
  /\ calls = 0
  /\ i = 0
  /\ slept = 0
  /\ outcome = None
  /\ result = "none"
  /\ outputs = <<>>
  /\ request = NoRequest
  /\ asked = <<>>
  /\ inbox = {}
  /\ served = {}
  /\ reply = {}

----------------------------------------------------------------------------
(* A call, from its entry to the retry loop.                                *)

Enter(o, inputs) ==
  /\ pc = "idle"
  /\ calls < MaxCalls
  /\ op' = o
  /\ calls' = calls + 1
  /\ asked' = Append(asked, inputs)
  /\ outputs' = <<>>

Begin_mutant ==
  /\ pc' = "start"
  /\ i' = 0
  /\ slept' = 0
  /\ outcome' = None
  /\ result' = "none"
  /\ UNCHANGED <<fixed, server>>

Begin ==
  /\ pc' = "start"
  /\ i' = 1
  /\ slept' = 0
  /\ outcome' = None
  /\ result' = "none"
  /\ UNCHANGED <<fixed, server>>

StartCall(o) ==
  /\ o # "infer"
  /\ o \in RepositoryOps => repository
  /\ Enter(o, <<>>)
  /\ request' = NoRequest
  /\ Begin

\* infer reads KSERVE_BINARY anew in every call.
StartInfer(inputs, kserve_binary) ==
  LET raw_contents == rawContentsEnabled(kserve_binary) IN
  /\ \A n \in 1 .. Len(inputs) : ~InputThrows(inputs[n], raw_contents)
  /\ Enter("infer", inputs)
  /\ request' = RequestOf(inputs, raw_contents)
  /\ Begin

Rejected ==
  /\ result' = "throw"
  /\ request' = NoRequest
  /\ UNCHANGED <<fixed, loop, outcome, server, pc>>

RejectInput(inputs, kserve_binary) ==
  /\ \E n \in 1 .. Len(inputs) : InputThrows(inputs[n], rawContentsEnabled(kserve_binary))
  /\ Enter("infer", inputs)
  /\ Rejected

\* A build without the repository service.
RejectRepository(o) ==
  /\ o \in RepositoryOps /\ ~repository
  /\ Enter(o, <<>>)
  /\ Rejected

----------------------------------------------------------------------------
(* An attempt, and what the call makes of its status.                       *)

\* A fresh context with its deadline, a cleared response, and the stub call.
Attempt ==
  /\ pc = "start"
  /\ pc' = "rpc"
  /\ inbox' = inbox \cup {[req |-> req, op |-> op, request |-> request]}
  /\ reply' = {}
  /\ UNCHANGED <<fixed, call, loop, ending, served>>

Decoded_mutant(code, response) ==
  IF op = "infer" /\ OutputThrows(response) THEN "throw"
  ELSE IF op = "probe" /\ ~response.ready THEN "false"
  ELSE "value"

\* The status decides, whatever is in the response by then.
Decoded(code, response) ==
  IF code # OK \/ (op = "infer" /\ OutputThrows(response)) THEN "throw"
  ELSE IF op = "probe" /\ ~response.ready THEN "false"
  ELSE "value"

AttemptEnds(code, response) ==
  /\ pc = "rpc"
  /\ outcome' = code
  /\ IF last \/ ~isRetryableGrpcStatus(code)
     THEN /\ pc' = "idle"
          /\ result' = Decoded(code, response)
          /\ outputs' = IF op = "infer" /\ result' = "value"
                        THEN OutputsOf(response) ELSE <<>>
     ELSE pc' = "backoff" /\ UNCHANGED <<result, outputs>>
  /\ UNCHANGED <<fixed, call, loop, server>>

Message(a) ==
  IF a.code = OK THEN ResponseOf(a.ready, a.layout[1], a.layout[2]) ELSE NoResponse

\* The server's answer arrives.
Answered == \E a \in reply : AttemptEnds(a.code, Message(a))

\* The RPC ends without one: no connection, a lost one, or the deadline, which
\* may expire when the message has arrived and its status has not.
Unanswered ==
  \E code \in Codes, response \in {NoResponse} \cup {Message(a) : a \in reply} :
    /\ response # NoResponse => code = DEADLINE_EXCEEDED
    /\ AttemptEnds(code, response)

Backoff_mutant(draw) ==
  /\ pc = "backoff"
  /\ pc' = "start"
  /\ slept' = 0
  /\ i' = 1
  /\ outcome' = None
  /\ UNCHANGED <<fixed, call, result, outputs, server>>

Backoff(draw) ==
  /\ pc = "backoff"
  /\ pc' = "start"
  /\ slept' = slept + backoffDelayMs(retry_policy, i, draw)
  /\ i' = i + 1
  /\ outcome' = None
  /\ UNCHANGED <<fixed, call, result, outputs, server>>

----------------------------------------------------------------------------
(* The server (external).                                                   *)

\* The tensors of an answer and their layout.
Layouts == {t \in TensorLists \X Styles : Expressible(t[1], t[2])}
NoTensors == <<<<>>, "raw">>

Answers(o) ==
  [code : Codes, ready : {FALSE}, layout : {NoTensors}] \cup
  [code : {OK}, ready : IF o = "probe" THEN BOOLEAN ELSE {FALSE},
   layout : IF o = "infer" THEN Layouts ELSE {NoTensors}]

Execute(r) ==
  /\ r \in inbox
  /\ inbox' = inbox \ {r}
  /\ served' = served \cup {r}
  /\ UNCHANGED <<fixed, call, loop, ending, pc>>

\* The server executes the request of this attempt and answers it.
Serve(answer) ==
  \E r \in inbox :
    /\ pc = "rpc" /\ r.req = req /\ answer \in Answers(r.op)
    /\ Execute(r)
    /\ reply' = {answer}

\* It executes one whose attempt has ended; the answer goes nowhere.
ServeLate ==
  \E r \in inbox :
    /\ pc # "rpc" \/ r.req # req
    /\ Execute(r)
    /\ UNCHANGED reply

\* A request that will never be executed: lost, cancelled or refused.
Lose ==
  \E r \in inbox :
    /\ inbox' = inbox \ {r}
    /\ UNCHANGED <<fixed, call, loop, ending, served, reply, pc>>

----------------------------------------------------------------------------

ClientStep ==
  Attempt \/ Answered \/ Unanswered \/ (\E draw \in 0 .. (Unit - 1) : Backoff(draw))

Next ==
  \/ \E o \in Ops : StartCall(o) \/ RejectRepository(o)
  \/ \E inputs \in InputLists, kserve_binary \in KserveBinary :
       StartInfer(inputs, kserve_binary) \/ RejectInput(inputs, kserve_binary)
  \/ ClientStep
  \/ \E answer \in UNION {Answers(o) : o \in Ops} : Serve(answer)
  \/ ServeLate
  \/ Lose

\* The client keeps running, and every RPC has a deadline.
Fairness == WF_vars(ClientStep)

SafeSpec == Init /\ [][Next]_vars
Spec == SafeSpec /\ Fairness

----------------------------------------------------------------------------
(* Properties.                                                              *)

Req == (1 .. MaxCalls) \X (Nat \ {0})

TypeOK ==
  /\ env \in Envs /\ repository \in Builds
  /\ pc \in {"idle", "start", "rpc", "backoff"}
  /\ op \in Ops
  /\ calls \in 0 .. MaxCalls
  /\ i \in Nat
  /\ slept \in Nat
  /\ outcome \in Codes \cup {OK, None}
  /\ result \in {"none", "value", "false", "throw"}
  /\ \A r \in inbox \cup served : r.req \in Req /\ r.op \in Ops
  /\ reply \subseteq UNION {Answers(o) : o \in Ops}

\* A call that returns was executed by the server with status OK in its last
\* attempt, and a probe returns exactly what that answer said; a probe throws
\* only when its last attempt failed.  So "down" is never taken for "not ready",
\* not even when a message arrived before the deadline cut its status off.
AnswerWasServed ==
  /\ result \in {"value", "false"} =>
       /\ \E r \in served : r.req = req /\ r.op = op
       /\ \E a \in reply :
            /\ a.code = OK
            /\ op = "probe" => result = IF a.ready THEN "value" ELSE "false"
  /\ op = "probe" /\ result = "throw" => outcome # OK

\* infer returns the tensors the server produced for this very attempt, each
\* under its own datatype, of its length and byte for byte, in whichever of the
\* layouts the server chose; of 64-bit integers that were widened to doubles,
\* those a double can hold, wherever they stand among others.
InferReturnsTensors ==
  op = "infer" /\ result = "value" =>
    \E a \in reply : Meant(outputs, a.layout[1], a.layout[2])

\* Whatever a server executes, a late or repeated execution included, it finds
\* in the request the bytes the caller passed for each input of that call.
InputsArrive ==
  \A s \in served : s.op = "infer" =>
    LET inputs == asked[s.req[1]] IN
    ServerReads(s.request) = [n \in 1 .. Len(inputs) |-> inputs[n].data]

phase == IF pc \in {"start", "rpc"} THEN "attempt" ELSE pc
Retry == INSTANCE RetryLoop WITH
  Results <- Codes \cup {OK},
  RetryableResults <- {code \in Codes : isRetryableGrpcStatus(code)}

\* Every step of the client, whatever the server does, is a step of
\* runWithRetry or leaves its state alone.
ImplementsRetryLoop == Retry!SafeSpec

\* Every call comes back.
CallTerminates == pc # "idle" ~> pc = "idle"
============================================================================
