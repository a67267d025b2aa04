---------------------------- MODULE HttpClient -----------------------------
(***************************************************************************)
(* HttpClient of src/KserveHttpClient.cpp, its one keep-alive connection,  *)
(* and the server at the other end.  The calls of a client are serialized  *)
(* (the class is not thread-safe); what interleaves with a call is the     *)
(* server and the network: a reply arriving in pieces, a peer that closes  *)
(* at any moment, a timeout racing a late reply, a request the server      *)
(* executes after the client has given up on it.                           *)
(***************************************************************************)
EXTENDS KserveRetry, HttpFraming, FiniteSets

CONSTANTS
  Envs,       \* the environments a client may be constructed in
  Transports, \* of "plain", "tls" and "tls_unbuilt": https without OpenSSL
  MaxCalls,   \* bound on the calls of a behaviour
  NOutputs,   \* how many outputs a good metadata document names
  None,       \* no attempt of the call has ended yet
  Threw       \* the attempt threw

ASSUME ClientAssumption ==
  /\ Envs \subseteq RetryEnv
  /\ Transports \subseteq {"plain", "tls", "tls_unbuilt"}
  /\ MaxCalls \in Nat
  /\ NOutputs \in Nat \ {0}
  /\ None \notin Nat /\ Threw \notin Nat /\ None # Threw

VARIABLES
  env,            \* the KSERVE_* variables the policy was read from
  transport,      \* what the endpoint and the build make of a connection
  pc,             \* where the client is
  op,             \* the operation being called, or called last
  calls,          \* calls started
  i,              \* the retry loop's counter
  slept,          \* milliseconds this call has slept
  outcome,        \* how the latest attempt ended: None, Threw or a status
  result,         \* how the call ended
  conn,           \* conn_: no transport, an open one, or one the peer closed
  raw,            \* what readFramed has read of this reply
  server_closed,  \* readFramed stopped at EOF
  output_names_,  \* the names cached by modelMetadata, each by its request
  inbox,          \* the request the server has received and not answered
  wire,           \* what the server has sent and the client not received
  late,           \* requests on abandoned connections, still to be executed
  served,         \* requests the server has executed
  fault,          \* history: the connection met a fault not yet charged
  excused         \* history: every failed attempt was charged to a fault

call == <<op, calls>>
fixed == <<env, transport>>
loop == <<fixed, i, slept>>
link == <<conn, inbox, wire, late, served>>
reading == <<raw, server_closed>>
history == <<fault, excused>>
vars == <<call, loop, link, reading, history, pc, outcome, result, output_names_>>

\* probe is serverLive, serverReady and modelReady; loadModel is unloadModel too.
Ops == {"probe", "repositoryIndex", "loadModel", "modelMetadata", "infer"}
Req == (1 .. MaxCalls) \X (Nat \ {0})
Token == [k : Kinds, reply : [req : Req, shape : Shapes]]
req == <<calls, i>>
Sending == {"send", "part", "reset"}
retry_policy_ == retryPolicyFromEnv(env)

last_mutant == i > AttemptsOf(retry_policy_)
last == i >= AttemptsOf(retry_policy_)

Init ==
  /\ env \in Envs
  /\ transport \in Transports
  /\ pc = "idle"
  /\ op = "probe"
  /\ calls = 0
  /\ i = 0
  /\ slept = 0
  /\ outcome = None
  /\ result = "none"
  /\ conn = "none"
  /\ raw = <<>>
  /\ server_closed = FALSE
  /\ output_names_ = <<>>
  /\ inbox = {}
  /\ wire = <<>>
  /\ late = {}
  /\ served = {}
  /\ fault = FALSE
  /\ excused = TRUE

----------------------------------------------------------------------------
(* A call and its retry loop.                                               *)

StartCall(o) ==
  /\ pc = "idle"
  /\ calls < MaxCalls
  /\ pc' = "connect"
  /\ op' = o
  /\ calls' = calls + 1
  /\ i' = 1
  /\ slept' = 0
  /\ outcome' = None
  /\ result' = "none"
  /\ UNCHANGED <<fixed, link, reading, history, output_names_>>

\* infer throws before it sends anything: an input without data, or one that
\* cannot be encoded.
RejectInput ==
  /\ pc = "idle"
  /\ calls < MaxCalls
  /\ op' = "infer"
  /\ calls' = calls + 1
  /\ result' = "throw"
  /\ UNCHANGED <<loop, pc, outcome, link, reading, history, output_names_>>

drop_mutant ==
  UNCHANGED <<conn, wire, inbox, late>>

\* HttpConnection::drop.  What the server was sent and has not executed it may
\* still execute; what it sent is never read.
drop ==
  /\ conn' = "none"
  /\ wire' = <<>>
  /\ inbox' = {}
  /\ late' = late \cup inbox

\* The attempt throws: roundTrip's catch drops the connection, and the retry
\* loop backs off or rethrows.  cause: something failed, in this step or
\* earlier on this connection.
Fail(cause) ==
  /\ drop
  /\ outcome' = Threw
  /\ pc' = IF last THEN "idle" ELSE "backoff"
  /\ result' = IF last THEN "throw" ELSE "none"
  /\ excused' = cause
  /\ fault' = FALSE
  /\ raw' = <<>>
  /\ server_closed' = FALSE
  /\ UNCHANGED <<call, loop, served, output_names_>>

Backoff_mutant(draw) ==
  /\ pc = "backoff"
  /\ pc' = "connect"
  /\ slept' = 0
  /\ i' = 1
  /\ outcome' = None
  /\ UNCHANGED <<fixed, call, result, link, reading, history, output_names_>>

Backoff(draw) ==
  /\ pc = "backoff"
  /\ pc' = "connect"
  /\ slept' = slept + backoffDelayMs(retry_policy_, i, draw)
  /\ i' = i + 1
  /\ outcome' = None
  /\ UNCHANGED <<fixed, call, result, link, reading, history, output_names_>>

----------------------------------------------------------------------------
(* roundTrip, up to the reply.                                              *)

\* ensureConnected finds a transport.  The endpoint never changes, so it is
\* reused, whatever the peer has done to it meanwhile.
Reuse ==
  /\ pc = "connect"
  /\ conn # "none"
  /\ pc' = "send"
  /\ UNCHANGED <<call, loop, link, reading, history, outcome, result, output_names_>>

Connect ==
  /\ pc = "connect"
  /\ conn = "none"
  /\ transport # "tls_unbuilt"
  /\ conn' = "open"
  /\ pc' = "send"
  /\ fault' = FALSE
  /\ UNCHANGED <<call, loop, inbox, wire, late, served, reading, excused,
                 outcome, result, output_names_>>

\* No address, no connection, a failed handshake, or https without OpenSSL.
ConnectThrows ==
  /\ pc = "connect"
  /\ conn = "none"
  /\ Fail(TRUE)

\* A request with tensors is too large for one write: a write takes a part of
\* it.  A peer that has closed answers that part with a reset.
SendPart ==
  /\ pc \in {"send", "part"}
  /\ op = "infer"
  /\ pc' = IF conn = "closed" THEN "reset" ELSE "part"
  /\ UNCHANGED <<call, loop, link, reading, history, outcome, result, output_names_>>

\* The last write succeeds, since a reset may be on its way; a closed peer does
\* not get the request.
Send ==
  /\ pc \in Sending
  /\ pc' = "recv"
  /\ inbox' = IF conn = "open" THEN inbox \cup {req} ELSE inbox
  /\ UNCHANGED <<call, loop, conn, wire, late, served, reading, history,
                 outcome, result, output_names_>>

\* A write times out, or reports a reset: one the peer sent, or the answer to an
\* earlier part.  The first write to a peer that has only closed succeeds.
SendThrows ==
  /\ pc \in Sending
  /\ conn = "open" \/ fault \/ pc # "send"
  /\ Fail(conn = "open" \/ fault)

\* A write after the reset raises SIGPIPE, which nothing masks or ignores.
SendKills ==
  /\ pc = "reset"
  /\ pc' = "killed"
  /\ UNCHANGED <<call, loop, link, reading, history, outcome, result, output_names_>>

\* recvSome returns the next n tokens; readFramed tests for completeness
\* after each read.
Receive(n) ==
  /\ pc = "recv"
  /\ n <= Len(wire)
  /\ raw' = raw \o SubSeq(wire, 1, n)
  /\ wire' = SubSeq(wire, n + 1, Len(wire))
  /\ pc' = IF messageComplete(raw') THEN "parse" ELSE "recv"
  /\ UNCHANGED <<call, loop, conn, inbox, late, served, server_closed, history,
                 outcome, result, output_names_>>

\* What ends a receive besides data: the end of the stream, a timeout while
\* the rest of the reply is still on its way, or a reset.  A stream that ends
\* before the first token of the reply was closed before the request.
EndOfStream == conn = "closed" /\ wire = <<>>
Faulty == fault \/ ~EndOfStream

\* recvSome returns 0: EOF, or under TLS any error at all, a timeout included.
AtEOF == pc = "recv" /\ (EndOfStream \/ transport = "tls")

EOFEmpty ==
  /\ AtEOF
  /\ raw = <<>>
  /\ Fail(Faulty)

EOF ==
  /\ AtEOF
  /\ raw # <<>>
  /\ server_closed' = TRUE
  /\ pc' = "parse"
  /\ fault' = Faulty
  /\ UNCHANGED <<call, loop, link, raw, excused, outcome, result, output_names_>>

\* recv returns -1: a timeout or a reset.
RecvThrows ==
  /\ pc = "recv"
  /\ transport # "tls"
  /\ Fail(Faulty \/ raw # <<>>)

----------------------------------------------------------------------------
(* roundTrip, from the reply on, and what the operation makes of it.        *)

ParseFails ==
  /\ pc = "parse"
  /\ ParseThrows(raw)
  /\ Fail(fault)

Replied_mutant ==
  /\ pc = "parse"
  /\ ~ParseThrows(raw)
  /\ IF wantsClose(raw) THEN drop ELSE UNCHANGED <<conn, wire, inbox, late>>
  /\ outcome' = Status(raw)
  /\ raw' = <<>>
  /\ server_closed' = FALSE
  /\ UNCHANGED <<call, loop, served, history>>

\* The reply parses: the connection is kept unless it has ended.
Replied ==
  /\ pc = "parse"
  /\ ~ParseThrows(raw)
  /\ IF server_closed \/ wantsClose(raw) THEN drop
     ELSE UNCHANGED <<conn, wire, inbox, late>>
  /\ outcome' = Status(raw)
  /\ raw' = <<>>
  /\ server_closed' = FALSE
  /\ UNCHANGED <<call, loop, served, history>>

RetryStatus ==
  /\ Replied
  /\ ~last /\ isRetryableHttpStatus(Status(raw))
  /\ pc' = "backoff"
  /\ UNCHANGED <<result, output_names_>>

\* What the caller gets.  probe only looks at the status, loadModel ignores
\* the body of a 200.
Decoded ==
  CASE op = "probe" -> IF Status(raw) = 200 THEN "value" ELSE "false"
    [] op = "loadModel" -> IF Status(raw) = 200 THEN "value" ELSE "throw"
    [] OTHER -> IF /\ Status(raw) = 200
                   /\ JsonParses(raw)
                   /\ raw[1].reply.shape.doc = "good"
                THEN "value" ELSE "throw"

CachedNames_mutant ==
  IF op = "modelMetadata" /\ Decoded = "value"
  THEN output_names_ \o [k \in 1 .. NOutputs |-> req]
  ELSE output_names_

\* modelMetadata clears the list when the inputs are read, and appends each
\* output as it is read; a bad one throws with the list as it is by then.
CachedNames ==
  IF /\ op = "modelMetadata" /\ Status(raw) = 200
     /\ JsonParses(raw) /\ raw[1].reply.shape.doc # "bad_head"
  THEN [k \in 1 .. (IF Decoded = "value" THEN NOutputs ELSE NOutputs - 1) |-> req]
  ELSE output_names_

Finish ==
  /\ Replied
  /\ last \/ ~isRetryableHttpStatus(Status(raw))
  /\ pc' = "idle"
  /\ result' = Decoded
  /\ output_names_' = CachedNames

----------------------------------------------------------------------------
(* The server (external).                                                   *)

ServerUnchanged ==
  UNCHANGED <<call, loop, reading, pc, outcome, result, output_names_, excused>>

\* The server executes the request and replies; it closes after a reply that ends
\* the connection.
Serve(shape) ==
  /\ conn = "open"
  /\ \E r \in inbox :
       /\ inbox' = inbox \ {r}
       /\ served' = served \cup {r}
       /\ wire' = wire \o Wire([req |-> r, shape |-> shape])
  /\ conn' = IF EndsConnection(shape) THEN "closed" ELSE "open"
  /\ UNCHANGED <<late, fault>>
  /\ ServerUnchanged

\* The peer dies, resets or tires of an idle connection; of what it has sent,
\* only the first n tokens still arrive.
ServerCloses(n) ==
  /\ conn = "open" \/ (conn = "closed" /\ n < Len(wire))
  /\ conn' = "closed"
  /\ wire' = SubSeq(wire, 1, n)
  /\ inbox' = {}
  /\ fault' = TRUE
  /\ UNCHANGED <<late, served>>
  /\ ServerUnchanged

\* A request whose client has stopped waiting is executed all the same.
ServeLate ==
  /\ \E r \in late : late' = late \ {r} /\ served' = served \cup {r}
  /\ UNCHANGED <<conn, inbox, wire, fault>>
  /\ ServerUnchanged

----------------------------------------------------------------------------

RetryStep == \E draw \in 0 .. (Unit - 1) : Backoff(draw)
ConnectStep == Reuse \/ Connect \/ ConnectThrows
SendStep == SendPart \/ Send \/ SendThrows \/ SendKills
RecvStep == (\E n \in 1 .. Len(wire) : Receive(n)) \/ EOFEmpty \/ EOF \/ RecvThrows
ReplyStep == ParseFails \/ RetryStatus \/ Finish
ClientStep == RetryStep \/ ConnectStep \/ SendStep \/ RecvStep \/ ReplyStep

ServerStep ==
  \/ \E shape \in Shapes : Serve(shape)
  \/ \E n \in 0 .. Len(wire) : ServerCloses(n)
  \/ ServeLate

Next ==
  \/ \E o \in Ops : StartCall(o)
  \/ RejectInput
  \/ ClientStep
  \/ ServerStep

\* The client keeps running, and a receive that gets nothing times out.
\* Nothing is assumed of the server.
Fairness == WF_vars(ClientStep)

SafeSpec == Init /\ [][Next]_vars
Spec == SafeSpec /\ Fairness

----------------------------------------------------------------------------
(* Properties.                                                              *)

TypeOK ==
  /\ env \in Envs
  /\ transport \in Transports
  /\ pc \in {"idle", "connect", "recv", "parse", "backoff", "killed"} \cup Sending
  /\ op \in Ops
  /\ calls \in 0 .. MaxCalls
  /\ i \in Nat
  /\ slept \in Nat
  /\ outcome \in Nat \cup {None, Threw}
  /\ result \in {"none", "value", "false", "throw"}
  /\ conn \in {"none", "open", "closed"}
  /\ raw \in Seq(Token) /\ wire \in Seq(Token)
  /\ server_closed \in BOOLEAN
  /\ output_names_ \in Seq(Req) /\ Len(output_names_) <= NOutputs
  /\ inbox \subseteq Req /\ late \subseteq Req /\ served \subseteq Req
  /\ fault \in BOOLEAN /\ excused \in BOOLEAN

\* What has been read, followed by what is on its way, is the beginning of a
\* reply to the current request; all of it when readFramed was content.
Streaming ==
  \E shape \in Shapes :
    LET w == Wire([req |-> req, shape |-> shape]) IN
    /\ Len(raw) + Len(wire) <= Len(w)
    /\ \A m \in 1 .. Len(raw) : raw[m] = w[m]
    /\ \A m \in 1 .. Len(wire) : wire[m] = w[Len(raw) + m]
    /\ pc = "parse" /\ ~server_closed => Len(raw) = Len(w)

\* The two ends of the kept-alive connection stay in step: outside a round trip
\* nothing is in flight, and within one only its own request and reply are.
InStep ==
  /\ pc \notin {"recv", "parse"} =>
       raw = <<>> /\ wire = <<>> /\ inbox = {} /\ ~server_closed
  /\ pc = "recv" =>
       /\ ~server_closed
       /\ \/ raw = <<>> /\ wire = <<>> /\ inbox \subseteq {req}
          \/ inbox = {} /\ Streaming
  /\ pc = "parse" => raw # <<>> /\ inbox = {} /\ Streaming

\* The reply roundTrip parses is the server's reply to the request of this very
\* attempt, never one to an earlier attempt or call that came late on the
\* kept-alive connection.
ResponseIsOwn ==
  pc = "parse" => \A m \in 1 .. Len(raw) : raw[m].reply.req = req

\* When readFramed stops without EOF it has read exactly one message: all of
\* the reply and nothing beyond it.
WholeUnlessClosed ==
  pc = "parse" /\ ~server_closed => raw = Wire(raw[1].reply)

\* No attempt fails without a cause of its own: a fault in this attempt, or one
\* on its connection that has not already cost an attempt.  A dead connection
\* therefore costs one attempt, not all of them.
FailureHasCause == excused

\* The caller can tell "down" from "up but not ready": a call that returns, a
\* probe that returns false included, was executed by the server in its last
\* attempt, and a probe throws only on a transport failure.
AnswerWasServed ==
  /\ result \in {"value", "false"} => req \in served
  /\ op = "probe" /\ result = "throw" => outcome = Threw

\* The output names infer sends come from a single metadata reply, one the
\* server gave.
NamesFromOneReply ==
  \A m, n \in 1 .. Len(output_names_) :
    output_names_[m] = output_names_[n] /\ output_names_[m] \in served

\* The client implements the retry loop.
phase == CASE pc = "idle" -> "idle"
           [] pc = "backoff" -> "backoff"
           [] OTHER -> "attempt"
Statuses == {shape.status : shape \in Shapes}
Retry == INSTANCE RetryLoop WITH
  Results <- Statuses,
  RetryableResults <- {status \in Statuses : isRetryableHttpStatus(status)}

\* Every step of the client, whatever the server and the network do, is a step
\* of runWithRetry or leaves its state alone.
ImplementsRetryLoop == Retry!SafeSpec

\* Every call comes back, or SIGPIPE ends the process.
CallTerminates == pc # "idle" ~> pc \in {"idle", "killed"}

----------------------------------------------------------------------------
(* What comments say of the code, and the code does not do.                 *)

\* parseHttpResponse "Honours Content-Length and Transfer-Encoding: chunked.
\* Throws [...] on a malformed response": a reply cut short of its framing is a
\* failed attempt.
FramingDecides ==
  [][pc = "parse" /\ pc' # "parse" /\ Truncated(raw) => outcome' = Threw]_vars

\* "any I/O error drops it so the next round-trip [...] reconnects": a client whose
\* idle connection the peer has closed survives the next use of it.
SurvivesIdleClose == [](pc = "idle" /\ conn = "closed" => [](pc # "killed"))
============================================================================
