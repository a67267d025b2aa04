# Verification of neuriplo-kserve-client

TLA+ models of the KServe V2 client library in `src/`, checked with TLC on small
instances, with the safety results proved with TLAPS for every instance.

## 1. The system

| Part | State | Operations | Interacts with |
|---|---|---|---|
| Retry policy (`KserveRetry.cpp`) | `RetryPolicy`, read once from `KSERVE_*` | `retryPolicyFromEnv`, `backoffDelayMs`, the classifiers of transient statuses | read by both clients' constructors |
| Retry loop (`runWithRetry`) | the loop counter, the last result or exception | attempt, classify, sleep, try again | wraps every round trip of both clients |
| HTTP framing (`messageComplete`, `readFramed`, `wantsClose`, `parseHttpResponse`) | the bytes read so far | decide completeness, parse, de-chunk | decides when a kept-alive connection is in step |
| HTTP client (`KserveHttpClient.cpp`) | one keep-alive connection (`conn_`), the output names cached by `modelMetadata`, the policy | `modelMetadata`, `infer`, three probes, repository index / load / unload | one server over TCP or TLS |
| TLS transport (`TlsConnection`) | an OpenSSL session | connect, `sendAll`, `recvSome` | under the HTTP client |
| Binary tensor extension, tensor codec (`KserveProtocol.cpp`) | none | encode and decode tensors, split and slice the blob | called by `infer` |
| gRPC client (`KserveGrpcClient.cpp`) | a channel and a stub | the same operations | `runWithRetry`, the gRPC library |
| Secrets, mutual TLS, endpoint parsing (`KserveProtocol.cpp`) | none | read tokens and certificates, split a URL | constructors |
| Interface (`KserveTypes.hpp`) | none | the contract of the operations | implemented by both clients |

Hard behaviour. A client is used by one thread at a time; what interleaves with
it is the server, the network, and whoever rewrites the files it reads. The
connection outlives a call, so a reply that is late, short or too long harms the *next* call; a peer may close at any
moment, between calls too; a timeout races the reply; a retried request may be
executed twice, or after the call has ended; over TLS an error looks like the
end of the reply. What makes the parts correct:

* retry loop: exactly the tries configured, sleeps on schedule, transient
  failures only, always ends;
* framing: stop exactly at the end of a message;
* connection: a round trip reads the whole reply to its own request, a dead
  connection costs one attempt, nothing is in flight between round trips;
* operations: probes tell "down" from "not ready", cached names belong to one
  reply;
* tensors: the server finds the bytes the caller passed and the caller gets the
  bytes the server produced, in JSON and in binary, or an exception;
* configuration: a request goes where the URL says, with a token its source has
  held; a secure channel has what the named files have held, and a certificate
  never goes without a key.

`PROJECT.json` lists the hazards by line with the properties that cover them.

## 2. Modules

```
KserveRetry ----------+-- RetryLoop -- MCRetryLoop
  (pure policy)       |      ^  abstract specification of the retry loop
                      |      |  INSTANCE (refinement)
HttpFraming ----------+-- HttpClient -- MCHttpClient
  (pure framing)      |      |  INSTANCE (refinement)
                      +-- GrpcClient -- MCGrpcClient
                                         |
TensorBytes ---- GrpcContents -----------+
  (pure codec)     (pure gRPC messages)
  +------------- HttpTensors -- HttpInfer -- MCHttpInfer
HalfFloat -------+ (pure HTTP messages)
  (pure)  +----- Fp16Json -- MCFp16Json
ClientConfig -- MCClientConfig
*_proofs: the theorems of the module they are named after
Lemmas: what several of them rest on
```

**KserveRetry** holds the pure functions of `KserveRetry.cpp`. An `int` ranges
over `-IntMax-1 .. IntMax` and `retries + 1` wraps as the compiled code does. A
fraction is a number of `Unit`-ths, so jitter is exact where the code uses
`double`. `NoNumber` is a variable that is unset or rejected by `stoi`/`stod`.

**RetryLoop** is `runWithRetry` with the attempt abstracted to its outcome: a
result or an exception. `Call`, `AttemptReturns`, `AttemptThrows` and `Backoff`
are the entry, the two ends of `attempt()` and the sleep with the loop's
increment. The client reads the environment once, so `env` never changes.

**HttpFraming** models a byte stream as a sequence of tokens (status line with
headers, the blank line, body pieces, chunk size, chunk CRLF, last chunk). A
token is the shortest piece whose partial arrival the code treats like its
absence, so cutting the stream between tokens covers cutting it anywhere. A
`mimic` is a body piece that ends in the bytes of the last chunk. A reply has a
version: `EndsConnection` is what a server does after it (it closes when it says
so, when the body has no other end, and by default in HTTP/1.0), `wantsClose` what
the client makes of it. `Wire` is what a conforming server sends; the rest are the
client's functions under their own names.

**HttpClient** is the client, its connection and the server. `pc` follows a call:

| `pc` | code | actions |
|---|---|---|
| `idle` | between calls | `StartCall`, `RejectInput` (infer throws before any I/O) |
| `connect` | `ensureConnected` | `Reuse`, `Connect`, `ConnectThrows` |
| `send`, `part`, `reset` | `sendAll`: before its first write, after a part, after a part the peer has answered with a reset | `SendPart`, `Send`, `SendThrows`, `SendKills` (SIGPIPE) |
| `recv` | `readFramed` | `Receive`, `EOF`, `EOFEmpty`, `RecvThrows` |
| `parse` | `parseHttpResponse`, the drop, the retry decision, the operation | `ParseFails`, `RetryStatus`, `Finish` |
| `backoff` | the sleep | `Backoff` |
| `killed` | the process is gone | none |

An exception anywhere in `roundTrip` is one step, `Fail`: the catch drops the
connection and the loop backs off or rethrows. `conn` is `none`, `open`, or
`closed` when the peer has closed a transport the client still holds. The server
(`Serve`, `ServerCloses`, `ServeLate`) is external: it answers with any reply of
`Shapes`, closes whenever it likes, loses any tail of what it sent, and may
execute a request whose client has given up. Only an `infer` is large enough to be
written in parts; the first write to a peer that has merely closed succeeds, and
SIGPIPE needs a further write after the reset that answers it. `fault` and `excused` are history:
they record whether each failed attempt had a cause of its own.

What is abstracted: a request is its call and attempt number; a body is a
sequence of pieces, parsed as JSON only when whole (a proper prefix of a JSON
object or array is not JSON; a short binary body fails in `splitBinaryBody` or
`sliceBlob` all the same); a document is good, bad before the outputs, or bad at
an output. The endpoint is fixed, so the comparison of host, port and scheme in
`ensureConnected` always succeeds. `serverLive`, `serverReady` and `modelReady`
are one operation, so are `loadModel` and `unloadModel`.

**TensorBytes** is `readArray` and `writeArray`: a byte is "byte k of value v as
a T", so the width, the order and the grouping of bytes are kept and the bit
patterns are not. Half floats are the exception: **HalfFloat** has `halfToFloat`
and `floatToHalf` to the bit, with shifts as divisions by powers of two, next to
a definition of value and rounding they are compared with. **Fp16Json** is one
FP16 element on its way into the JSON array of a request (`Widen`), through a
server that may change it (`Compute`) and back (`Narrow`).

**HttpTensors** holds what `infer` writes and reads over HTTP: the JSON arrays of
`encodeTensorData` and `decodeTensorData` (a number that is not finite is dumped
as `null`), and the binary extension: the blob in input order, the sizes in the
JSON header, the running offset over the outputs, `splitBinaryBody` and
`sliceBlob` with their exceptions. A JSON header counts as two pieces, whole or
cut; the blob is bytes. **HttpInfer** calls them: `modelMetadata(k)` caches the
first `k` names and throws on the next, `infer` reads `KSERVE_BINARY` and sends,
`Return(m)` decodes an answer of which the first `m` pieces have arrived, `Fails`
is everything `HttpClient` reports as an exception or a status. The transport is
assumed as `HttpClient` proves it: an answer is to this call's request, whole or
cut by the end of the stream. The server (`Serve`, `ServeOther`, `Reload`)
answers the outputs it was asked for, or all, each inline, binary, or binary with
a size one off, and loads another version of the model at any moment.

**ClientConfig** is the way from an endpoint URL, the environment and the files
it names to a request. A URL is a sequence of words and separators; `stripScheme`,
`parseEndpoint` and the path builders work on it as the code does on characters,
and `LeadingNumber` says what `std::stoi` makes of a word. A text is what it holds
before its trailing white space, and whether it has any. `ReadToken` is
`envToken`; `GrpcEndpoint`, `ReadFile` and `CheckPair` are the rest of the gRPC
constructor, one step per file; `Call` is the entry of an operation, which over
HTTP parses the endpoint each time; `Connect` loads the CA file each time; `Write`
is somebody rewriting, truncating or removing a file. `held` is history: what each
file has held since the constructor began, which is what a token and a channel are
compared with. An environment variable
that is empty is treated as unset, as the code does. `UrlsAssumption` says how a
URL is written (section 4).

**GrpcContents** holds the functions that write inputs into a request and read
outputs from a response, raw or in the typed fields. Values are in the range of
their datatype, so a cast back from the typed field loses nothing, and neither does
a double of an integer of up to 32 bits or of a float. A 64-bit integer is another
matter: `Nearest` is the integer its nearest double is, `TooLarge` when that is out
of the datatype's range, and `static_cast` of such a double is undefined behaviour
whose outcome is the constant `Undefined`, of which nothing is assumed but that it
is a value. `ServerField`, `ServerReads`, `AsDoubles` and `ResponseOf` are the
server's side: `Styles` are the layouts the client says it handles, the
fp64 layout of old runtimes and a mix of raw and typed outputs included.

**GrpcClient** is the client over the gRPC library. `pc` is `idle`, `start` (at
the head of the loop), `rpc` (in the stub call) or `backoff`:

| Action | Code |
|---|---|
| `StartCall`, `StartInfer` | the entry of an operation, up to `retryGrpc`; `KSERVE_BINARY` is read by every `infer` |
| `RejectInput`, `RejectRepository` | `infer` throws on an input; a build without the repository service |
| `Attempt` | fresh context, deadline, `response.Clear()`, the stub call starts |
| `Answered`, `Unanswered` | it returns the server's status, or one of the library's own; the retry decision and what the operation makes of the response |
| `Backoff` | the sleep |
| `Serve`, `ServeLate`, `Lose` | external: a request is executed in time, after its attempt, or never |

Every attempt is an RPC of its own, so the library keeps replies apart; what can
go wrong is the use of a response without its status, the pairing of outputs with
their bytes, and the message a late execution finds.

## 3. Runs

| Run | Instance | Shows |
|---|---|---|
| `retry_loop` | 300 environments, `IntMax` 4095, `Unit` 5 | `TypeOK`; `SpendsEveryAttempt`; `SleepBounded`; `SleepsTheSchedule` against a schedule defined by doubling; `CallTerminates` |
| `http_client` | plain, TLS and https without OpenSSL; 2 calls; 1 or 2 tries; 8 replies | `TypeOK`; `InStep`; `ResponseIsOwn`; `WholeUnlessClosed`; `FailureHasCause`; `AnswerWasServed`; `NamesFromOneReply`; `ImplementsRetryLoop`; `CallTerminates` |
| `grpc_client` | with and without the repository service; 2 calls; 1 or 2 tries; 3 codes; 4 argument lists, raw and typed; 3 tensor lists in up to 4 layouts | `TypeOK`; `AnswerWasServed`; `InferReturnsTensors`; `InputsArrive`; `ImplementsRetryLoop`; `CallTerminates` |
| `http_infer` | 3 calls; 2 versions of a model; 5 argument lists, JSON and binary; every mix of inline, binary and mis-sized outputs; answers cut anywhere | `TypeOK`; `InputsArrive`; `InferReturnsTensors`; `SlicesTile` |
| `fp16_json` | all 65536 halves; each as it is and changed by the server in four ways | `TypeOK`; `WidensExactly`; `EchoIsExact`; `NarrowsTowardZero` |
| `client_config` | both clients; 29 URLs; 6 environments; files in place or empty at first, one rewritten at any moment | `TypeOK`; `SentWhereMeant`; `TokenFromItsSource`; `ChannelAsFiled` |

`transport` is chosen in `Init` from the constant `Transports` and never changes:
it stands for the endpoint's scheme and for whether the build has OpenSSL.

Bounds. Two calls show everything one call can do to the next, through the
connection and through the cache of output names. Two tries have a first, a last
and a backoff between them. Six replies cover both framings, a close-delimited
body, an announced close, an empty body, a transient and a permanent status; two
more are metadata documents that fail before their outputs, or at an output. Two
pieces give a body a proper, non-empty prefix. 4095 stands for `INT_MAX`: it
keeps TLC's own integers from overflowing and is above the default of 2000 ms; only
`retry_attempts` takes `KSERVE_MAX_RETRIES` that large, where `retries + 1` wraps
and the loop makes a single try. `Unit = 1` in the HTTP runs
leaves one draw of the jitter: the schedule is the business of `retry_loop`.
The gRPC codes are a permanent one, the deadline and another transient one; the
argument lists mix two widths and have one input of each kind that is rejected;
the tensor lists mix widths and fields and have an unstated datatype, an empty
tensor, 64-bit integers that a double holds, rounds and rounds out of range, and a
tensor no typed field can carry. In `http_infer` three calls are a
metadata call that fills the cache, one that fails half way, and an inference;
its arguments have a datatype JSON cannot carry, a length that is no multiple of
the width, a value that is not finite and an input without data. `fp16_json` is
exhaustive over halves; the changed numbers reach every exponent of a half, the
numbers below it, and mantissas on both sides of a rounding boundary. In
`client_config` one rewriting is enough: each part of a property depends on one
file before and after a change of it, a removal included, at any moment of the
constructor; the URLs have every scheme and two unknown
ones, ports that are numbers, numbers with a tail, words, and no int (65535 stands
for `INT_MAX`), an IPv6 address, and zero, one or two slashes at the end. Deadlock
is not checked where the calls are bounded or a process may stop.

Fairness. `RetryLoop` assumes that an attempt ends and a sleep ends. `HttpClient`
assumes weak fairness of the client's own steps only: the thread runs, and a
receive that gets nothing times out, because `setTimeout` sets `SO_RCVTIMEO` and
`SO_SNDTIMEO` (with a positive `timeout_ms`). Nothing is assumed of the server.
`GrpcClient` assumes the same; there the deadline of `prepareContext` ends an RPC.

Runs that end in a counterexample show where a comment and the code disagree;
`PROJECT.json` quotes the lines:

| Run | What happens |
|---|---|
| `http_truncated` | a reply cut short is taken as whole, and its parse error is not retried |
| `http_sigpipe` | the peer closes an idle connection, the next `infer` reuses it and writes in parts: the write after the reset kills the process |
| `http_chunk_end` | chunk data can end the message early and leave bytes on the connection |
| `http_old_version` | the connection of an HTTP/1.0 reply is kept, and the next call loses an attempt on it |
| `http_partial_names` | a metadata call that throws half way leaves a partial list of names, and `infer` returns only those outputs |
| `retry_attempts` | `KSERVE_MAX_RETRIES` is not the total of attempts the header calls it: 0 means one try, not the default of three |

`SpendsEveryAttempt` of the run `retry_loop` has the count as `KserveRetry.cpp:46-48`
has it, retries on top of the first attempt; `TotalAttempts` has it as the header
does, and the two cannot both hold.

More differences met while modelling, without a run of their own:

* An https endpoint on a build without OpenSSL "fails fast with a clear message"
  (`KserveHttpClient.cpp:241`); it throws inside the retry loop and is retried
  (`ConnectThrows`).
* A finite float of 2^16 or more narrows to an infinity or NaN, where the comment
  of `floatToHalf` says round toward zero; `NarrowsTowardZero` is stated below that.
* With `KSERVE_BINARY` off a BOOL input is sent in `uint_contents`
  (`KserveGrpcClient.cpp:136`), while `encodeInput` is said to fill "the matching
  typed field"; `EncodeField` has it, and the arguments of `grpc_client` leave it out.
* `KserveTypes.hpp:80-82` has a probe throw for a transport failure; over gRPC it
  also throws when the server is reached and answers with a status that is not OK.
  `AnswerWasServed` is stated for what both clients do.

## 4. Proofs

Every safety property that a passing run checks is also a theorem, for every value
of the constants that satisfies the `ASSUME`s: any `IntMax` above 2000, any
`Unit`, any sets of environments, replies, inputs, tensors, models, URLs and
files, any number of calls. Five hypotheses say more than that a constant has its
type, and each is there because the code fails without it:

* `NoMimic` (HTTP connection): no body piece looks like the last chunk; the run
  `http_chunk_end` shows what happens otherwise.
* `ClosesSaid` (`CauseOfFailure` only): a reply after which the server closes says
  so; the run `http_old_version` shows what happens otherwise.
* `NoOverflow` (`EveryAttemptIsSpent` only): `KSERVE_MAX_RETRIES + 1` is an int.
* `NoBool` (gRPC inputs): no input is a BOOL (section 3).
* `UrlsAssumption` (endpoints, an assumption that TLC checks as well): no word of a
  URL is empty or a separator, and the first colon inside a host, if there is one,
  is followed by something that is not a number. `[::1]` is such a host and is
  refused by `std::stoi`; `[2001:443::1]` is not, and would be read as the host
  `[2001` with the port 443.

*Retry.* `PolicyType` and `DelayBound` (`KserveRetry_proofs`) are lemmas on the
pure functions: the policy is usable and a delay lies in `0 .. max_delay_ms`. The
invariant of `RetryLoop_proofs` adds `Progressing` to the properties: the loop
backs off only while tries are left, and an idle loop with a transient outcome
has none. From it follow `TypeCorrect`, `SleepIsBounded`, `EveryAttemptIsSpent`.
`OnSchedule` proves `SleepsTheSchedule`: the sum of the terms grows with `i` by one
term (`Sums`), and one delay is within jitter and rounding of its term
(`DelayNear`); the code caps a power of two once, the schedule caps every doubling,
and `CapLast` says that it comes to the same.

*Framing.* `CompleteAtEnd` (`HttpClient_proofs`): on a prefix of a reply,
`messageComplete` is true only at its end, under `NoMimic`; `WholeParses`: a whole
reply is never refused by `parseHttpResponse`.

*Connection.* `ResponseIsOwn` and `WholeUnlessClosed` are not inductive: what is
read depends on what was in flight before. `InStep` is the strengthening: outside
a round trip nothing is in flight; within one, either the request is unanswered,
or what was read followed by what is in flight is a prefix of its reply. It is
stated by positions rather than by concatenation, which keeps each step to
arithmetic on indices. The step that matters is `Receive`, where `CompleteAtEnd`
says that a reader that stops has the whole reply, so that nothing is left behind
when the connection is kept; `Fail` and EOF drop the connection instead.
`HttpClient_proofs` proves `TypeCorrect`, `StaysInStep`, `OwnResponse` and
`WholeResponse`. Two further invariants rest on this one. `Executed` (a reply in
flight or in hand belongs to a request that was executed, and a call under way has
no result yet) gives `ServedAnswer` and `NamesOfOneReply`. `Unbroken` (as long as
the attempt has had no fault of its own, a closed connection still carries a reply
that announced the close, and a reply in flight lacks nothing) gives
`CauseOfFailure`: only with it does the end of a stream without a fault mean a
whole reply. `RefinesRetryLoop` maps `connect`, `send`, `recv` and `parse` to the
attempt of `runWithRetry`: `Fail` is `AttemptThrows`, `RetryStatus` and `Finish`
are `AttemptReturns`, the rest of a round trip and the server are stutters.

*Tensors.* `Lemmas` has what both transports need: a whole number of elements read
from bytes and written back are the same bytes (`ReadThenWrite`), and what a fold
over a sequence of byte strings puts together (`FlattenSteps`). For gRPC, `Sent`
says that a message built by a call carries its inputs and that every message the
server holds, late ones included, is of the call that sent it (`InputsReachServer`);
`Answering` says that a reply in hand is one of the operation's (`TensorsReturned`);
`ContentsMean` treats each layout, and `CastKeepsExact` the casts: whatever an
undefined one yields, the number of elements is kept and every element that its
double equals comes back, so that `TensorsReturned` claims of widened 64-bit integers
exactly what doubles can carry. For HTTP, `HttpInfer_proofs` has the invariant
`Requesting` (the request is the one built from the arguments of the call under
way, none of which throws) and `Formed` (the answer gives the tensors produced, in
some mix of forms, with the right sizes if the server is honest). The argument for
binary outputs is `RunningOffset` and `PiecesInPlace`: the offset before output n is
the sum of the sizes of the binary outputs before it, which is where the server put
its bytes; `SliceOfBeginning` carries that over to a blob that was cut. From these
follow `InputsReachServer`, `TensorsReturned` and `OutputsTile`; `TypeCorrect`
needs `NamesBound`, that the cache never has more names than a model has outputs
(`MaxOutputs`, a constant of the model that no model exceeds).

*Half floats.* `Fp16Json_proofs` keeps `Converted` (what is in flight is the codec's
image of what went in). The theorems rest on the lemmas `WidenExact`, `RoundTrip`
and `NarrowRounds` of `Lemmas`, which treat a half by its three fields: zero,
subnormal (where `Leading` counts the shifts of the loop), normal, infinity and NaN.

*gRPC.* `AnswerWasServed` says that the answer a call returned was executed for
this attempt and this operation; that needs to know which requests the server may
hold. `Bookkeeping` adds it: no request is of a later call, those of this call are
for its operation, and an answer in hand belongs to a request of this attempt that
was executed. `GrpcClient_proofs` proves `TypeCorrect`, `ServedAnswer` and, step
by step, `RefinesRetryLoop`: the entry is `Call`, the end of an RPC is
`AttemptReturns`, the sleep is `Backoff`, a rejected call and everything the
server does is a stutter. `SameFunctions` shows that the policy, the bound and the
delay are the same inside the instance of `RetryLoop`.

*Configuration.* `ClientConfig_proofs` proves `TypeCorrect`, `ChannelOfFiles` and
`RightfulToken` for any URLs, environments, file contents and number of
rewritings. The files may change between two reads, so nothing about a file
outlives the step that reads it but that the file has held it; the invariant says
what the client keeps. `HeldOK`: the history has what the files hold now. `Filed`:
of each file read so far, the options have a content it has held. `Channel`: no
channel exists before the constructor has ended, and `CheckPair` is the only way to
one over TLS. `Carried`: the token is a text its source has held, and every request
built or sent since has it. That the certificate and the key are of one pair is not
claimed: the code does not look. `SentAsMeant` has an
invariant of its own, `Located`: the endpoint a gRPC client keeps, and every request
of either, is what the URL means. It rests on `EndpointMeant`, which takes a written
URL apart: the scheme (`KnownScheme`, `BareScheme`; an unknown one ends in an
exception, `ForeignScheme`), the authority and the prefix without its slashes
(`ReadValue`), host and port (`ReadAddress`); and on `PathsMatch`, which compares
each path builder with the segments of its resource.

The prover cannot instantiate an induction theorem over a predicate, so induction
is over sets of numbers (`SetInduction`), and what a recursive function or a fold
computes is stated as a sequence of steps (`Iterates`, `Flattens`) that such an
induction follows. For the same reason `PowerOf2` and the sums of the schedule are
functions on the numbers, and `FlattenSeq` is used for every concatenation of many.
Large numbers of the half-float code have names (`SignBit`, `HiddenBit`), because
the proofs reason about them by inequalities, and the empty text is `NoText`.

Only model-checked: liveness (`CallTerminates` of the loop and of both clients), which
needs fairness and `ENABLED`, and the six runs that end in a counterexample.

## 5. Not modelled, and the plan

Not modelled: header text that is not well formed; the OpenSSL set-up and the
close-notify of `SSL_shutdown`; real time (a slow server can hold a call longer
than `timeout_ms`, which is per receive); integers in a JSON array outside the
range of their datatype; signs and white space before the number of a port, which
`std::stoi` accepts; an IPv6 address whose first colon is followed by a number,
which the parser takes for a port; the generated protocol buffers, build files, scripts, tests.
Over HTTP `modelMetadata` asks without a version what `infer` asks with one, so
the cached names may be those of another version: `ClientConfig` has the paths as
they are, and `Reload` of `HttpInfer` covers names that do not fit the model that
answers.

What is left is proofs of results that no run states yet:

1. the bounds of `RetryLoop` (its sleeps, the tries it spends) carried over to both
   clients through the refinements;
2. action properties: a kept-alive connection is never used again after a failed
   round trip, a cache of names changes only in `modelMetadata`.
