----------------------------- MODULE HttpInfer -----------------------------
(***************************************************************************)
(* HttpClient::modelMetadata and HttpClient::infer by the contents of      *)
(* their messages.  The transport is left to HttpClient, whose theorems    *)
(* say what is assumed here: a call ends without an answer or with the     *)
(* answer to its own request, which is whole or was cut by the end of the  *)
(* stream.  A retried request may be executed several times.               *)
(***************************************************************************)
EXTENDS HttpTensors

CONSTANTS
  InputLists,  \* the arguments infer may be called with
  Models,      \* the models a server may have loaded: a sequence of tensors
  MaxOutputs,  \* bound on the tensors of a model
  MaxCalls     \* bound on the calls of a behaviour

ASSUME InferAssumption == MaxCalls \in Nat /\ MaxOutputs \in Nat

\* Callers pass elements of the datatype they state.
ASSUME InputsAssumption ==
  \A inputs \in InputLists :
    /\ inputs \in Seq(InputType)
    /\ \A n \in 1 .. Len(inputs) : inputs[n].datatype \in DOMAIN Width =>
         /\ ElementsOf(inputs[n].data, inputs[n].datatype)
         /\ ValuesFit(inputs[n].datatype, readArray(inputs[n].data, inputs[n].datatype))

\* A server states the datatype of a tensor in a way the client understands.
ASSUME ModelsAssumption ==
  \A m \in Models :
    /\ m \in Seq(TensorType) /\ Len(m) <= MaxOutputs
    /\ \A n \in 1 .. Len(m) : /\ DatatypeOf(m[n].tag) = m[n].datatype
                              /\ ValuesFit(m[n].datatype, m[n].values)

VARIABLES
  pc,             \* "idle", "sent" or "answered"
  calls,          \* calls started
  output_names_,  \* the names cached by modelMetadata
  asked,          \* the inputs of this call
  request,        \* its request
  model,          \* the model the server has loaded
  read,           \* history: the inputs the server found, none or one
  produced,       \* history: the tensors of its answer
  honest,         \* history: the sizes in it are right
  response,       \* its answer
  result,         \* how the call ended
  outputs         \* what infer returned

client == <<output_names_, asked, request>>
answer == <<read, produced, honest, response>>
ending == <<result, outputs>>
vars == <<pc, calls, client, model, answer, ending>>

NamesOf(tensors) == [n \in 1 .. Len(tensors) |-> tensors[n].name]
NoRequest == [inputs |-> <<>>, outputs |-> <<>>, blob |-> <<>>]

Init ==
  /\ pc = "idle"
  /\ calls = 0
  /\ output_names_ = <<>>
  /\ asked = <<>>
  /\ request = NoRequest
  /\ model \in Models
  /\ read = {}
  /\ produced = <<>>
  /\ honest = TRUE
  /\ response = NoResponse
  /\ result = "none"
  /\ outputs = <<>>

----------------------------------------------------------------------------
(* The client.                                                              *)

Enter ==
  /\ pc = "idle"
  /\ calls < MaxCalls
  /\ calls' = calls + 1
  /\ outputs' = <<>>
  /\ read' = {} /\ produced' = <<>> /\ honest' = TRUE /\ response' = NoResponse
  /\ UNCHANGED model

modelMetadata_mutant(k) ==
  /\ Enter
  /\ k \in 0 .. Len(model)
  /\ output_names_' = output_names_ \o SubSeq(NamesOf(model), 1, k)
  /\ result' = IF k = Len(model) THEN "value" ELSE "throw"
  /\ UNCHANGED <<pc, asked, request>>

\* modelMetadata fills the list as it reads the outputs; the k+1st may throw.
modelMetadata(k) ==
  /\ Enter
  /\ k \in 0 .. Len(model)
  /\ output_names_' = SubSeq(NamesOf(model), 1, k)
  /\ result' = IF k = Len(model) THEN "value" ELSE "throw"
  /\ UNCHANGED <<pc, asked, request>>

\* It throws before it reaches the outputs.
MetadataThrows ==
  /\ Enter
  /\ result' = "throw"
  /\ UNCHANGED <<pc, client>>

\* binary is binaryEnabled(), read anew in every call.
infer(inputs, binary) ==
  /\ Enter
  /\ asked' = inputs
  /\ IF \E n \in 1 .. Len(inputs) : InputThrows(inputs[n], binary)
     THEN pc' = pc /\ request' = NoRequest /\ result' = "throw"
     ELSE /\ pc' = "sent"
          /\ request' = RequestOf(inputs, binary, output_names_)
          /\ result' = "none"
  /\ UNCHANGED output_names_

\* No answer, or a status that is not 200.
Fails ==
  /\ pc # "idle"
  /\ pc' = "idle"
  /\ result' = "throw"
  /\ UNCHANGED <<calls, client, model, answer, outputs>>

\* The answer, or its first m pieces, and what infer makes of it.
Return(m) ==
  LET arrived == CutTo(response, m) IN
  /\ pc = "answered"
  /\ pc' = "idle"
  /\ IF InferThrows(arrived) THEN result' = "throw" /\ UNCHANGED outputs
     ELSE /\ result' = "value"
          /\ outputs' = [n \in 1 .. Len(arrived.nodes) |-> OutputOf(arrived, n)]
  /\ UNCHANGED <<calls, client, model, answer>>

----------------------------------------------------------------------------
(* The server (external).                                                   *)

\* The outputs that were asked for, or all of them.
Wanted ==
  IF request.outputs = <<>> THEN model
  ELSE FlattenSeq([n \in 1 .. Len(model) |->
         IF model[n].name \in Range(request.outputs) THEN <<model[n]>> ELSE <<>>])

\* The server executes the request, which asks for outputs the model has.
Serve(forms) ==
  /\ pc \in {"sent", "answered"}
  /\ ~ServerRejects(request)
  /\ Range(request.outputs) \subseteq Range(NamesOf(model))
  /\ Len(forms) = Len(Wanted)
  /\ \A n \in 1 .. Len(forms) : Expressible(Wanted[n], forms[n])
  /\ request.outputs = <<>> => \A n \in 1 .. Len(forms) : ~Sized(forms[n])
  /\ pc' = "answered"
  /\ read' = {ServerReads(request)}
  /\ produced' = Wanted
  /\ honest' = \A n \in 1 .. Len(forms) : forms[n] \in {"inline", "binary"}
  /\ response' = ResponseOf(Wanted, forms)
  /\ UNCHANGED <<calls, client, model, ending>>

\* A JSON document without outputs.
ServeOther ==
  /\ pc \in {"sent", "answered"}
  /\ pc' = "answered"
  /\ response' = [NoResponse EXCEPT !.json = JsonLen]
  /\ read' = {} /\ produced' = <<>> /\ honest' = TRUE
  /\ UNCHANGED <<calls, client, model, ending>>

\* Another version of the model is loaded.
Reload(m) ==
  /\ m # model
  /\ model' = m
  /\ UNCHANGED <<pc, calls, client, answer, ending>>

----------------------------------------------------------------------------

Next ==
  \/ \E k \in 0 .. MaxOutputs : modelMetadata(k)
  \/ MetadataThrows
  \/ \E inputs \in InputLists, binary \in BOOLEAN : infer(inputs, binary)
  \/ Fails
  \/ \E m \in 0 .. BodyLen(response) : Return(m)
  \/ \E len \in 0 .. MaxOutputs : \E forms \in [1 .. len -> Forms] : Serve(forms)
  \/ ServeOther
  \/ \E m \in Models : Reload(m)

Spec == Init /\ [][Next]_vars

----------------------------------------------------------------------------
(* Properties.                                                              *)

TypeOK ==
  /\ pc \in {"idle", "sent", "answered"}
  /\ calls \in 0 .. MaxCalls
  /\ Len(output_names_) <= MaxOutputs
  /\ asked \in InputLists \cup {<<>>}
  /\ model \in Models
  /\ honest \in BOOLEAN
  /\ response.json \in {0, JsonLen} /\ response.header_length \in {NoSize, JsonLen}
  /\ result \in {"none", "value", "throw"}
  /\ pc = "idle" \/ outputs = <<>>

\* Whatever the mode, the widths and the number of inputs, the server finds for
\* each input the bytes the caller passed.
InputsArrive ==
  \A found \in read : found = [n \in 1 .. Len(asked) |-> asked[n].data]

\* infer returns the tensors the server produced, each with its own bytes, for
\* any mix of inline and binary outputs; an answer cut short at any byte is an
\* exception and never a tensor with bytes missing or another's bytes.
InferReturnsTensors ==
  result = "value" /\ honest => outputs = Meant(produced)

\* Whatever sizes a server states, the binary outputs infer returns are
\* consecutive pieces of the blob, from its first byte on, of exactly those
\* sizes; one that would run past the end is an exception.
SlicesTile ==
  LET nodes == response.nodes
      bytes == FlattenSeq([n \in 1 .. Len(outputs) |->
                 IF nodes[n].size >= 0 THEN outputs[n].data ELSE <<>>])
  IN outputs # <<>> =>
       /\ \A n \in 1 .. Len(outputs) :
            nodes[n].size >= 0 => Len(outputs[n].data) = nodes[n].size
       /\ IsPrefix(bytes, response.blob)

\* include/KserveTypes.hpp: "Runs inference and returns every output the server
\* produced", with "State such as metadata caching belongs to the caller": what
\* infer returns are the outputs of the model.
EveryOutput ==
  outputs # <<>> => Range(NamesOf(outputs)) = Range(NamesOf(model))
============================================================================
