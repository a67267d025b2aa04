---------------------------- MODULE HttpTensors ----------------------------
(***************************************************************************)
(* The contents of an inference over HTTP: what HttpClient::infer puts     *)
(* into a request and takes out of a response, as JSON arrays or in the    *)
(* Binary Tensor Data Extension, with the helpers of                       *)
(* src/KserveProtocol.cpp.                                                 *)
(*                                                                         *)
(* A body is a JSON text of JsonLen pieces, then a blob of bytes.  Numbers *)
(* survive the text exactly, as nlohmann::json writes them.                *)
(***************************************************************************)
EXTENDS TensorBytes, HalfFloat, SequencesExt

CONSTANT NonFinite  \* the FP32 and FP64 values that are not finite

JsonLen == 2
NoSize == -1

----------------------------------------------------------------------------
(* The tensor codec.                                                        *)

Encodable == DOMAIN Width \ {"BF16"}

IsFinite(T, v) ==
  CASE T = "FP16" -> ExpOf(v) # 31
    [] T \in {"FP32", "FP64"} -> v \notin NonFinite
    [] OTHER -> TRUE

\* dump() writes null for a number that is not finite, and get<> throws on one.
Null == <<"null">>
Text(T, v) ==
  IF IsFinite(T, v) THEN <<"number", IF T = "FP16" THEN halfToFloat(v) ELSE v>> ELSE Null

EncodeThrows(bytes, T) == T \notin Encodable \/ Misaligned(bytes, T)
encodeTensorData(bytes, T) ==
  LET v == readArray(bytes, T) IN [n \in 1 .. Len(v) |-> Text(T, v[n])]

DecodeThrows(data, T) == T \notin Encodable \/ \E n \in 1 .. Len(data) : data[n] = Null
decodeTensorData(data, T) ==
  writeArray([n \in 1 .. Len(data) |->
                IF T = "FP16" THEN floatToHalf(data[n][2]) ELSE data[n][2]], T)

----------------------------------------------------------------------------
(* The binary extension.  A node is the JSON of a tensor: size is its       *)
(* binary_data_size, if it has one, data its inline array, if it has_data.  *)

SizeOf(node) == IF node.size >= 0 THEN node.size ELSE 0

\* Where the bytes of each node end: the running offset.
Ends(nodes) ==
  LET end[n \in 0 .. Len(nodes)] == IF n = 0 THEN 0 ELSE end[n - 1] + SizeOf(nodes[n])
  IN end

SliceThrows(blob, offset, size) == offset > Len(blob) \/ size > Len(blob) - offset
sliceBlob(blob, offset, size) == SubSeq(blob, offset + 1, offset + size)

----------------------------------------------------------------------------
(* Requests.                                                                *)

InputType == [data : Seq(Byte), has_data : BOOLEAN, datatype : STRING]

\* The values of an FP16 are bits.
ValuesFit(T, values) == T = "FP16" => Range(values) \subseteq Half

InputThrows(input, binary) ==
  ~input.has_data \/ (~binary /\ EncodeThrows(input.data, input.datatype))

appendBinaryInput(input) ==
  [datatype |-> input.datatype, size |-> Len(input.data), data |-> <<>>]
InlineInput(input) ==
  [datatype |-> input.datatype, size |-> NoSize,
   data |-> encodeTensorData(input.data, input.datatype)]

RequestOf_mutant(inputs, binary, names) ==
  [inputs |-> [n \in 1 .. Len(inputs) |->
     IF binary THEN appendBinaryInput(inputs[n]) ELSE InlineInput(inputs[n])],
   outputs |-> IF binary THEN names ELSE <<>>,
   blob |-> IF binary
            THEN FlattenSeq([n \in 1 .. Len(inputs) |-> inputs[Len(inputs) + 1 - n].data])
            ELSE <<>>]

\* outputs: the names sent with binary_data = true; none means no such field.
RequestOf(inputs, binary, names) ==
  [inputs |-> [n \in 1 .. Len(inputs) |->
     IF binary THEN appendBinaryInput(inputs[n]) ELSE InlineInput(inputs[n])],
   outputs |-> IF binary THEN names ELSE <<>>,
   blob |-> IF binary THEN FlattenSeq([n \in 1 .. Len(inputs) |-> inputs[n].data])
            ELSE <<>>]

\* A server rejects an array with a null in it, and finds these bytes otherwise.
ServerRejects(request) ==
  \E n \in 1 .. Len(request.inputs) : Null \in Range(request.inputs[n].data)

ServerReads(request) ==
  [n \in 1 .. Len(request.inputs) |->
     LET node == request.inputs[n]
         T == node.datatype
         Number(x) == IF T = "FP16" THEN CHOOSE h \in Values \cap Half : SameValue(h, x) ELSE x
     IN IF node.size >= 0
        THEN sliceBlob(request.blob, Ends(request.inputs)[n - 1], node.size)
        ELSE writeArray([k \in 1 .. Len(node.data) |-> Number(node.data[k][2])], T)]

----------------------------------------------------------------------------
(* Responses.  A tensor's tag is what the response says of its datatype.    *)

TensorType == [datatype : STRING, values : Seq(Values), name : STRING, tag : STRING]

\* How a server may give a tensor: inline, as bytes, or as bytes with a size
\* that is not theirs.
Forms == {"inline", "binary", "short", "long"}
Sized(form) == form # "inline"
Expressible(t, form) == t.datatype \in IF Sized(form) THEN DOMAIN Width ELSE Encodable

NodeOf(t, form) ==
  LET len == Len(t.values) * Width[t.datatype] IN
  [name |-> t.name, tag |-> t.tag, has_data |-> ~Sized(form),
   size |-> CASE form = "inline" -> NoSize
              [] form = "binary" -> len
              [] form = "short" -> len - 1
              [] form = "long" -> len + 1,
   data |-> IF Sized(form) THEN <<>>
            ELSE [n \in 1 .. Len(t.values) |-> Text(t.datatype, t.values[n])]]

BlobOf(tensors, forms) ==
  FlattenSeq([n \in 1 .. Len(tensors) |->
    IF Sized(forms[n]) THEN writeArray(tensors[n].values, tensors[n].datatype) ELSE <<>>])

\* The response to a request with these outputs; what arrives of it are the
\* first pieces.  header_length is Inference-Header-Content-Length, sent with a
\* blob.
NoResponse == [blob |-> <<>>, nodes |-> <<>>, json |-> 0, header_length |-> NoSize,
               has_outputs |-> FALSE]

ResponseOf(tensors, forms) ==
  [header_length |-> IF \E n \in 1 .. Len(forms) : Sized(forms[n]) THEN JsonLen ELSE NoSize,
   json |-> JsonLen, has_outputs |-> TRUE,
   nodes |-> [n \in 1 .. Len(tensors) |-> NodeOf(tensors[n], forms[n])],
   blob |-> BlobOf(tensors, forms)]

BodyLen(response) == response.json + Len(response.blob)
CutTo(response, m) ==
  [response EXCEPT !.json = IF m < @ THEN m ELSE @,
                   !.blob = SubSeq(@, 1, m - response.json)]

DatatypeOf(tag) == IF tag = "" THEN "FP32" ELSE tag
IsBinary(response) == response.header_length >= 0

\* header_length beyond the body, or JSON that is not whole.
splitThrows(response) ==
  \/ IsBinary(response) /\ response.header_length > BodyLen(response)
  \/ response.json < JsonLen

InferThrows(response) ==
  \/ splitThrows(response)
  \/ ~response.has_outputs
  \/ \E n \in 1 .. Len(response.nodes) :
       LET node == response.nodes[n] IN
       IF IsBinary(response) /\ node.size >= 0
       THEN SliceThrows(response.blob, Ends(response.nodes)[n - 1], node.size)
       ELSE node.has_data /\ DecodeThrows(node.data, DatatypeOf(node.tag))

OutputOf_mutant(response, n) ==
  LET node == response.nodes[n]
      T == DatatypeOf(node.tag)
  IN [name |-> node.name, datatype |-> T,
      data |-> IF IsBinary(response) /\ node.size >= 0
               THEN sliceBlob(response.blob, 0, node.size)
               ELSE IF node.has_data THEN decodeTensorData(node.data, T) ELSE <<>>]

OutputOf(response, n) ==
  LET node == response.nodes[n]
      T == DatatypeOf(node.tag)
  IN [name |-> node.name, datatype |-> T,
      data |-> IF IsBinary(response) /\ node.size >= 0
               THEN sliceBlob(response.blob, Ends(response.nodes)[n - 1], node.size)
               ELSE IF node.has_data THEN decodeTensorData(node.data, T) ELSE <<>>]

\* What a server that produced these tensors means its caller to get.
Meant(tensors) ==
  [n \in 1 .. Len(tensors) |->
     [name |-> tensors[n].name, datatype |-> tensors[n].datatype,
      data |-> writeArray(tensors[n].values, tensors[n].datatype)]]
============================================================================
