---------------------------- MODULE GrpcContents ---------------------------
(***************************************************************************)
(* How src/KserveGrpcClient.cpp writes input tensors into a                *)
(* ModelInferRequest and reads output tensors from a ModelInferResponse,   *)
(* as raw bytes or in the typed fields of InferTensorContents.             *)
(***************************************************************************)
EXTENDS TensorBytes

\* The integers that a double may be too narrow for.
LongInts == {"INT64", "UINT64"}

CONSTANTS
  Nearest,    \* by its datatype, the integer that the double nearest to a long one is
  TooLarge,   \* what it is when that is out of the datatype's range
  Undefined   \* the integer this build makes of a double out of range

ASSUME DoublesAssumption ==
  /\ TooLarge \notin Values /\ Undefined \in Values
  /\ Nearest \in [LongInts -> [Values -> Values \cup {TooLarge}]]

\* InferTensorContents, and one with nothing in it.
Fields ==
  {"bool_contents", "int_contents", "int64_contents", "uint_contents",
   "uint64_contents", "fp32_contents", "fp64_contents", "bytes_contents"}
NoContents == [f \in Fields |-> <<>>]

\* The field each datatype travels in, for a server.
ServerField ==
  [FP32 |-> "fp32_contents", FP64 |-> "fp64_contents", BOOL |-> "bool_contents",
   INT8 |-> "int_contents", INT16 |-> "int_contents", INT32 |-> "int_contents",
   INT64 |-> "int64_contents", UINT8 |-> "uint_contents", UINT16 |-> "uint_contents",
   UINT32 |-> "uint_contents", UINT64 |-> "uint64_contents", BYTES |-> "bytes_contents"]

----------------------------------------------------------------------------
(* Bytes and values.                                                        *)

\* static_cast to the datatype: undefined behaviour for a double out of range.
\* Every other value there is fits its datatype, whichever field it is in.
static_cast(value) == IF value = TooLarge THEN Undefined ELSE value

appendBytes(T, range) == writeArray([n \in 1 .. Len(range) |-> static_cast(range[n])], T)
fillContents(bytes, T) == readArray(bytes, T)

----------------------------------------------------------------------------
(* Requests.                                                                *)

\* A KserveInputTensor.
InputType == [data : Seq(Byte), has_data : BOOLEAN, datatype : STRING]

\* KSERVE_BINARY as rawContentsEnabled tells its values apart.
KserveBinary == {"unset", "falsey", "other"}
rawContentsEnabled(kserve_binary) == kserve_binary # "falsey"

\* The field encodeInput fills; it throws for a datatype that is not here.
EncodeField ==
  [FP32 |-> "fp32_contents", FP64 |-> "fp64_contents", BOOL |-> "uint_contents",
   INT8 |-> "int_contents", INT16 |-> "int_contents", INT32 |-> "int_contents",
   INT64 |-> "int64_contents", UINT8 |-> "uint_contents", UINT16 |-> "uint_contents",
   UINT32 |-> "uint_contents", UINT64 |-> "uint64_contents"]

EncodeThrows(input) ==
  input.datatype \notin DOMAIN EncodeField \/ Misaligned(input.data, input.datatype)

encodeInput_mutant(input) ==
  [NoContents EXCEPT !["int_contents"] = fillContents(input.data, input.datatype)]

encodeInput(input) ==
  [NoContents EXCEPT ![EncodeField[input.datatype]] =
     fillContents(input.data, input.datatype)]

\* infer throws on an input before anything is sent.
InputThrows(input, raw_contents) ==
  ~input.has_data \/ (~raw_contents /\ EncodeThrows(input))

NoRequest == [inputs |-> <<>>, raw_input_contents |-> <<>>]

RequestOf(inputs, raw_contents) ==
  [inputs |-> [n \in 1 .. Len(inputs) |->
     [datatype |-> inputs[n].datatype,
      contents |-> IF raw_contents THEN NoContents ELSE encodeInput(inputs[n])]],
   raw_input_contents |->
     IF raw_contents THEN [n \in 1 .. Len(inputs) |-> inputs[n].data] ELSE <<>>]

\* The bytes a server finds for each input of a request.
ServerReads(request) ==
  [n \in 1 .. Len(request.inputs) |->
     LET T == request.inputs[n].datatype IN
     IF Len(request.raw_input_contents) > 0 THEN request.raw_input_contents[n]
     ELSE writeArray(request.inputs[n].contents[ServerField[T]], T)]

----------------------------------------------------------------------------
(* Responses.                                                               *)

\* A tensor of the server; tag is what the response says of its datatype.
TensorType == [datatype : STRING, values : Seq(Values), tag : STRING]

\* response.Clear()
NoResponse == [ready |-> FALSE, outputs |-> <<>>, raw_output_contents |-> <<>>]

\* Ways to lay out the tensors of a response: raw bytes, the typed fields, raw
\* bytes for the first output only, and numbers widened into fp64_contents as
\* runtimes before 0.3 did, where a long integer becomes the nearest double.
Styles == {"raw", "typed", "mixed", "fp64"}

Expressible(tensors, style) ==
  \A n \in 1 .. Len(tensors) :
    LET T == tensors[n].datatype IN
    CASE style = "raw" \/ (style = "mixed" /\ n = 1) -> T \in DOMAIN Width
      [] style = "fp64" -> T \in DOMAIN EncodeField \ {"BOOL"}
      [] OTHER -> T \in DOMAIN ServerField

AsDoubles(values, T) ==
  IF T \in LongInts THEN [n \in 1 .. Len(values) |-> Nearest[T][values[n]]] ELSE values

ResponseOf(ready, tensors, style) ==
  LET RawCount == CASE style = "raw" -> Len(tensors)
                    [] style = "mixed" /\ Len(tensors) > 0 -> 1
                    [] OTHER -> 0
      FieldOf(T) == IF style = "fp64" THEN "fp64_contents" ELSE ServerField[T]
      Laid(tensor) == IF style = "fp64" THEN AsDoubles(tensor.values, tensor.datatype)
                      ELSE tensor.values
  IN [ready |-> ready,
      outputs |-> [n \in 1 .. Len(tensors) |->
        [tag |-> tensors[n].tag,
         contents |-> IF n <= RawCount THEN NoContents
                      ELSE [NoContents EXCEPT ![FieldOf(tensors[n].datatype)] =
                              Laid(tensors[n])]]],
      raw_output_contents |-> [n \in 1 .. RawCount |->
        writeArray(tensors[n].values, tensors[n].datatype)]]

\* The field contentsToBytes reads; it throws for a datatype that is not here.
DecodeField == [EncodeField EXCEPT !["BOOL"] = "bool_contents"]

DatatypeOf(tag) == IF tag = "" THEN "FP32" ELSE tag

contentsToBytes_mutant(contents, T) == appendBytes(T, contents[DecodeField[T]])

\* appendBytesOrFp64Fallback, and plain appendBytes for FP64 and BOOL.
contentsToBytes(contents, T) ==
  LET range == contents[DecodeField[T]] IN
  appendBytes(T, IF Len(range) > 0 \/ T = "BOOL" THEN range
                 ELSE contents["fp64_contents"])

IsRaw(response, n) == n <= Len(response.raw_output_contents)

OutputThrows(response) ==
  \E n \in 1 .. Len(response.outputs) :
    ~IsRaw(response, n) /\ DatatypeOf(response.outputs[n].tag) \notin DOMAIN DecodeField

OutputsOf(response) ==
  [n \in 1 .. Len(response.outputs) |->
     LET T == DatatypeOf(response.outputs[n].tag) IN
     [datatype |-> T,
      data |-> IF IsRaw(response, n) THEN response.raw_output_contents[n]
               ELSE contentsToBytes(response.outputs[n].contents, T)]]

\* What a server that produced these tensors means its caller to get: their
\* bytes, but for those of a long integer that no double in its range equals and
\* that was widened to one.
Exact(value, T, style) == style = "fp64" /\ T \in LongInts => Nearest[T][value] = value
Returned(output, tensor, style) ==
  LET T == tensor.datatype
      bytes == writeArray(tensor.values, T)
  IN /\ output.datatype = T
     /\ Len(output.data) = Len(bytes)
     /\ \A m \in 1 .. Len(bytes) :
          Exact(bytes[m][2], T, style) => output.data[m] = bytes[m]
Meant(outputs, tensors, style) ==
  /\ Len(outputs) = Len(tensors)
  /\ \A n \in 1 .. Len(tensors) : Returned(outputs[n], tensors[n], style)
============================================================================
