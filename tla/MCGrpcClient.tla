---------------------------- MODULE MCGrpcClient ---------------------------
(***************************************************************************)
(* Values of GrpcClient's constants for TLC.                               *)
(***************************************************************************)
EXTENDS GrpcClient

\* KSERVE_MAX_RETRIES = n; the other variables are unset.
EnvWith(n) ==
  [max_retries |-> n, base_ms |-> NoNumber, max_ms |-> NoNumber, jitter |-> NoNumber]
MCEnvs == {EnvWith(0), EnvWith(1)}

\* INVALID_ARGUMENT, DEADLINE_EXCEEDED, UNAVAILABLE: one permanent, two transient.
MCCodes == {3, 4, 14}

Input(T, data) == [data |-> data, has_data |-> TRUE, datatype |-> T]
Whole(T, values) == Input(T, writeArray(values, T))

\* Two inputs of different widths, one no typed field can carry, one that is not
\* a multiple of its width, one without data.
MCInputs ==
  {<<Whole("INT16", <<1, 2>>), Whole("UINT64", <<2>>)>>, <<Whole("FP16", <<1>>)>>,
   <<Input("FP32", SubSeq(writeArray(<<1, 2>>, "FP32"), 1, 6))>>,
   <<[Whole("FP32", <<1>>) EXCEPT !.has_data = FALSE]>>}

\* Of the values, 3 stands for 2^53 + 1, which is rounded to 2^53, for which 2
\* stands; 4 for 2^63 - 1, rounded to 2^63, which is 5 and no INT64.
MCNearest ==
  [INT64 |-> <<1, 2, 2, TooLarge, TooLarge>>, UINT64 |-> <<1, 2, 2, 5, 5>>]

Tensor(T, values) == [datatype |-> T, values |-> values, tag |-> T]

\* Different widths and fields, an FP32 whose datatype is not stated, an empty
\* tensor, long integers that doubles hold and others, and the datatypes with a
\* layout of their own.
MCTensors ==
  {<<Tensor("INT8", <<1, 2>>), [Tensor("FP32", <<2>>) EXCEPT !.tag = ""],
     Tensor("INT64", <<4, 1>>), Tensor("UINT64", <<3>>)>>,
   <<Tensor("UINT32", <<>>), Tensor("BOOL", <<1>>)>>,
   <<Tensor("FP16", <<2>>), Tensor("BYTES", <<1>>)>>}
============================================================================
