---------------------------- MODULE MCHttpInfer ----------------------------
(***************************************************************************)
(* Values of HttpInfer's constants for TLC.                                *)
(***************************************************************************)
EXTENDS HttpInfer

\* As halves: the smallest subnormal, a larger one, 1.0, and infinity, which
\* stands for a value that is not finite in FP32 and FP64 too.
MCValues == {1, 515, 15360, 31744}
MCNonFinite == {31744}

Input(T, data) == [data |-> data, has_data |-> TRUE, datatype |-> T]
Whole(T, values) == Input(T, writeArray(values, T))

\* Inputs of different widths, one no JSON array can carry, one that is not a
\* multiple of its width, one that is not finite, one without data.
MCInputs ==
  {<<Whole("INT16", <<1, 515>>), Whole("FP16", <<515, 15360>>), Whole("UINT8", <<1>>)>>,
   <<Whole("BF16", <<1>>), Whole("BOOL", <<>>)>>,
   <<Input("FP32", SubSeq(writeArray(<<1, 515>>, "FP32"), 1, 6))>>,
   <<Whole("FP32", <<1, 31744>>)>>,
   <<[Whole("FP32", <<1>>) EXCEPT !.has_data = FALSE]>>}

Tensor(name, T, values) == [datatype |-> T, values |-> values, name |-> name, tag |-> T]

\* Two versions of a model: other widths, an unstated datatype, an empty tensor,
\* halves down to the subnormals, one no JSON array can carry.
Version1 == <<Tensor("a", "FP16", <<1, 15360>>), Tensor("b", "UINT8", <<1>>)>>
Version2 ==
  <<[Tensor("a", "FP32", <<1>>) EXCEPT !.tag = ""], Tensor("c", "INT64", <<>>),
    Tensor("b", "BF16", <<1>>)>>
MCModels == {Version1, Version2}
OneModel == {Version1}
============================================================================
