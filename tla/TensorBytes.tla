---------------------------- MODULE TensorBytes ----------------------------
(***************************************************************************)
(* Tensors as raw bytes.  A byte is <<T, v, k>>: byte k of the             *)
(* representation of v as a T.  What is told apart is the datatype a value *)
(* is written and read as, its width, and which bytes belong together;     *)
(* values are in the range of their datatype.                              *)
(***************************************************************************)
EXTENDS Integers, Sequences

CONSTANT Values  \* the values of tensor elements; of an FP16, its bits

\* datatypeByteWidth; 0, for BYTES and unknown datatypes, is not in the table.
Width ==
  [FP32 |-> 4, FP64 |-> 8, FP16 |-> 2, BF16 |-> 2, BOOL |-> 1,
   INT8 |-> 1, INT16 |-> 2, INT32 |-> 4, INT64 |-> 8,
   UINT8 |-> 1, UINT16 |-> 2, UINT32 |-> 4, UINT64 |-> 8]

\* A byte of an element; and what a caller passes as elements of T: every
\* Width[T] bytes in a row represent a value, a rest at the end need not.
Byte == STRING \X Values \X Nat
ElementsOf(bytes, T) ==
  \A n \in 1 .. Len(bytes) \div Width[T] : \E v \in Values :
    \A k \in 1 .. Width[T] : bytes[(n - 1) * Width[T] + k] = <<T, v, k>>

Misaligned(bytes, T) == Len(bytes) % Width[T] # 0

readArray(bytes, T) ==
  [n \in 1 .. Len(bytes) \div Width[T] |->
     CHOOSE v \in Values :
       \A k \in 1 .. Width[T] : bytes[(n - 1) * Width[T] + k] = <<T, v, k>>]

writeArray(range, T) ==
  [m \in 1 .. Len(range) * Width[T] |->
     <<T, range[(m - 1) \div Width[T] + 1], ((m - 1) % Width[T]) + 1>>]
============================================================================
