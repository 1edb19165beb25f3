-------------------------------- MODULE Quant --------------------------------
(***************************************************************************)
(* The size of quantised tensors and the pages they lie on                 *)
(* (src/model/quant.rs).                                                   *)
(***************************************************************************)
EXTENDS Integers, Sequences

QK_K == 256
PAGE == 4096

\* Elements and bytes of one block, for the types the program decodes.
BlockSize == [F32 |-> 1, Q8_0 |-> 32, Q4_K |-> QK_K, Q5_K |-> QK_K, Q6_K |-> QK_K]

BlockBytes == [F32 |-> 4, Q8_0 |-> 34, Q4_K |-> 144, Q5_K |-> 176, Q6_K |-> 210]

\* tensor_size gives an answer: a known type and whole blocks.
Sized(type, n) == type \in DOMAIN BlockSize /\ n % BlockSize[type] = 0

TensorSize(type, n) == (n \div BlockSize[type]) * BlockBytes[type]
=============================================================================
