------------------------------ MODULE Kernels ------------------------------
(***************************************************************************)
(* The weights of an opened model at work: gemv_parallel and the streamed  *)
(* experts of moe_ffn_stream (src/model/kernels.rs) multiply rows of       *)
(* quantised weights straight out of the files, by the scalar loops or the *)
(* vector instructions of src/model/simd.rs. A multiplication is what each *)
(* activation meets: the block, by its place in the file, and the bits in  *)
(* it. Sums and rounding are left out. A row is known by its place: which  *)
(* activation meets what follows from it, the type and the machine.        *)
(***************************************************************************)
EXTENDS Loader, Blocks

CONSTANTS
  Paths,  \* the machines: "scalar", "x86", "arm"
  Rows(_) \* which of a number of rows are looked at

ASSUME PathsAssumption == Paths \subseteq DOMAIN MultipliedBlock

VARIABLES out \* the last row multiplied: of which weight, and its products

kvars == <<vars, out>>

KInit == Init /\ out = <<>>

Gate == "ffn_gate_exps.weight"
Up == "ffn_up_exps.weight"
Down == "ffn_down_exps.weight"
Experts == {Gate, Up, Down}

n_embd == cfg["embedding_length"]
n_ff == cfg["expert_feed_forward_length"]
q_size == cfg["attention.head_count"] * cfg["attention.key_length"]
n_k == cfg["attention.head_count_kv"] * cfg["attention.key_length"]
v_size == cfg["head_v_dim"] * cfg["ssm.time_step_rank"]

\* The quantised weights of a layer that are one matrix.
Projections ==
  DenseWeights \cup
  {"attn_q.weight", "attn_k.weight", "attn_v.weight", "attn_output.weight", "attn_qkv.weight",
   "attn_gate.weight", "ssm_beta.weight", "ssm_alpha.weight", "ssm_out.weight"}

\* Activations and rows of a weight, as the layers pass them.
NIn(suffix) ==
  CASE suffix = "attn_output.weight" -> q_size
    [] suffix = "ssm_out.weight" -> v_size
    [] suffix \in {Down, "ffn_down.weight"} -> n_ff
    [] OTHER -> n_embd

NOut(suffix) ==
  CASE suffix = "attn_q.weight" -> 2 * q_size
    [] suffix \in {"attn_k.weight", "attn_v.weight"} -> n_k
    [] suffix = "attn_qkv.weight" -> cfg["conv_dim"]
    [] suffix = "attn_gate.weight" -> cfg["ba_dim"]
    [] suffix \in {"ssm_beta.weight", "ssm_alpha.weight"} -> cfg["ssm.time_step_rank"]
    [] suffix \in {Gate, Up, "ffn_gate.weight", "ffn_up.weight"} -> n_ff
    [] OTHER -> n_embd

Type(name) == by_name[name].meta.type

\* A product: the block's place in its file, and what of it is taken.
At(base, b, type, v) == [at |-> base + b * BlockBytes[type], v |-> v]

\* What activation y of a row at base is multiplied with.
Met(path, type, base, y) ==
  {At(base, y \div BlockSize[type], type, v) : v \in MultipliedBlock[path][type][y % BlockSize[type]]}

\* gemv, and a thread of gemv_parallel: where row r is.
Gemv(type, base, n_in, r) == <<"ok", base + r * TensorSize(type, n_in)>>

\* gemv_parallel on len bytes at base, row r: an error, a failed assertion, or
\* the row. Below eight rows gemv does the same without threads.
GemvParallel(type, base, len, n_in, n_out, r) ==
  IF ~Sized(type, n_in) THEN <<"Err">>
  ELSE IF len < n_out * TensorSize(type, n_in) THEN <<"assert">>
  ELSE Gemv(type, base, n_in, r)

\* An expert's part of a tensor. Rows of up are measured by the type of gate.
ExpertSlice(suffix, i, e) ==
  LET type == IF suffix = Down THEN Type(BlockName(i, Down)) ELSE Type(BlockName(i, Gate))
      stride == NOut(suffix) * TensorSize(type, NIn(suffix))
  IN [off |-> e * stride, len |-> stride]

\* Mutant of PastEnd: an expert that ends with the tensor is past its end.
PastEndOrAt(slice, len) == slice.off + slice.len >= len

PastEnd(slice, len) == slice.off + slice.len > len

\* moe_ffn_stream for expert e of layer i, row r of one of its three tensors.
MoeFfnStream(suffix, i, e, r) ==
  LET w(s) == weights[BlockName(i, s)]
      slice == ExpertSlice(suffix, i, e)
      type(s) == Type(BlockName(i, s))
  IN IF NElements(by_name[BlockName(i, "ffn_gate_inp.weight")].meta.dims) # cfg["expert_count"] * n_embd
       THEN <<"assert">>
     ELSE IF disk.debug /\ type(Gate) # type(Up) THEN <<"assert">>
     ELSE IF \E s \in Experts : ~Inside(w(s)) THEN <<"OutOfBounds">>
     ELSE IF ~Sized(type(Gate), n_embd) \/ ~Sized(type(Gate), n_ff) \/ ~Sized(type(Down), n_ff)
       THEN <<"Err">>
     ELSE IF \E s \in Experts : PastEnd(ExpertSlice(s, i, e), w(s).len) THEN <<"Err">>
     ELSE GemvParallel(type(suffix), w(suffix).offset + slice.off, slice.len,
                       NIn(suffix), NOut(suffix), r)

\* Every failure ends the program: the layers expect a result.
Report(path, suffix, i, e, r, result) ==
  /\ out' = [path |-> path, suffix |-> suffix, layer |-> i, expert |-> e, row |-> r, result |-> result]
  /\ pc' = IF result[1] = "ok" THEN pc ELSE "panic"
  /\ got' = <<>>
  /\ UNCHANGED <<disk, error, paths, shards, cfg, by_name, weights>>

\* A row of a projection of layer i: RawTensor::data and gemv_parallel.
Projected(suffix, i, r) ==
  LET name == BlockName(i, suffix)
      w == weights[name]
  IN IF ~Inside(w) THEN <<"OutOfBounds">>
     ELSE GemvParallel(Type(name), w.offset, w.len, NIn(suffix), NOut(suffix), r)

Project(path, suffix, i, r) ==
  /\ BlockName(i, suffix) \in DOMAIN weights
  /\ Report(path, suffix, i, 0, r, Projected(suffix, i, r))

\* Any expert may be among those the router picks.
Expert(path, suffix, i, e, r) ==
  /\ BlockName(i, suffix) \in DOMAIN weights
  /\ Report(path, suffix, i, e, r, MoeFfnStream(suffix, i, e, r))

\* Reading changes nothing: one read of an opened model is enough.
Fresh == got = <<>> /\ out = <<>>

RowsOf(suffix) == Rows(NOut(suffix)) \cap 0..(NOut(suffix) - 1)

\* The layers of an opened model.
Layers == IF pc = "loaded" THEN 0..(cfg["block_count"] - 1) ELSE {}

KNext ==
  \/ Probe /\ UNCHANGED out
  \/ OpenShard /\ UNCHANGED out
  \/ ReadConfig /\ UNCHANGED out
  \/ IndexShards /\ UNCHANGED out
  \/ \E name \in DOMAIN by_name : DataSlice(name) /\ UNCHANGED out
  \/ Load /\ UNCHANGED out
  \/ \E name \in DOMAIN weights : UseWeight(name) /\ Fresh /\ UNCHANGED out
  \/ \E i \in Layers, path \in Paths, suffix \in Projections :
       \E r \in RowsOf(suffix) : Fresh /\ Project(path, suffix, i, r)
  \/ \E i \in Layers, path \in Paths, suffix \in Experts :
       \E e \in 0..(cfg["expert_count"] - 1), r \in RowsOf(suffix) : Fresh /\ Expert(path, suffix, i, e, r)

KSpec == KInit /\ [][KNext]_kvars

-----------------------------------------------------------------------------
(* Properties.                                                             *)

Worked == out # <<>> /\ out.result[1] = "ok"

Weight == BlockName(out.layer, out.suffix)

\* Element k of the weight, as dequantize finds it.
Dequantized(k) ==
  LET type == Type(Weight)
      bs == BlockSize[type]
  IN At(weights[Weight].offset, k \div bs, type, DequantizedBlock[type][k % bs])

\* The number of the element activation y of the row should meet.
ElementAt(y) == (out.expert * NOut(out.suffix) + out.row) * NIn(out.suffix) + y

\* gate and up of one type, as moe_ffn_stream takes for granted.
SameTypes == out.suffix = Up => Type(Weight) = Type(BlockName(out.layer, Gate))

\* The one load of half a Q8_0 block on aarch64.
HalfBlocks == out.path = "arm" /\ Type(Weight) = "Q8_0"

\* Whatever the machine, the type and the expert, every activation is
\* multiplied once, with the very bits dequantize makes the weight's element of.
DotReadsTheSame ==
  Worked /\ SameTypes /\ ~HalfBlocks =>
    \A y \in 0..(NIn(out.suffix) - 1) :
      Met(out.path, Type(Weight), out.result[2], y) = {Dequantized(ElementAt(y))}

\* A row's products use its bytes up: its blocks follow each other to the next
\* row's, every bit of each counts, and a quant's for one activation only.
RowUsesItsBytes ==
  Worked /\ ~HalfBlocks =>
    LET type == Type(Weight)
        row == {y \in 0..(NIn(out.suffix) - 1) : y % BlockSize[type] = 0}
        begins == {p.at : p \in UNION {Met(out.path, type, out.result[2], y) : y \in row}}
    IN /\ UsedUp[out.path][type]
       /\ begins = {out.result[2] + BlockBytes[type] * b : b \in 0..(Cardinality(row) - 1)}

\* The tensor has the shape the configuration gives it, with whole blocks in a
\* row, and its bytes are there.
Shaped(suffix, i) ==
  LET name == BlockName(i, suffix)
      each == IF suffix \in Experts THEN cfg["expert_count"] ELSE 1
  IN /\ NElements(by_name[name].meta.dims) >= each * NIn(suffix) * NOut(suffix)
     /\ Sized(Type(name), NIn(suffix))
     /\ Inside(weights[name])

\* A multiplication ends the program only for a tensor that is cut off, has
\* not the shape of the configuration, or, of experts, where gate and up differ
\* in type or n_ff is not of whole blocks of their type, which nothing needs
\* (rb_ff_gate, kernels.rs:1465).
FailsOnlyByShape ==
  out # <<>> /\ ~Worked =>
    IF out.suffix \in Experts
    THEN \/ \E s \in Experts : ~Shaped(s, out.layer)
         \/ Type(BlockName(out.layer, Gate)) # Type(BlockName(out.layer, Up))
         \/ ~Sized(Type(BlockName(out.layer, Gate)), n_ff)
         \/ NElements(by_name[BlockName(out.layer, "ffn_gate_inp.weight")].meta.dims)
              # cfg["expert_count"] * n_embd
    ELSE ~Shaped(out.suffix, out.layer)

\* simd.rs:17: quantised integer dot products are exact; only the scaling of
\* whole blocks may differ from the scalar code.
SimdExact ==
  Worked => \A y \in 0..(NIn(out.suffix) - 1) :
    Met(out.path, Type(Weight), out.result[2], y) = Met("scalar", Type(Weight), out.result[2], y)
=============================================================================
