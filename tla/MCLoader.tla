------------------------------ MODULE MCLoader ------------------------------
(***************************************************************************)
(* Five kinds of disks: one file cut at every byte; models of two or three *)
(* shards with tensors listed once, twice or nowhere; whole models that    *)
(* lack a tensor; configurations that differ in one entry; and models      *)
(* quantised in several ways, whose weights are multiplied.                *)
(***************************************************************************)
EXTENDS Kernels

Name(idx, of) == [stem |-> "m", idx |-> idx, of |-> of]
Plain == Name(0, 0)

KV(key, value) == [key |-> key, value |-> value]
U(key, n) == KV(key, Scalar("U32", n))

\* A tensor of n F32 values with its data, and one that is only listed.
Tensor(name, n) ==
  [name |-> name, type |-> "F32", dims |-> <<n>>, data |-> 4 * n]
Listed(name, n) == [Tensor(name, n) EXCEPT !.data = 0]

File(metadata, tensors, alignment) ==
  [metadata |-> metadata, tensors |-> tensors, alignment |-> alignment]

\* More bytes than any of the files has.
Whole == 100000

\* How much of a file is there when its last n bytes are not.
But(spec, n) == IF n < Build(spec).len THEN Build(spec).len - n ELSE 0

Ordered(S) == FoldSet(LAMBDA x, s : Append(s, x), <<>>, S)

One(spec, cut) == [files |-> Plain :> spec, cut |-> Plain :> cut, first |-> Plain, debug |-> TRUE]

-----------------------------------------------------------------------------
(* One file, cut anywhere.                                                 *)

Kinds == <<KV("i8", Scalar("I8", -1)), KV("bool", Scalar("Bool", TRUE)),
           KV("str", Scalar("String", "ab")), KV("u64", Scalar("U64", 7)),
           KV("list", ArrayOf("String", <<Scalar("String", "x"), Scalar("String", "yz")>>)),
           KV("nest", ArrayOf("Array", <<ArrayOf("U16", <<Scalar("U16", 1)>>), ArrayOf("U16", <<>>)>>)),
           KV("i8", Scalar("I16", 2))>>

Alignments == {<<32, <<>>>>, <<64, <<U("general.alignment", 64)>>>>, <<8, <<>>>>,
               <<8, <<U("general.alignment", 32), U("general.alignment", 8)>>>>,
               <<32, <<U("general.alignment", 24)>>>>,
               <<32, <<KV("general.alignment", Scalar("U64", 32))>>>>}

SmallFiles ==
  {File(Kinds \o a[2], ts, a[1]) : a \in Alignments,
     ts \in {<<>>, <<Tensor("a", 3), Listed("e", 0), [Tensor("b", 4) EXCEPT !.dims = <<2, 2>>]>>}}

CutFiles == UNION {{One(f, n) : n \in 0..Build(f).len} : f \in SmallFiles}

-----------------------------------------------------------------------------
(* Configurations.                                                         *)

Numbers ==
  ("block_count" :> 2) @@ ("embedding_length" :> 4) @@ ("attention.head_count" :> 2)
    @@ ("attention.head_count_kv" :> 1) @@ ("attention.key_length" :> 4) @@ ("expert_count" :> 2)
    @@ ("expert_used_count" :> 1) @@ ("expert_feed_forward_length" :> 4)
    @@ ("expert_shared_feed_forward_length" :> 4) @@ ("ssm.state_size" :> 4)
    @@ ("ssm.group_count" :> 2) @@ ("ssm.time_step_rank" :> 2) @@ ("ssm.conv_kernel" :> 4)
    @@ ("full_attention_interval" :> 2)

Ints(s) == ArrayOf("I32", [i \in DOMAIN s |-> Scalar("I32", s[i])])

Others == ("attention.layer_norm_rms_epsilon" :> Scalar("F32", 1))
            @@ ("rope.dimension_sections" :> Ints(<<1, 1, 0, 0>>))

Settings == [k \in DOMAIN Numbers \cup DOMAIN Others |->
             IF k \in DOMAIN Numbers THEN Scalar("U32", Numbers[k]) ELSE Others[k]]

Entries(arch, values) ==
  LET keys == Ordered(DOMAIN values)
  IN <<KV("general.architecture", Scalar("String", arch))>>
       \o [i \in DOMAIN keys |-> KV(arch \o "." \o keys[i], values[keys[i]])]

Base == Entries("qwen35moe", Settings)

N(n) == Scalar("U32", n)

Changes ==
  {k :> x : k \in {"block_count", "attention.head_count_kv", "ssm.group_count",
                   "ssm.time_step_rank", "full_attention_interval", "expert_used_count"},
            x \in {N(0), N(3), Scalar("U64", 1), Scalar("U8", 1), Scalar("I16", -1)}}
    \cup {"ssm.inner_size" :> N(n) : n \in {4, 8}}
    \cup {("ssm.inner_size" :> N(n)) @@ ("ssm.time_step_rank" :> N(r)) : n \in {4, 8}, r \in {0, 1, 4}}
    \cup {("ssm.state_size" :> N(2048)) @@ ("ssm.time_step_rank" :> N(r)) : r \in {256, 508, 512, 600}}
    \cup {("attention.key_length" :> N(n)) : n \in {5, 262144}}
    \cup {("attention.key_length" :> N(4)) @@ ("attention.value_length" :> N(n)) : n \in {4, 5}}
    \cup {"rope.dimension_sections" :> Ints(s) : s \in {<<1, 1>>, <<40, 30, -7, 0>>, <<40, 30, 0, 0>>}}
    \cup {"rope.dimension_count" :> x : x \in {N(2), N(3), Scalar("F32", 1)}}
    \cup {"attention.layer_norm_rms_epsilon" :> x : x \in {Scalar("F32", 0), N(1)}}
    \cup {"rope.freq_base" :> Scalar("F32", n) : n \in {0, 1}}

Configs ==
  {[One(File(Entries(arch, ch @@ Settings), <<>>, 32), Whole) EXCEPT !.debug = d] :
     arch \in {"qwen35moe", "qwen3_5moe", "llama"}, ch \in Changes, d \in BOOLEAN}

-----------------------------------------------------------------------------
(* Models of several shards.                                               *)

A == Tensor("a", 4)
B == Tensor("b", 4)

Contents2 == {<<>>, <<A>>, <<B>>, <<A, B>>, <<B, Listed("a", 4)>>, <<Listed("a", 4), B>>}

SplitMeta(no, of, config) ==
  <<U("split.count", of), KV("split.no", Scalar("U16", no))>> \o (IF config THEN Base ELSE <<>>)

Shard(i, of, ts, config) == File(SplitMeta(i - 1, of, config), ts, 32)

Splits ==
  {[files |-> (Name(1, 2) :> Shard(1, 2, ts[1], c = 1)) @@ (Name(2, 2) :> Shard(2, 2, ts[2], c = 2)),
    cut |-> (Name(1, 2) :> But(Shard(1, 2, ts[1], c = 1), cut[1]))
              @@ (Name(2, 2) :> But(Shard(2, 2, ts[2], c = 2), cut[2])),
    first |-> Name(f, 2), debug |-> FALSE] :
     ts \in [1..2 -> Contents2], c \in 0..2, cut \in [1..2 -> {0, 1, 17, 200}], f \in 1..2}

\* Three shards, the last perhaps missing, opened under several names.
Three(present, first) ==
  [files |-> [p \in {Name(i, 3) : i \in 1..present} \cup {first} |->
                Shard(IF p.idx = 0 THEN 3 ELSE p.idx, 3, IF p.idx = 1 THEN <<>> ELSE IF p.idx = 2 THEN <<A>> ELSE <<B>>, p.idx = 1)],
   cut |-> [p \in {Name(i, 3) : i \in 1..present} \cup {first} |-> Whole],
   first |-> first, debug |-> FALSE]

Threes == {Three(n, first) : n \in 2..3,
             first \in {Name(1, 3), Name(2, 3), Name(3, 3), Name(4, 3), Name(2, 4), Plain}}

-----------------------------------------------------------------------------
(* Whole models.                                                           *)

Full(c) == Ordered(ExpectedTensors(c)) \o <<"extra">>

TinyCfg == ("block_count" :> 2) @@ ("full_attention_interval" :> 2)

Dense == {BlockName(i, s) : i \in 0..1, s \in DenseWeights}

Model(values, names, short) ==
  LET f == File(<<U("general.alignment", 8)>> \o Entries("qwen35moe", values @@ Settings),
                [i \in DOMAIN names |-> Tensor(names[i], 1)], 8)
  IN One(f, But(f, short))

Without(names, x) == SelectSeq(names, LAMBDA n : n # x)

F16Model(name) ==
  LET m == Model(<<>>, Full(TinyCfg), 0)
  IN [m EXCEPT !.files[Plain].tensors =
        [i \in DOMAIN @ |-> IF @[i].name = name THEN [@[i] EXCEPT !.type = "F16"] ELSE @[i]]]

Models ==
  {Model(<<>>, Without(Full(TinyCfg), x), 0) : x \in ExpectedTensors(TinyCfg) \cup {"extra"}}
    \cup {Model(<<>>, Full(TinyCfg), short) : short \in {1, 5, 100}}
    \cup {Model("expert_shared_feed_forward_length" :> N(0), Full(TinyCfg), 0),
          Model("expert_count" :> N(0), Full(TinyCfg), 0),
          Model("expert_count" :> N(0), Full(TinyCfg) \o Ordered(Dense), 0),
          Model("full_attention_interval" :> N(1), Full(TinyCfg), 0)}
    \cup {F16Model(n) : n \in {"ssm_a", "output.weight", "extra"}}

-----------------------------------------------------------------------------
(* Quantised models. The mixture has three experts; every row has one block *)
(* of the K types or more.                                                 *)

Sizes == ("embedding_length" :> N(256)) @@ ("attention.key_length" :> N(128))
           @@ ("expert_feed_forward_length" :> N(512)) @@ ("expert_count" :> N(3))
           @@ ("ssm.state_size" :> N(128))

Dims ==
  ("attn_q.weight" :> <<256, 512>>) @@ ("attn_k.weight" :> <<256, 128>>)
    @@ ("attn_v.weight" :> <<256, 128>>) @@ ("attn_output.weight" :> <<256, 256>>)
    @@ ("attn_qkv.weight" :> <<256, 768>>) @@ ("attn_gate.weight" :> <<256, 256>>)
    @@ ("ssm_beta.weight" :> <<256, 2>>) @@ ("ssm_alpha.weight" :> <<256, 2>>)
    @@ ("ssm_out.weight" :> <<256, 256>>) @@ ("ffn_gate_inp.weight" :> <<256, 3>>)
    @@ (Gate :> <<256, 512, 3>>) @@ (Up :> <<256, 512, 3>>) @@ (Down :> <<512, 256, 3>>)
    @@ ("ffn_gate.weight" :> <<256, 512>>) @@ ("ffn_up.weight" :> <<256, 512>>)
    @@ ("ffn_down.weight" :> <<512, 256>>)

All(type) == [s \in DOMAIN Dims \ {"ffn_gate_inp.weight"} |-> type]

\* The tensor of a name: one of the shaped ones, or a single number.
Quantised(name, types, dims) ==
  LET is == {s \in DOMAIN dims : \E i \in 0..1 : name = BlockName(i, s)}
      s == CHOOSE x \in is : TRUE
      type == IF s \in DOMAIN types THEN types[s] ELSE "F32"
  IN IF is = {} THEN Tensor(name, 1)
     ELSE [name |-> name, type |-> type, dims |-> dims[s],
           data |-> TensorSize(type, NElements(dims[s]))]

QModelOf(names, types, dims, values, short, debug) ==
  LET f == File(Entries("qwen35moe", values @@ Sizes @@ Settings),
                [i \in DOMAIN names |-> Quantised(names[i], types, dims)], 32)
  IN [One(f, But(f, short)) EXCEPT !.debug = debug]

QModel(types, dims, values, short, debug) ==
  QModelOf(Full(TinyCfg), types, dims, values, short, debug)

\* A model without experts, its weights last in the file or cut off.
DenseModel(types, short) ==
  QModelOf(Full(TinyCfg) \o Ordered(Dense), types, Dims, "expert_count" :> N(0), short, FALSE)

Types == {"F32", "Q8_0", "Q4_K", "Q5_K", "Q6_K"}

\* A down projection of another type, as mixed quantisations have.
Mixed == (Down :> "Q6_K") @@ All("Q4_K")

\* Rows of 96 for the down projection, whole blocks of Q8_0 alone.
Rows96 == (Gate :> <<256, 96, 3>>) @@ (Up :> <<256, 96, 3>>) @@ (Down :> <<96, 256, 3>>) @@ Dims

QModels ==
  {QModel(All(t), Dims, <<>>, 0, TRUE) : t \in Types}
    \cup {QModel(Mixed, Dims, <<>>, short, FALSE) : short \in {0, 1, 300000, 1400000}}
    \cup {QModel((Up :> t) @@ All("Q5_K"), Dims, <<>>, 0, d) : t \in {"Q4_K", "Q6_K"}, d \in BOOLEAN}
    \cup {QModel(All("Q4_K"), (s :> <<256, 512, 2>>) @@ Dims, <<>>, 0, FALSE) : s \in {Gate, Down}}
    \cup {QModel(All("Q4_K"), ("ffn_gate_inp.weight" :> <<256>>) @@ Dims, <<>>, 0, FALSE),
          QModel(All("Q4_K"), Dims, "embedding_length" :> N(128), 0, FALSE),
          QModel((Down :> "Q8_0") @@ All("Q4_K"), Rows96, "expert_feed_forward_length" :> N(96), 0, FALSE),
          DenseModel(("ffn_down.weight" :> "Q8_0") @@ All("Q6_K"), 0), DenseModel(All("Q4_K"), 100000)}

\* The first row of n and the last.
Ends(n) == {0, n - 1}

\* Models of one type each, for the instructions alone.
SimdDisks == {QModel(All(t), Dims, <<>>, 0, FALSE) : t \in Types}

MCDisks == CutFiles \cup Configs \cup Splits \cup Threes \cup Models \cup QModels
=============================================================================
