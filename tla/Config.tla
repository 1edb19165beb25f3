------------------------------- MODULE Config -------------------------------
(***************************************************************************)
(* The configuration: what src/model/config.rs reads out of a file's       *)
(* metadata, what it accepts, and the tensors it expects. A configuration  *)
(* is a function from the keys (without the architecture's prefix) and the *)
(* derived dimensions to numbers. The two floating-point values are their  *)
(* sign; 32-bit numbers are counted modulo U32, so that the products       *)
(* overflow on small instances.                                            *)
(***************************************************************************)
EXTENDS GgufTypes

CONSTANTS
  U32,             \* what 32-bit arithmetic is modulo
  DefaultContext   \* context_length when the file does not say

ASSUME WidthAssumption == U32 \in Nat \ {0}

Architectures == {"qwen35moe", "qwen3_5moe"}

Required == {"block_count", "embedding_length", "attention.head_count", "attention.head_count_kv",
             "attention.key_length", "expert_count", "expert_used_count",
             "expert_feed_forward_length", "expert_shared_feed_forward_length",
             "ssm.state_size", "ssm.group_count", "ssm.time_step_rank", "ssm.conv_kernel",
             "full_attention_interval"}

Reject(e) == [err |-> e]

Product(a, b) == (a * b) % U32

\* Mutant of HeadVDim: the heads of the keys for those of the values.
HeadVDimByGroup(inner, c) ==
  IF inner = <<>> THEN c["ssm.state_size"] ELSE inner[1] \div c["ssm.group_count"]

\* ssm.inner_size is optional.
HeadVDim(inner, c) ==
  IF inner = <<>> THEN c["ssm.state_size"] ELSE inner[1] \div c["ssm.time_step_rank"]

\* What the 32-bit products would be in full.
Products(c) ==
  {c["ssm.state_size"] * c["ssm.group_count"],
   c["ssm.state_size"] * c["ssm.time_step_rank"],
   2 * c["ssm.state_size"] * c["ssm.group_count"] + c["ssm.state_size"] * c["ssm.time_step_rank"],
   2 * c["attention.key_length"] * c["attention.head_count"]}

Overflows(c) == \E p \in Products(c) : p >= U32

\* In a debug build an overflow panics. The division by ssm.time_step_rank
\* comes before any check of it.
Panics(inner, c, debug) ==
  \/ debug /\ Overflows(c)
  \/ inner # <<>> /\ c["ssm.time_step_rank"] = 0

Derived(inner, c) ==
  LET key_dim == Product(c["ssm.state_size"], c["ssm.group_count"])
      value_dim == Product(c["ssm.state_size"], c["ssm.time_step_rank"])
  IN [key_dim |-> key_dim, value_dim |-> value_dim,
      conv_dim |-> (Product(key_dim, 2) + value_dim) % U32,
      head_k_dim |-> c["ssm.state_size"], head_v_dim |-> HeadVDim(inner, c),
      ba_dim |-> value_dim,
      full_attn_q_fused_dim |->
        Product(Product(c["attention.key_length"], c["attention.head_count"]), 2)]

Sum4(s) == s[1] + s[2] + s[3] + s[4]

\* Qwen3_5Config::validate, on a configuration with the derived dimensions.
Valid(c, sections, positive) ==
  /\ c["block_count"] > 0 /\ c["embedding_length"] > 0
  /\ c["attention.head_count"] > 0
  /\ c["attention.head_count_kv"] \in 1..c["attention.head_count"]
  /\ c["attention.key_length"] > 0 /\ c["attention.key_length"] = c["attention.value_length"]
  /\ positive
  /\ c["full_attention_interval"] > 0
  /\ c["ssm.state_size"] > 0 /\ c["ssm.group_count"] > 0
  /\ c["ssm.time_step_rank"] > 0 /\ c["ssm.conv_kernel"] > 0
  /\ c["rope.dimension_count"] > 0 /\ c["rope.dimension_count"] % 2 = 0
  /\ c["context_length"] > 0
  /\ c["expert_count"] > 0 => /\ c["expert_used_count"] \in 1..c["expert_count"]
                              /\ c["expert_feed_forward_length"] > 0
  /\ c["ssm.state_size"] % c["ssm.group_count"] = 0
  /\ c["ba_dim"] = Product(c["ssm.state_size"], c["ssm.time_step_rank"])
  /\ c["conv_dim"] = (Product(c["key_dim"], 2) + c["value_dim"]) % U32
  /\ Sum4(sections) \in 0..c["rope.dimension_count"]

Arch(metadata) == metadata["general.architecture"].v
Key(metadata, suffix) == Arch(metadata) \o "." \o suffix

HasU32(metadata, suffix) ==
  Has(metadata, Key(metadata, suffix)) /\ IsU32(metadata[Key(metadata, suffix)])

HasF32(metadata, suffix) ==
  Has(metadata, Key(metadata, suffix)) /\ IsF32(metadata[Key(metadata, suffix)])

GetOr(metadata, suffix, default) ==
  IF HasU32(metadata, suffix) THEN metadata[Key(metadata, suffix)].v ELSE default

Sections(metadata) == metadata[Key(metadata, "rope.dimension_sections")]

\* Every key from_metadata insists on is there with its type. An optional key
\* of another type counts as absent.
Readable(metadata) ==
  /\ Has(metadata, "general.architecture") /\ IsStr(metadata["general.architecture"])
  /\ Arch(metadata) \in Architectures
  /\ \A k \in Required : HasU32(metadata, k)
  /\ HasF32(metadata, "attention.layer_norm_rms_epsilon")
  /\ Has(metadata, Key(metadata, "rope.dimension_sections"))
  /\ IsI32Array(Sections(metadata), U32 \div 2 - 1)
  /\ Len(Items(Sections(metadata))) = 4

\* The keys that may be absent, and what counts then.
Optional == {"attention.value_length", "rope.dimension_count", "context_length"}

Default(metadata, suffix) ==
  CASE suffix = "attention.value_length" -> GetOr(metadata, "attention.key_length", 0)
    [] suffix = "rope.dimension_count" -> 64
    [] suffix = "context_length" -> DefaultContext
    [] OTHER -> 0

ReadKeys(metadata) ==
  [k \in Required \cup Optional |-> GetOr(metadata, k, Default(metadata, k))]

InnerSize(metadata) ==
  IF HasU32(metadata, "ssm.inner_size") THEN <<metadata[Key(metadata, "ssm.inner_size")].v>> ELSE <<>>

Positive(metadata) ==
  /\ metadata[Key(metadata, "attention.layer_norm_rms_epsilon")].v > 0
  /\ HasF32(metadata, "rope.freq_base") => metadata[Key(metadata, "rope.freq_base")].v > 0

\* from_metadata: an error, a panic, or the configuration.
FromMetadata(metadata, debug) ==
  LET read == ReadKeys(metadata)
      inner == InnerSize(metadata)
      derived == Derived(inner, read)
      c == [k \in DOMAIN read \cup DOMAIN derived |-> IF k \in DOMAIN read THEN read[k] ELSE derived[k]]
  IN IF ~Readable(metadata) \/ read["attention.value_length"] # read["attention.key_length"]
     THEN Reject("error")
     ELSE IF Panics(inner, read, debug) THEN Reject("panic")
     ELSE IF Valid(c, Items(Sections(metadata)), Positive(metadata)) THEN [err |-> "Ok", c |-> c]
     ELSE Reject("error")

\* is_recurrent: every full_attention_interval-th layer is full attention.
Recurrent(c, layer) == (layer + 1) % c["full_attention_interval"] # 0

-----------------------------------------------------------------------------
(* The tensors validate_tensors expects.                                   *)

Global == {"token_embd.weight", "output_norm.weight", "output.weight"}

BaseNames == {"attn_norm.weight", "post_attention_norm.weight", "ffn_gate_inp.weight",
              "ffn_gate_exps.weight", "ffn_up_exps.weight", "ffn_down_exps.weight",
              "ffn_gate_inp_shexp.weight", "ffn_gate_shexp.weight", "ffn_up_shexp.weight",
              "ffn_down_shexp.weight"}

FullAttn == {"attn_q.weight", "attn_k.weight", "attn_v.weight", "attn_output.weight",
             "attn_q_norm.weight", "attn_k_norm.weight"}

LinearAttn == {"attn_qkv.weight", "attn_gate.weight", "ssm_conv1d.weight", "ssm_dt.bias", "ssm_a",
               "ssm_alpha.weight", "ssm_beta.weight", "ssm_norm.weight", "ssm_out.weight"}

BlockName(layer, suffix) == "blk." \o ToString(layer) \o "." \o suffix

ExpectedTensors(c) ==
  Global \cup UNION {{BlockName(i, s) : s \in BaseNames \cup
                        (IF Recurrent(c, i) THEN LinearAttn ELSE FullAttn)}
                     : i \in 0..(c["block_count"] - 1)}

\* validate_tensors: of a file that is no split, no expected tensor may be
\* missing; others are only warned about.
ValidTensors(c, metadata, names) ==
  \/ ExpectedTensors(c) \subseteq names
  \/ /\ Has(metadata, "split.count") /\ IsU32(metadata["split.count"])
     /\ metadata["split.count"].v > 1
=============================================================================
