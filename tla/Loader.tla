------------------------------- MODULE Loader -------------------------------
(***************************************************************************)
(* Opening a model: ModelLoader of src/model/loader.rs finds the shards of *)
(* a model from any one of them, reads the configuration, and merges their *)
(* tensor indexes; ModelWeights::load of src/model/pipeline.rs takes the   *)
(* tensors the layers need. Data is read through data_slice, which checks  *)
(* bounds, or through raw_tensor, which leaves that to the first use.      *)
(*                                                                         *)
(* A file name is a stem, an index and a total ("m-00002-of-00003.gguf"),  *)
(* total 0 for a name of another form. What is on the disk does not change *)
(* while a model is opened; a file may be cut short there.                 *)
(***************************************************************************)
EXTENDS Config, Quant, Gguf

CONSTANTS
  Disks \* [files : what was written under each name, cut : how much of it is
        \*  there, first : the name the program is given, debug : the build]

\* A file name, and an entry of a tensor index.
FileName == [stem : STRING, idx : Nat, of : Nat]
TensorMeta == [name : STRING, type : DOMAIN TensorRaw, dims : Seq(Nat), offset : Nat]

\* Files are what the builder writes, or the beginning of that.
ASSUME DisksAssumption ==
  \A d \in Disks :
    /\ d.first \in FileName
    /\ \A path \in DOMAIN d.files : d.files[path] \in Builders /\ d.cut[path] \in Nat

\* A disk with the bytes of its files.
Filled(d) ==
  [files |-> d.files, cut |-> d.cut, first |-> d.first, debug |-> d.debug,
   bytes |-> [path \in DOMAIN d.files |-> Cut(Build(d.files[path]), d.cut[path])]]

VARIABLES
  disk,
  pc,      \* "probe", "open", "config", "index", "ready", "loaded", "error", "panic"
  error,   \* what went wrong: its kind, and the file or the tensor
  paths,   \* the names of the shards
  shards,  \* those opened so far
  cfg,
  by_name, \* tensor name -> the shard it is read from and its entry there
  weights, \* ModelWeights: name -> shard, offset and length, unchecked
  got      \* the last read: the tensor and what its bytes are

vars == <<disk, pc, error, paths, shards, cfg, by_name, weights, got>>

NoError == [kind |-> "", of |-> ""]

OnDisk(path) == disk.bytes[path]

Init ==
  /\ \E d \in Disks : disk = Filled(d)
  /\ pc = "probe" /\ error = NoError
  /\ paths = <<>> /\ shards = <<>> /\ cfg = <<>>
  /\ by_name = <<>> /\ weights = <<>> /\ got = <<>>

Errs(kind, of) == pc' = "error" /\ error' = [kind |-> kind, of |-> of]

\* Gguf::open of a file that may not be there.
Open(path) == IF path \in DOMAIN disk.files THEN Parse(OnDisk(path)) ELSE Reject("Io")

SplitCount(metadata) ==
  IF Has(metadata, "split.count") /\ IsU32(metadata["split.count"])
  THEN metadata["split.count"].v ELSE 1

\* split_suffix: the name has an index and a total.
HasSuffix(path) == path.of > 0

\* Mutant of Sibling: numbered from zero.
SiblingFromZero(i) == [disk.first EXCEPT !.idx = i - 1]

Sibling(i) == [disk.first EXCEPT !.idx = i]

\* The first file is opened for its split.count, which must agree with its
\* name, and the names of its siblings follow from it.
Probe ==
  /\ pc = "probe"
  /\ LET probe == Open(disk.first)
         n == SplitCount(probe.metadata)
     IN IF probe.err # "Ok" THEN Errs("ShardOpen", disk.first) /\ UNCHANGED paths
        ELSE IF n > 1 /\ (~HasSuffix(disk.first) \/ disk.first.of # n)
          THEN Errs("ShardDiscovery", disk.first) /\ UNCHANGED paths
        ELSE /\ paths' = IF n > 1 THEN [i \in 1..n |-> Sibling(i)]
                         ELSE <<disk.first>>
             /\ pc' = "open" /\ UNCHANGED error
  /\ UNCHANGED <<disk, shards, cfg, by_name, weights, got>>

OpenShard ==
  /\ pc = "open" /\ Len(shards) < Len(paths)
  /\ LET path == paths[Len(shards) + 1]
         gguf == Open(path)
     IN IF gguf.err # "Ok" THEN Errs("ShardOpen", path) /\ UNCHANGED shards
        ELSE shards' = Append(shards, [path |-> path, gguf |-> gguf]) /\ UNCHANGED <<pc, error>>
  /\ UNCHANGED <<disk, paths, cfg, by_name, weights, got>>

DeclaresArchitecture(shard) ==
  Has(shard.gguf.metadata, "general.architecture")
    /\ IsStr(shard.gguf.metadata["general.architecture"])

\* The first shard that declares the architecture has the configuration.
ReadConfig ==
  /\ pc = "open" /\ Len(shards) = Len(paths)
  /\ LET k == SelectInSeq(shards, DeclaresArchitecture)
         read == FromMetadata(shards[k].gguf.metadata, disk.debug)
     IN IF k = 0 THEN Errs("NoConfigShard", "") /\ UNCHANGED cfg
        ELSE IF read.err = "panic" THEN pc' = "panic" /\ UNCHANGED <<error, cfg>>
        ELSE IF read.err # "Ok" THEN Errs("Config", shards[k].path) /\ UNCHANGED cfg
        ELSE cfg' = read.c /\ pc' = "index" /\ UNCHANGED error
  /\ UNCHANGED <<disk, paths, shards, by_name, weights, got>>

\* The entry's data lies inside the shard file.
Fits(shard, meta) ==
  /\ Sized(meta.type, NElements(meta.dims))
  /\ shard.gguf.data_offset + meta.offset + TensorSize(meta.type, NElements(meta.dims))
       <= shard.gguf.len

Entry(si, meta) == [shard |-> si, meta |-> meta]

\* Mutant of Merged: the last listing counts.
MergedLast(map, si, meta) == Inserted(map, meta.name, Entry(si, meta))

\* Mutant of Merged: the first listing counts.
MergedFirst(map, si, meta) ==
  IF meta.name \in DOMAIN map THEN map ELSE Inserted(map, meta.name, Entry(si, meta))

\* A later listing of a tensor replaces an earlier one, unless the earlier one
\* fits its file and the later does not.
Merged(map, si, meta) ==
  IF /\ meta.name \in DOMAIN map
     /\ ~Fits(shards[si], meta)
     /\ Fits(shards[map[meta.name].shard], map[meta.name].meta)
  THEN map
  ELSE Inserted(map, meta.name, Entry(si, meta))

\* The tensors of a shard are merged one by one, and so are the shards.
MergedShard(map, si) ==
  LET tensors == shards[si].gguf.tensors
      merged[j \in 0..Len(tensors)] ==
        IF j = 0 THEN map ELSE Merged(merged[j - 1], si, tensors[j])
  IN merged[Len(tensors)]

Index ==
  LET index[si \in 0..Len(shards)] ==
        IF si = 0 THEN <<>> ELSE MergedShard(index[si - 1], si)
  IN index[Len(shards)]

IndexShards ==
  /\ pc = "index"
  /\ by_name' = Index
  /\ pc' = "ready"
  /\ UNCHANGED <<disk, error, paths, shards, cfg, weights, got>>

\* Where raw_tensor finds a tensor, without looking at the file's length.
Raw(name) ==
  LET e == by_name[name]
  IN [shard |-> e.shard, offset |-> shards[e.shard].gguf.data_offset + e.meta.offset,
      len |-> TensorSize(e.meta.type, NElements(e.meta.dims))]

SizedHere(name) == Sized(by_name[name].meta.type, NElements(by_name[name].meta.dims))

\* Mutant of Inside: one byte too many.
InsideOrNext(raw) == raw.offset + raw.len <= shards[raw.shard].gguf.len + 1

Inside(raw) == raw.offset + raw.len <= shards[raw.shard].gguf.len

BytesOf(raw) == Contents(OnDisk(shards[raw.shard].path), raw.offset, raw.len)

\* data_slice, and dequant behind it.
DataSlice(name) ==
  /\ pc = "ready"
  /\ got' = [name |-> name,
             is |-> IF ~SizedHere(name) THEN <<"Quant">>
                    ELSE IF ~Inside(Raw(name)) THEN <<"OutOfBounds">>
                    ELSE <<"ok", BytesOf(Raw(name))>>]
  /\ UNCHANGED <<disk, pc, error, paths, shards, cfg, by_name, weights>>

-----------------------------------------------------------------------------
(* The weights, by the names pipeline.rs gives them.                       *)

Norms == {"attn_norm.weight", "post_attention_norm.weight"}

FullAttnWeights == {"attn_q.weight", "attn_k.weight", "attn_v.weight", "attn_output.weight",
                    "attn_q_norm.weight", "attn_k_norm.weight"}

\* Mutant of DeltaNetWeights: the bias under the name of a weight.
DeltaNetWeightsNamedAlike ==
  {"attn_qkv.weight", "attn_gate.weight", "ssm_conv1d.weight", "ssm_dt.weight", "ssm_a",
   "ssm_norm.weight", "ssm_beta.weight", "ssm_alpha.weight", "ssm_out.weight"}

DeltaNetWeights == {"attn_qkv.weight", "attn_gate.weight", "ssm_conv1d.weight", "ssm_dt.bias",
                    "ssm_a", "ssm_norm.weight", "ssm_beta.weight", "ssm_alpha.weight",
                    "ssm_out.weight"}

DenseWeights == {"ffn_gate.weight", "ffn_up.weight", "ffn_down.weight"}

\* load_moe: the shared expert only if it has a size.
MoeWeights ==
  {"ffn_gate_inp.weight", "ffn_gate_exps.weight", "ffn_up_exps.weight", "ffn_down_exps.weight"}
    \cup (IF cfg["expert_shared_feed_forward_length"] > 0
          THEN {"ffn_gate_shexp.weight", "ffn_up_shexp.weight", "ffn_down_shexp.weight",
                "ffn_gate_inp_shexp.weight"}
          ELSE {})

LayerWeights(i) ==
  {BlockName(i, s) : s \in Norms
     \cup (IF Recurrent(cfg, i) THEN DeltaNetWeights ELSE FullAttnWeights)
     \cup (IF cfg["expert_count"] = 0 THEN DenseWeights ELSE MoeWeights)}

\* output.weight is token_embd.weight where the file has none.
Needed ==
  {"token_embd.weight", "output_norm.weight"}
    \cup ({"output.weight"} \cap DOMAIN by_name)
    \cup UNION {LayerWeights(i) : i \in 0..(cfg["block_count"] - 1)}

\* ModelWeights::load
Load ==
  /\ pc = "ready"
  /\ IF \A name \in Needed : name \in DOMAIN by_name /\ SizedHere(name)
     THEN /\ weights' = [name \in Needed |-> Raw(name)]
          /\ pc' = "loaded" /\ UNCHANGED error
     ELSE Errs("Load", "") /\ UNCHANGED weights
  /\ got' = <<>>
  /\ UNCHANGED <<disk, paths, shards, cfg, by_name>>

\* The first use of a weight: RawTensor::data panics if it is not all there.
UseWeight(name) ==
  /\ pc = "loaded"
  /\ IF Inside(weights[name])
     THEN got' = [name |-> name, is |-> <<"ok", BytesOf(weights[name])>>] /\ UNCHANGED pc
     ELSE got' = [name |-> name, is |-> <<"OutOfBounds">>] /\ pc' = "panic"
  /\ UNCHANGED <<disk, error, paths, shards, cfg, by_name, weights>>

Next ==
  \/ Probe \/ OpenShard \/ ReadConfig \/ IndexShards
  \/ \E name \in DOMAIN by_name : DataSlice(name)
  \/ Load
  \/ \E name \in DOMAIN weights : UseWeight(name)

Spec == Init /\ [][Next]_vars

-----------------------------------------------------------------------------
(* Properties.                                                             *)

Written(path) == disk.files[path]

WholeHead(path) == path \in DOMAIN disk.files /\ disk.cut[path] >= disk.bytes[path].head

\* Every alignment a file declares is one.
Aligned(spec) ==
  \A i \in DOMAIN spec.metadata :
    spec.metadata[i].key = "general.alignment" => IsAlignment(spec.metadata[i].value)

\* An alignment the writer was given and the reader can know of.
SameAlignment(shard) == shard.gguf.alignment = Written(shard.path).alignment

\* The program opens the file it was given and those numbered with it, and
\* an entry names a shard that lists the tensor.
TypeOK ==
  /\ pc \in {"probe", "open", "config", "index", "ready", "loaded", "error", "panic"}
  /\ pc = "error" <=> error.kind # ""
  /\ Len(shards) <= Len(paths) /\ \A i \in DOMAIN shards : shards[i].path = paths[i]
  /\ Len(paths) > 1 => \A i \in DOMAIN paths : paths[i].idx = i /\ paths[i].of = Len(paths)
  /\ \A name \in DOMAIN by_name :
       /\ by_name[name].meta.name = name
       /\ Contains(shards[by_name[name].shard].gguf.tensors, by_name[name].meta)

\* The reader finds what the writer wrote: every key with its value, every
\* tensor in its place, and at a tensor's offset its own data. A file is opened
\* exactly if nothing before its data is cut off and its alignment is one.
ReadsWhatWasWritten ==
  /\ error.kind = "ShardOpen" => ~(WholeHead(error.of) /\ Aligned(Written(error.of)))
  /\ \A k \in DOMAIN shards :
       LET g == shards[k].gguf
           spec == Written(shards[k].path)
           file == OnDisk(shards[k].path)
       IN /\ WholeHead(shards[k].path)
          /\ Aligned(spec) /\ g.metadata = ToMap(spec.metadata)
          /\ Len(g.tensors) = Len(spec.tensors)
          /\ \A i \in DOMAIN g.tensors :
               LET t == spec.tensors[i]
                   start == g.data_offset + g.tensors[i].offset
               IN /\ g.tensors[i].name = t.name /\ g.tensors[i].dims = t.dims
                  /\ g.tensors[i].type = t.type
                  /\ SameAlignment(shards[k]) /\ t.data > 0 /\ start + t.data <= file.len
                       => Contents(file, start, t.data) = t.name

Listings(name) ==
  {e \in {Entry(si, m) : si \in DOMAIN shards,
                         m \in UNION {ToSet(shards[k].gguf.tensors) : k \in DOMAIN shards}} :
     Contains(shards[e.shard].gguf.tensors, e.meta) /\ e.meta.name = name}

Fitting(name) == {e \in Listings(name) : Fits(shards[e.shard], e.meta)}

\* A tensor that is all there in some shard is read from such a shard, however
\* many others list it, and every listed tensor is found.
IndexFits ==
  pc \in {"ready", "loaded"} =>
    /\ DOMAIN by_name = UNION {{t.name : t \in ToSet(shards[k].gguf.tensors)} : k \in DOMAIN shards}
    /\ \A name \in DOMAIN by_name : Fitting(name) # {} => by_name[name] \in Fitting(name)

\* A listing with data of the tensor's size behind it, in the file as written.
HasData(e) ==
  LET shard == shards[e.shard]
  IN \E i \in DOMAIN shard.gguf.tensors :
       /\ shard.gguf.tensors[i] = e.meta
       /\ Written(shard.path).tensors[i].data = TensorSize(e.meta.type, NElements(e.meta.dims))
       /\ Written(shard.path).tensors[i].data > 0

\* What is read as a tensor is that tensor's data, unless a listing without
\* data fits its file by chance: the merge tells the two apart by their fit.
ReadsItsOwnData ==
  got # <<>> /\ got.is[1] = "ok"
    /\ (\A e \in Fitting(got.name) : HasData(e))
    /\ (\A k \in DOMAIN shards : SameAlignment(shards[k]))
    => got.is = <<"ok", got.name>>

\* Bytes are missing, for data_slice as for a weight's first use, only if no
\* shard has the whole tensor; data_slice says so, a weight panics.
MissingNowhereElse ==
  got # <<>> /\ got.is = <<"OutOfBounds">> =>
    Fitting(got.name) = {} /\ (pc = "panic" <=> weights # <<>>)

\* The two lists of names agree: of a file that is no split and describes a
\* mixture of experts with a shared one, what validate_tensors accepts can be
\* loaded, and what can be loaded lacks at most output.weight.
LoadsWhatIsExpected ==
  (pc = "loaded" \/ error.kind = "Load") /\ Len(shards) = 1
    /\ cfg["expert_count"] > 0 /\ cfg["expert_shared_feed_forward_length"] > 0 =>
    LET names == DOMAIN by_name
    IN /\ /\ ValidTensors(cfg, shards[1].gguf.metadata, names)
          /\ \A n \in names : SizedHere(n)
          => pc = "loaded"
       /\ pc = "loaded" => ExpectedTensors(cfg) \subseteq names \cup {"output.weight"}

ConfigShard == shards[SelectInSeq(shards, DeclaresArchitecture)]

\* No dimension of an accepted configuration is wrong in silence unless the
\* build lets 32-bit products wrap; keys and values have heads of one length
\* where ssm.inner_size agrees with them; the configuration panics only where
\* products overflow or ssm.inner_size is divided by a zero ssm.time_step_rank.
DimensionsHold ==
  /\ cfg # <<>> /\ disk.debug =>
       /\ cfg["conv_dim"] = cfg["ssm.state_size"] *
            (2 * cfg["ssm.group_count"] + cfg["ssm.time_step_rank"])
       /\ cfg["full_attn_q_fused_dim"] =
            2 * cfg["attention.key_length"] * cfg["attention.head_count"]
       /\ cfg["full_attn_q_fused_dim"] < U32 /\ cfg["conv_dim"] < U32
  /\ cfg # <<>> /\ InnerSize(ConfigShard.gguf.metadata)
                      \in {<<>>, <<cfg["ssm.state_size"] * cfg["ssm.time_step_rank"]>>} =>
       cfg["head_v_dim"] = cfg["head_k_dim"]
  /\ pc = "panic" /\ cfg = <<>> =>
       LET read == ReadKeys(ConfigShard.gguf.metadata)
       IN \/ disk.debug /\ Overflows(read)
          \/ read["ssm.time_step_rank"] = 0 /\ InnerSize(ConfigShard.gguf.metadata) # <<>>
=============================================================================
