--------------------------- MODULE GenerationState ---------------------------
(***************************************************************************)
(* One sequence of the inference engine: GenerationState of                *)
(* src/model/pipeline.rs and the calls that advance it (prefill,           *)
(* prefill_chunked, generate_token, verify_draft, warm_moe_cache), over    *)
(* the attention window of src/model/kernels.rs.                           *)
(*                                                                         *)
(* The layers alternate: a delta-net layer folds each token into a         *)
(* recurrent state (a convolution window and an SSM matrix), a full        *)
(* attention layer appends a rotated key/value row to a growing cache and  *)
(* reads a window of it. A call drives one or more passes; a pass takes    *)
(* its tokens through all layers, one layer after the other.               *)
(*                                                                         *)
(* Numbers are abstracted to what they are the numbers OF. An activation   *)
(* is named by the token sequence whose reference activation it equals,    *)
(* the reference being the engine that feeds one token at a time into an   *)
(* empty state; anything else is Wrong. So a layer's output is a context   *)
(* only if its state, its window and its rotary positions fit together.    *)
(***************************************************************************)
EXTENDS Naturals, Sequences

CONSTANTS
  Token,        \* the vocabulary
  NCtx,         \* context_length
  BlockCount,   \* block_count
  Interval,     \* full_attention_interval
  InitCapacity, \* kv_init_tokens: 1024, or 64 when memory-bounded
  MoeLayers,    \* the layers whose FFN is a mixture of experts
  NoToken,      \* "no token": not a member of Token
  Wrong,        \* an activation that is no context's reference
  Greedy(_),    \* lm_head argmax of a reference activation
  MaxFeed,      \* bound: longest prompt, and largest chunk_size, callers pass
  MaxDraft      \* bound: longest draft callers offer

Layers == 0..(BlockCount - 1)

Contexts == Seq(Token)

ASSUME BlockCountAssumption == BlockCount \in Nat \ {0}
ASSUME IntervalAssumption == Interval \in Nat \ {0}
ASSUME NCtxAssumption == NCtx \in Nat \ {0}
ASSUME InitCapacityAssumption == InitCapacity \in Nat \ {0}
ASSUME MoeLayersAssumption == MoeLayers \subseteq Layers
ASSUME NoTokenAssumption == NoToken \notin Token
ASSUME WrongAssumption == Wrong \notin Contexts
ASSUME GreedyAssumption == \A n \in 0..NCtx : \A s \in [1..n -> Token] : Greedy(s) \in Token
ASSUME BoundsAssumption == MaxFeed \in Nat /\ MaxDraft \in Nat

VARIABLES
  \* GenerationState
  n_used,     \* kv_caches[l].n_used
  rows,       \* the rows of kv_caches[l]; their number is its capacity
  conv,       \* conv_states[l]
  ssm,        \* ssm_states[l]
  pos,        \* tokens consumed
  moe_cache,  \* the layers whose dequantized MoE weights are resident
  \* the call in progress
  pc,         \* "idle", or inside a call: "layers" (in a pass), "chunk", "judge"
  op,         \* which call: see Ops
  pass,       \* the tokens of the current pass
  todo,       \* prefill_chunked: the tokens of the later chunks
  chunk,      \* prefill_chunked: chunk_size
  layer,      \* layer_idx of the pass
  t,          \* the token a delta-net layer processes next, from 1
  hidden,     \* one activation per token of the pass
  draft,      \* verify_draft: the draft
  snap,       \* verify_draft: StateSnapshot
  reply,      \* what the last call returned
  \* history variables, read by the properties only
  fed,        \* the tokens the state stands for
  clean       \* every multi-token pass behind fed began at pos = 0

state == <<n_used, rows, conv, ssm, pos, moe_cache>>
locals == <<pass, todo, chunk, layer, t, hidden, draft, snap>>
vars == <<state, pc, op, locals, reply, fed, clean>>

-----------------------------------------------------------------------------
(* Layers and activations.                                                 *)

IsRecurrent(l) == (l + 1) % Interval # 0

DeltaLayers == {l \in Layers : IsRecurrent(l)}
FullLayers == Layers \ DeltaLayers

Value == Contexts \cup {Wrong}
Row == [val : Value, rope : Nat]

LastTok(v) == v[Len(v)]

\* What layer l reads for the i-th token of s: the embedding, or the activation
\* of the layer below.
Input(l, s, i) == IF l = 0 THEN <<s[i]>> ELSE SubSeq(s, 1, i)

\* The key/value row of an activation, its key rotated to position p.
KvRow(x, p) == [val |-> x, rope |-> p]

\* The row of the i-th token of s: rotary position i - 1.
RefRow(l, s, i) == KvRow(Input(l, s, i), i - 1)

\* A recurrent state c takes in x.
Absorb(l, c, x) ==
  IF c = Wrong \/ x = Wrong THEN Wrong
  ELSE LET s == Append(c, LastTok(x))
       IN IF x = Input(l, s, Len(s)) THEN s ELSE Wrong

\* Mutant of VisibleRows: the mask read as an exclusive bound.
VisibleRowsExclusive(q, n, n_kv) ==
  IF n > 1 /\ q < n_kv THEN q - 1 ELSE n_kv

\* How many rows the q-th query of n sees when there are n_kv of them
\* (max_kv + 1): one query sees all, several see the first q.
VisibleRows(q, n, n_kv) ==
  IF n > 1 /\ q < n_kv THEN q ELSE n_kv

\* Attention of the query x at rotary position p over the first m rows.
Attend(l, x, p, rws, m) ==
  IF x = Wrong \/ m # p + 1 \/ \E i \in 1..m : rws[i].val = Wrong THEN Wrong
  ELSE LET s == [i \in 1..m |-> LastTok(rws[i].val)]
       IN IF x = Input(l, s, m) /\ \A i \in 1..m : rws[i] = RefRow(l, s, i)
          THEN s ELSE Wrong

-----------------------------------------------------------------------------
(* The key/value cache.                                                    *)

ZeroRow == KvRow(Wrong, 0)

\* Mutant of Doublings: an `if` for the `while`, one doubling and no more.
DoublingsOnce(cap, tokens) ==
  {c \in tokens..(2 * tokens - 1) : c = (IF cap = 0 THEN 1 ELSE cap) * 2}

\* The capacities ensure_capacity may grow cap to: the first doubling that
\* holds the tokens.
Doublings(cap, tokens) ==
  {c \in tokens..(2 * tokens - 1) :
     \E k \in 0..tokens : c = (IF cap = 0 THEN 1 ELSE cap) * 2^k}

Capacities(cap, tokens) ==
  IF tokens <= cap THEN {cap} ELSE Doublings(cap, tokens)

\* The cache after a resize to cap rows and n writes of vals behind nc rows,
\* rotated to the positions from p on.
WriteRows(rws, cap, nc, vals, p) ==
  [i \in 1..cap |->
     IF i > nc /\ i <= nc + Len(vals)
     THEN KvRow(vals[i - nc], p + (i - nc) - 1)
     ELSE IF i <= Len(rws) THEN rws[i] ELSE ZeroRow]

-----------------------------------------------------------------------------
(* Calls. The locals of a call die when it returns.                        *)

NoReply == [kind |-> "none", accepted |-> <<>>, token |-> NoToken]
ErrReply == [NoReply EXCEPT !.kind = "err"]

Snapshot ==
  [n_used |-> n_used, conv |-> conv, ssm |-> ssm, pos |-> pos,
   fed |-> fed, clean |-> clean]

ZeroState == [l \in DeltaLayers |-> <<>>]

NoSnapshot ==
  [n_used |-> [l \in FullLayers |-> 0], conv |-> ZeroState, ssm |-> ZeroState,
   pos |-> 0, fed |-> <<>>, clean |-> TRUE]

Init ==
  /\ n_used = [l \in FullLayers |-> 0]
  /\ rows = [l \in FullLayers |->
              [i \in 1..(IF InitCapacity < NCtx THEN InitCapacity ELSE NCtx) |-> ZeroRow]]
  /\ conv = ZeroState /\ ssm = ZeroState
  /\ pos = 0 /\ moe_cache = {}
  /\ pc = "idle" /\ op = "none"
  /\ pass = <<>> /\ todo = <<>> /\ chunk = 0 /\ layer = 0 /\ t = 1
  /\ hidden = <<>> /\ draft = <<>> /\ snap = NoSnapshot
  /\ reply = NoReply /\ fed = <<>> /\ clean = TRUE

FitsOneMore(p, n) == p + n <= NCtx + 1   \* mutant of Fits: an off-by-one
Fits(p, n) == p + n <= NCtx

\* Embed the tokens and stand before the first layer.
BeginPass(ts) ==
  /\ pc' = "layers"
  /\ pass' = ts
  /\ hidden' = [i \in 1..Len(ts) |-> <<ts[i]>>]
  /\ layer' = 0
  /\ t' = 1

\* A call of n tokens that would overflow the context returns before it
\* touches anything.
Refuse(n) ==
  /\ pc = "idle" /\ ~Fits(pos, n)
  /\ reply' = ErrReply
  /\ UNCHANGED <<state, pc, op, locals, fed, clean>>

\* Any other call enters its first pass.
Enter(name, n, first) ==
  /\ pc = "idle" /\ Fits(pos, n)
  /\ op' = name
  /\ reply' = NoReply
  /\ BeginPass(first)
  /\ UNCHANGED <<state, fed, clean>>

Prefill(ts) ==
  \/ Refuse(Len(ts))
  \/ Enter("prefill", Len(ts), ts) /\ UNCHANGED <<todo, chunk, draft, snap>>

\* The chunk that starts ts, and what follows it.
ChunkLen(ts, c) == IF c < Len(ts) THEN c ELSE Len(ts)
Chunk(ts, c) == SubSeq(ts, 1, ChunkLen(ts, c))
Rest(ts, c) == SubSeq(ts, ChunkLen(ts, c) + 1, Len(ts))

PrefillChunked(ts, c) ==
  \/ Refuse(Len(ts))
  \/ /\ Enter("chunked", Len(ts), Chunk(ts, c))
     /\ todo' = Rest(ts, c)
     /\ chunk' = c
     /\ UNCHANGED <<draft, snap>>

GenerateToken(tok) ==
  \/ Refuse(1)
  \/ Enter("generate", 1, <<tok>>) /\ UNCHANGED <<todo, chunk, draft, snap>>

\* verify_draft up to its first pass, over [tok, ds...]. (With an
\* empty draft verify_draft is one greedy step: GenerateToken.)
VerifyDraft(tok, ds) ==
  \/ Refuse(1 + Len(ds))
  \/ /\ Enter("verify", 1 + Len(ds), <<tok>> \o ds)
     /\ draft' = ds
     /\ snap' = Snapshot
     /\ UNCHANGED <<todo, chunk>>

\* Every unfilled MoE slot is filled, every filled one is left alone.
WarmMoeCache ==
  /\ pc = "idle"
  /\ moe_cache' = moe_cache \cup MoeLayers
  /\ UNCHANGED <<n_used, rows, conv, ssm, pos, pc, op, locals, reply, fed, clean>>

-----------------------------------------------------------------------------
(* One pass through the layers.                                            *)

\* moe_fields_cached: the first use of a layer fills its slot.
MoeFieldsCached == moe_cache' = moe_cache \cup ({layer} \cap MoeLayers)

NextLayer == layer' = layer + 1 /\ t' = 1

\* One token through a delta-net layer: the output is the new recurrent state.
DeltaToken ==
  /\ pc = "layers" /\ layer \in DeltaLayers
  /\ LET x == hidden[t]
         out == IF conv[layer] = ssm[layer] THEN Absorb(layer, ssm[layer], x) ELSE Wrong
     IN /\ conv' = [conv EXCEPT ![layer] = Absorb(layer, @, x)]
        /\ ssm' = [ssm EXCEPT ![layer] = out]
        /\ hidden' = [hidden EXCEPT ![t] = out]
  /\ MoeFieldsCached
  /\ IF t < Len(pass) THEN t' = t + 1 /\ UNCHANGED layer ELSE NextLayer
  /\ UNCHANGED <<n_used, rows, pos, pc, op, pass, todo, chunk, draft, snap,
                 reply, fed, clean>>

\* All tokens of the pass through a full attention layer: their rows are
\* written behind the n_used present ones, then every query reads its window.
AttentionLayer ==
  /\ pc = "layers" /\ layer \in FullLayers
  /\ LET nc == n_used[layer]
         n == Len(pass)
     IN \E cap \in Capacities(Len(rows[layer]), nc + n) :
          LET rws == WriteRows(rows[layer], cap, nc, hidden, pos)
          IN /\ rows' = [rows EXCEPT ![layer] = rws]
             /\ n_used' = [n_used EXCEPT ![layer] = nc + n]
             /\ hidden' = [q \in 1..n |->
                  Attend(layer, hidden[q], pos + q - 1, rws, VisibleRows(q, n, nc + n))]
  /\ MoeFieldsCached
  /\ NextLayer
  /\ UNCHANGED <<conv, ssm, pos, pc, op, pass, todo, chunk, draft, snap,
                 reply, fed, clean>>

\* lm_head_argmax: of an activation that is no reference, any token.
Argmax(v) == {tok \in Token : v # Wrong => tok = Greedy(v)}

\* What a call can return after its last pass.
Replies ==
  IF op \in {"prefill", "chunked"} THEN {[NoReply EXCEPT !.kind = "ok"]}
  ELSE {[kind |-> op, accepted |-> Tail(pass), token |-> tok] :
        tok \in Argmax(hidden[Len(pass)])}

CleanPass == clean /\ (Len(pass) = 1 \/ pos = 0)

\* After the last layer the pass is committed.
CommitPass ==
  /\ pc = "layers" /\ layer = BlockCount
  /\ pos' = pos + Len(pass)
  /\ fed' = fed \o pass
  /\ clean' = CleanPass
  /\ UNCHANGED <<n_used, rows, conv, ssm, moe_cache>>

\* ... and the call goes on: verify_draft with its verdict, prefill_chunked
\* with the next chunk.
MoreToDo == op = "verify" \/ todo # <<>>

EndPass ==
  /\ MoreToDo
  /\ CommitPass
  /\ pc' = IF op = "verify" THEN "judge" ELSE "chunk"
  /\ UNCHANGED <<op, locals, reply>>

Return ==
  /\ ~MoreToDo
  /\ CommitPass
  /\ reply' \in Replies
  /\ pc' = "idle" /\ op' = "none"
  /\ pass' = <<>> /\ todo' = <<>> /\ chunk' = 0 /\ layer' = 0 /\ t' = 1
  /\ hidden' = <<>> /\ draft' = <<>> /\ snap' = NoSnapshot

NextChunk ==
  /\ pc = "chunk"
  /\ BeginPass(Chunk(todo, chunk))
  /\ todo' = Rest(todo, chunk)
  /\ UNCHANGED <<state, op, chunk, draft, snap, reply, fed, clean>>

-----------------------------------------------------------------------------
(* verify_draft after its first pass.                                      *)

\* Mutant of Agreeing: a draft token is judged by the row that consumed it.
AgreeingNextRow ==
  {r \in 0..Len(draft) :
     /\ \A i \in 1..r : draft[i] \in Argmax(hidden[i + 1])
     /\ r < Len(draft) => \E tok \in Argmax(hidden[r + 2]) : tok # draft[r + 1]}

\* The lengths of draft prefix the predictions can agree with: row r judges
\* draft token r.
Agreeing ==
  {r \in 0..Len(draft) :
     /\ \A i \in 1..r : draft[i] \in Argmax(hidden[i])
     /\ r < Len(draft) => \E tok \in Argmax(hidden[r + 1]) : tok # draft[r + 1]}

\* Mutants of Restore: it forgets the cache lengths; it forgets the recurrence.
RestoreKeepsLengths ==
  /\ conv' = snap.conv /\ ssm' = snap.ssm /\ pos' = snap.pos
  /\ UNCHANGED <<n_used, rows, moe_cache>>
RestoreKeepsConv ==
  /\ n_used' = snap.n_used /\ ssm' = snap.ssm /\ pos' = snap.pos
  /\ UNCHANGED <<rows, conv, moe_cache>>

\* The cache keeps its rows: only their number goes back.
Restore ==
  /\ n_used' = snap.n_used
  /\ conv' = snap.conv
  /\ ssm' = snap.ssm
  /\ pos' = snap.pos
  /\ UNCHANGED <<rows, moe_cache>>

\* Roll back, and drive the state through the token and the accepted drafts.
\* The second prefill makes the check of the first.
Judge ==
  /\ pc = "judge"
  /\ Restore
  /\ fed' = snap.fed /\ clean' = snap.clean
  /\ \E r \in Agreeing :
       IF Fits(snap.pos, 1 + r)
       THEN /\ op' = "refeed"
            /\ BeginPass(SubSeq(pass, 1, 1 + r))
            /\ UNCHANGED <<todo, chunk, draft, snap, reply>>
       ELSE /\ reply' = ErrReply
            /\ pc' = "idle" /\ op' = "none"
            /\ UNCHANGED locals

-----------------------------------------------------------------------------
Feeds == UNION {[1..n -> Token] : n \in 1..MaxFeed}
Drafts == UNION {[1..n -> Token] : n \in 1..MaxDraft}

Call ==
  \/ \E ts \in Feeds : Prefill(ts)
  \/ \E ts \in Feeds, c \in 1..MaxFeed : PrefillChunked(ts, c)
  \/ \E tok \in Token : GenerateToken(tok)
  \/ \E tok \in Token, ds \in Drafts : VerifyDraft(tok, ds)
  \/ WarmMoeCache

Step == DeltaToken \/ AttentionLayer \/ EndPass \/ Return \/ NextChunk \/ Judge

Next == Call \/ Step

Spec == Init /\ [][Next]_vars

FairSpec == Spec /\ WF_vars(Step)

-----------------------------------------------------------------------------
(* Properties.                                                             *)

SnapshotType ==
  [n_used : [FullLayers -> 0..NCtx], conv : [DeltaLayers -> Value],
   ssm : [DeltaLayers -> Value], pos : 0..NCtx, fed : Contexts, clean : BOOLEAN]

ReplyType ==
  [kind : {"none", "ok", "err", "generate", "refeed"},
   accepted : Contexts, token : Token \cup {NoToken}]

\* The types of the variables; no position passes the context length.
TypeOK ==
  /\ n_used \in [FullLayers -> 0..NCtx]
  /\ rows \in [FullLayers -> Seq(Row)]
  /\ conv \in [DeltaLayers -> Value] /\ ssm \in [DeltaLayers -> Value]
  /\ pos \in 0..NCtx
  /\ moe_cache \subseteq MoeLayers
  /\ pc \in {"idle", "layers", "chunk", "judge"}
  /\ op \in {"none", "prefill", "chunked", "generate", "verify", "refeed"}
  /\ pass \in Contexts /\ todo \in Contexts /\ draft \in Contexts
  /\ chunk \in Nat /\ layer \in 0..BlockCount /\ t \in Nat \ {0}
  /\ hidden \in Seq(Value)
  /\ snap \in SnapshotType
  /\ reply \in ReplyType
  /\ fed \in Contexts /\ clean \in BOOLEAN

\* Whatever was rolled back, pos and every KV cache count the same tokens, a layer
\* the pass has gone through being ahead by the pass; the caches have room for
\* what they count and never double past twice the context; what is still to
\* come fits the context, so the second prefill of verify_draft and the later
\* chunks of prefill_chunked are never refused; and after one pass no layer
\* has MoE weights left to dequantize.
Aligned ==
  /\ pos = Len(fed)
  /\ \A l \in FullLayers :
       /\ n_used[l] = pos + (IF pc = "layers" /\ l < layer THEN Len(pass) ELSE 0)
       /\ n_used[l] <= Len(rows[l])
       /\ Len(rows[l]) < 2 * NCtx
  /\ pos + (IF pc = "layers" THEN Len(pass) ELSE 0) + Len(todo) <= NCtx
  /\ pc = "judge" => snap.pos + Len(pass) = pos
  /\ \A l \in MoeLayers : fed # <<>> \/ l < layer => l \in moe_cache

\* Between calls, the state is the one that feeding fed token by token leaves.
Exact ==
  /\ \A l \in DeltaLayers : conv[l] = fed /\ ssm[l] = fed
  /\ \A l \in FullLayers : \A i \in 1..n_used[l] : rows[l][i] = RefRow(l, fed, i)

\* The state is exact as long as every multi-token pass behind it (those that
\* verify_draft rolled back not counted) began at position 0: one prompt, then
\* decoding; chunks of one; speculation that accepts nothing.
StateExact == pc = "idle" /\ clean => Exact

\* verify_draft's documentation: "correctness is unconditional", for the state
\* it is given: if that was exact, so is the state it leaves.
SpeculationExact ==
  [][op = "refeed" /\ op' = "none" /\ snap.clean => Exact']_vars

\* prefill_chunked's test: chunked prefill of a fresh state "should produce same
\* result" as one prefill, so it leaves an exact state.
ChunkingExact == pc = "idle" => Exact

\* The callers of that claim: one prefill_chunked, on a fresh state.
ChunkedSpec ==
  Init /\ [][\/ Step
             \/ fed = <<>> /\ \E ts \in Feeds, c \in 1..MaxFeed : PrefillChunked(ts, c)]_vars

\* A call that was begun returns.
CallsReturn == pc # "idle" ~> pc = "idle"

\* What the caller has been told the state stands for: speculation counts only
\* when it returns.
Speculating == op \in {"verify", "refeed"}

Context == INSTANCE TokenContext WITH
  ctx <- IF Speculating THEN snap.fed ELSE fed,
  trusted <- IF Speculating THEN snap.clean ELSE clean,
  said <- reply.token

\* Calls of many passes and layers are single steps of a greedy decoder: its
\* context grows by whole feeds, a refused call and a rejected draft leave no
\* trace, and what it says is the target model's choice.
RefinesContext == Context!Spec
=============================================================================
