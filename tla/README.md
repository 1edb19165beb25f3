# A verification of the Qwen3.5 inference engine

TLA+ models of the engine in this repository, TLC configurations that check them
on small instances, and TLAPS proofs of what must hold for every instance. Paths
are relative to the repository; `src/model/pipeline.rs` and
`src/model/kernels.rs` are called pipeline.rs and kernels.rs.

## The system

| Part | Code | State | Operations | Correct when |
|---|---|---|---|---|
| One sequence | pipeline.rs, kernels.rs | `GenerationState`: a KV cache per attention layer, convolution window and SSM state per delta-net layer, `pos`, cached MoE weights | `prefill`, `prefill_chunked`, `generate_token`, `verify_draft`, `warm_moe_cache` | all layers stand for the same tokens, and the next token is the model's choice after exactly those |
| Continuous batching | pipeline.rs, `BatchScheduler` | queue, pool metadata and states in parallel arrays | `submit`, `step`, `run_until_idle` | each request gets its sequential output, once; nobody waits for ever |
| Lockstep batch | bin/run.rs, `run_batch` | four slot arrays, outputs by prompt | one run over a file | as above |
| Chat, completion | bin/run.rs, chat.rs, tokenizer/mod.rs | message history, streamed text | turns, `/reset`, truncation | what was printed is the answer; the prompt fits or is refused |
| Download | hf.rs, bin/fetch.rs | `<file>.part`, `<file>`, tokenizer.json | resume, restart, verify, rename | a finished file is the published one; a broken one can be repaired by running again |
| Loading | model/loader.rs, gguf/*, model/config.rs | mmapped shards, tensor index, weights as slices | open, merge, slice, load | every tensor is found in the shard that holds it, in bounds; dimensions are right or refused |
| Kernels | kernels.rs, model/simd.rs, model/quant.rs | none beyond the above | attention, delta net, experts, block formats | every activation meets the weight `dequantize` would give it, on every machine |
| Sampling | model/sampler.rs | none | penalty, temperature, top-k, top-p, draw | not modelled: any token may be drawn |

`BatchScheduler` and `run_batch` own one `GenerationState` per sequence and call
`prefill_batch` and `generate_token_batch`, which run the sequences on rayon's
workers. The binaries own the models and call the pipeline. Nothing else is
shared: the expert cache is inside each state, the weights are read-only.

What is hard here:

- *state in several places that must move together*: a rollback in
  `verify_draft` restores windows, SSM states, cache lengths and `pos`, but not
  the rows behind the restored length, nor the grown buffers;
- *positions*: a multi-token feed behind a cached prefix needs positions, rotary
  angles and the causal limit to agree on where the prefix ends;
- *partial failure*: one worker of a parallel step fails after others have moved
  their state;
- *parallel arrays* that are compacted while they are being read;
- *crashes between steps* of a download, and servers that answer a range request
  with something else;
- *conversations that outgrow the context*, and answers that are printed while their last
  character is incomplete;
- *files in parts*: a tensor listed by several shards, a shard that is missing or cut, and
  slices whose bounds are only looked at when a weight is first used;
- *one layout written four times*: the bits of a quantised block in `dequantize`, in the
  scalar products and in the vector code of two machines.

The list of hazards, each at its line and with the properties that cover it, is
under `hazards` in PROJECT.json.

## The modules

| Module | What it is |
|---|---|
| `TokenContext` | abstract: a greedy decoder is the context it consumed |
| `GenerationState` | one sequence, its layers, caches and calls |
| `GenerationStateInv` | the inductive invariant, in named parts |
| `GenerationStateProofs` | theorems about `GenerationState` and their proofs |
| `MCGenerationState` | a small model for TLC |
| `Completions` | abstract: each request is answered once, as if alone |
| `BatchScheduler`, `MCBatchScheduler` | continuous batching |
| `BatchSchedulerProofs` | theorems about `BatchScheduler` and their proofs |
| `RunBatch`, `MCRunBatch` | `run --batch` |
| `RunBatchProofs` | theorems about `RunBatch` and their proofs |
| `SeqLemmas` | facts about sequences, and induction over numbers, that the proof modules share |
| `Fetch`, `MCFetch` | the downloader, over many runs |
| `Sha256` | the hash it verifies with: buffering and padding |
| `FetchProofs` | theorems about `Fetch` and `Sha256` and their proofs |
| `Chat`, `MCChat` | the chat loop and the single completion, with template and streaming decoder |
| `ChatProofs` | theorems about `Chat` and their proofs |
| `GgufTypes` | what a file holds once it was read: values, metadata, tensor types |
| `Gguf` | the file format: builder and reader over a file of fields |
| `Config` | the configuration read from metadata, the expected tensor names |
| `Quant` | block sizes and `tensor_size` |
| `Loader`, `MCLoader` | opening a model: shards, index, slices, weights |
| `LoaderProofs` | theorems about `Gguf`, `Loader` and `Config` and their proofs |
| `Blocks` | the bits of quantised blocks in `dequantize` and in every dot product |
| `Kernels` | rows and experts multiplied straight out of the opened files; composes `Loader` and `Blocks` |
| `KernelsProofs` | theorems about `Kernels` and `Blocks` and their proofs |

### GenerationState

Activations are abstracted to *what they are the activation of*. The reference is
the engine that feeds one token at a time into an empty state; an activation is
named by the token sequence after which the reference has that activation, and
everything else is `Wrong`. So a delta-net state that absorbed the right tokens in
the right order is a context, and attention yields a context only if the rows it
reads are that context's rows, each rotated to its own position, and if the window
ends where the query stands. Nothing about floating point is claimed: two
computations that agree up to rounding are the same value here. Quantised KV rows
(`KvBacking::Q8`) are rows; the packing is not modelled.

State and code: `n_used`, `rows` (its length is `capacity_tokens`), `conv`,
`ssm`, `pos` and `moe_cache` are the fields of `GenerationState`; `pass`, `todo`,
`chunk`, `layer`, `t`, `hidden`, `draft`, `snap` are the locals of the call in
progress. A call is an action that enters its first pass or refuses; a pass goes
through the layers, a delta-net layer token by token (`DeltaToken`), an attention
layer all at once (`AttentionLayer`, which grows the cache, writes the rows and
reads the windows); `EndPass` and `Return` commit it; `NextChunk` starts the next
chunk; `Judge` is the middle of `verify_draft`: comparison, rollback, refeed. `fed`
and `clean` are history: the tokens the state stands for, and whether every
multi-token pass behind them began at position 0.

The steps of one call are not interleaved with another call on the same state:
`&mut GenerationState` excludes it. They are separate actions because the
invariants must hold inside a call, where the rollback happens.

**What is found.** The causal limit (`VisibleRows`, kernels.rs:682 and 764) is the
query's index in the batch; the rows already cached are not added. A pass of two or
more tokens behind a prefix therefore attends to the wrong window. That is why
exactness is stated under `clean`, and why the two documented claims that ignore it
fail (runs `verify_exact` and `chunked_exact`). One prompt followed by decoding,
chunks of one token, and speculation that accepts nothing are exact.

### BatchScheduler

A `GenerationState` is here the context it consumed, which is what `StatesExact` and
`Refinement` prove of it for these calls (a prompt into an empty state, then single
tokens). `BeginStep` is the prefill part of `step`: it takes the queue into the pool
and starts the workers; `RefuseStep` is its error. `Decode(s)` is one worker, in any
order; after an error the workers that have not started are skipped (`Skip`), as
rayon's `collect` into a `Result` does. `Abort` returns the error and keeps whatever
states moved; `Retire` reports, retires and compacts. `log` is what callers saw,
`torn` the ids whose state is ahead of its metadata after a failed tick.

The comment of `TornSilent` is the surprising part: a torn state does go wrong, but it
can never be seen, because the slot that failed the tick is full, is never retired and
fails every later tick. The price is `Independent`: one request that does not fit
stops everybody (run `independent`). If all requests fit, all are answered
(`Served`).

### RunBatch

`run_batch` with its prompts kept or skipped one by one (`EncodePrompt`) and its sweep slot
by slot (`RecordSlot`). A prompt is only kept if it and `n_predict`
tokens fit, so a step of all sequences cannot fail and is one action. `step_tokens` is
not swapped when a slot is, so the sequence moved into a retired slot is given the
retired one's stop token (run `run_batch_sequential`); `WrongOnlyAtEnd` bounds the
damage to the last token of an output, `SlotsAgree` shows that the arrays themselves
stay consistent.

### Fetch

Runs of bin/fetch.rs follow each other on one disk. A file is a sequence of blocks, each
named by its version and place, so a seam, a gap or a mix of two versions shows. `part`
and `dest` are `<file>.part` and `<file>`; `existing`, `resume_from`, `total`, `done` are
the variables of `download_file` (`buffered` is what its `BufWriter` holds) and die with
the run. `Respond` is a response that is accepted, with or without a length;
`RangeRejected` is the branch that removes the `.part` and asks again;
`RangeUnsatisfiable` is a 416, which `ureq` returns as an error; `BodyEnds`, `BodyFails`,
`Sync`, `Rename` are the rest of `download_file`, and `HashMatches` to `TokenizerFetched`
what the binary does after it. `Crash` may come between any two of them and loses the
buffer only. `Publish` changes what the server serves, also between a download and the
request for its hash. `CalmDown` is the point from which servers answer well and nothing
crashes, if there is one.

`existing` is only cleared with the run: after a rejected range the returned count
subtracts a length that was thrown away, and is negative if the new file is shorter. That
is `u64` arithmetic: a build with overflow checks panics (the second disjunct of
`Rename`), after the file was put in place and before its hash was checked; any other
wraps. `TransferCounted` is therefore stated for calls that met no such server.

What is found: a `.part` that is as long as the served file can never be completed
(run `recovers`), because a 416 does not reach the branch meant for it. `Repaired` shows
that this is the only way in which a repeated run can be lost.

`Sha256` extends `Fetch` with what its comparison of a file with the published one stands
for. A file's bytes are named after the block they came from and their place; the state of
the hash is the blocks of 64 it has compressed, so that two digests are equal exactly if the
same bytes were padded the same way. `HashedBy(n, ..)` is `sha256_file` when `read` returns
`n` bytes at a time; a file is taken to be shorter than 2^61 bytes, so that its length in bits
does not wrap around. `DigestDecides` says that it tells the published file from every file
that any history of runs can put together.

### Chat

A text is a sequence of characters, one of which takes two tokens of a byte each, so that an
answer may end, or stand for a moment, in the middle of a character; a template mark is one
token. Any token may follow a prompt, which covers sampling and `--argmax`. `opts` are the
command's options, `history` and `msgs` the conversation and the copy that
`encode_with_truncation` shortens, one message per `DropOldest`; `Truncated` is its return,
which makes the shortening permanent. `Generate` is one turn of either decoding loop,
`Push` the streaming decoder. `said` is a history variable: the whole conversation since the
last reset, against which `LongestEndThatFits` compares what the model is asked. `ContextFull`
and the failing half of `Prefill` are the errors that end the program in a turn;
`FailsOnlyWithoutRoom` says when. An input that cannot be read ends it too (`ReadFails`). The stream withholds a trailing replacement character The stream withholds a trailing replacement character and
is not flushed, so up to one character of an answer may never be shown; `Streamed` says that
this is all.

`ReasoningDropped` says what of each message a prompt shows, from a definition of its own:
`Behind` is the text behind the only mark that no mark follows, where the code searches from the
end. Questions and the system message are whole, marks in them included; of an earlier answer
there is all that stands behind its last `</think>` and nothing before. An answer without the
mark is shown whole (chat.rs:113-115). In thinking mode, where the prompt has opened the block,
that is an answer whose reasoning was cut off, by `--n-predict` for one, and it comes back in later
turns as if it had been the answer. The property states this; it does not exclude it.

### Gguf, Config, Quant, Loader

A file is a sequence of fields, each with its width, and the blocks of data behind them, as
`GgufBuilder::build` lays them out (`Build`), cut off anywhere (`Cut`). Field widths are those
of the code; a string and its length are one field, because a cut inside it is the same error
as one before it. Numbers are not bounded by their width: what fits is written and read
unchanged. `Builders` are all the files that can be written: `Values` nest at most `Nesting`
deep, any number, and an array has items of the type it names, which the builder's callers
see to.

The reader follows the code field by field and fails where `ensure` does. Where the code has
a cursor that moves, a read takes the result of the read before it and returns its own, with
the place after it (`Read`, `ReadMany`); an error is handed on. `read_value` calls itself for
the items of an array. So that proofs can speak of it, this is a function `ReadValues` of the
number of fields that are left to read, and of the type and the place: it never runs out,
since every array has fields of its own.

`Loader` keeps the locals of `ModelLoader::open` (`paths`, `shards`, `cfg`, `by_name`) and
then the opened model. Its parameter `Disks` says what was written under which name and how
much of it is there; the bytes follow (`Filled`). `weights` are the slices
`ModelWeights::load` takes with `raw_tensor`, which does not look at their bounds; `DataSlice` is the checked way, and
`UseWeight` the first `data()` of a weight, which panics where the slice is out of the map.
`got` is what the last read returned: the name of the tensor whose data is there, or what
went wrong. `Config` follows `from_metadata` in order, because what is read first decides
which error is returned and whether a division by zero or an overflow comes before
`validate`; `disk.debug` is a build with overflow checks and `debug_assert`s.

Two properties have premises that name real limits of the code. `ReadsItsOwnData` assumes
that no listing without data fits its file by chance: `fits` is all the merge has to tell
them apart. `SameAlignment` excludes files written with `with_alignment` and without the
metadata key, which no reader can know of.

### Blocks, Kernels

`Blocks` gives each bit of a quantised block its address and follows the code's shifts, masks
and shuffles on sequences of addresses: an element is which bits become its quant, its
scale and its minimum. The arithmetic on those bits is exact in the code, so two
computations agree if they take the same bits to the same places; the float scaling behind
them is not modelled. `DequantizeBlock` is quant.rs, `ScalarDot` the scalar loops of
kernels.rs, `X86Dot` and `ArmDot` the vector code of simd.rs.

`Kernels` extends `Loader` with two actions on an opened model: `Project`, a row of a
projection (those of the attention, the delta-net and the dense feed-forward) by `gemv_parallel`, and `Expert`, a row of one of the three stacked tensors by
`moe_ffn_stream`, on one of three machines. `out` is where the row was found, or what
failed. `DotReadsTheSame` and `RowUsesItsBytes` follow from there to the bytes of the file.
Which of a tensor's rows are looked at is a parameter (`Rows`); the runs take the first and the
last, the theorems any.

What is found: on aarch64 the product of Q8_0 blocks takes 16 of the 32 weights of a block
(run `simd_exact`); the two properties leave that one pair of machine and type out
(`HalfBlocks`). A model whose gate and up tensors have different types, which a comment in
`moe_ffn_stream` allows for, is read at wrong places by a release build (`SameTypes`). A
model whose `n_ff` is not of whole blocks of gate's type is refused for the sake of a value
that is never used; `FailsOnlyByShape` lists it among the causes.

## The runs

| Run | Checks | Instance |
|---|---|---|
| `generation_state` | `TypeOK`, `Aligned`, `StateExact`, `IInv`, `CallsReturn`, `RefinesContext` | 2 tokens, context 5, 2 delta-net and 2 attention layers (`Interval = 2`), cache of 1 row at first, feeds up to 4, drafts up to 2; 55,000 states |
| `verify_exact` | `SpeculationExact`, violated | the same |
| `chunked_exact` | `ChunkingExact`, violated | the same, one chunked prefill of a fresh state |
| `batch_scheduler` | `TypeOK`, `Conserved`, `Paired`, `TornSilent`, `EventsAddUp`, `RefinesCompletions`, `Served` | 3 requests out of 6 kinds, context 5; 27,000 states |
| `independent` | `Independent`, violated | the same |
| `run_batch` | `TypeOK`, `SlotsAgree`, `LeftAtStop`, `WrongOnlyAtEnd` | up to 4 prompts out of 4, `n_predict` 0, 2, 3 or 4; 11,600 states |
| `run_batch_sequential` | `MatchesSequential`, violated | the same |
| `fetch` | `TypeOK`, `InPlace`, `DestWhole`, `TransferCounted`, `DigestDecides`, `Repaired` | 2 versions, weights of 3 and then 2 blocks, a tokenizer of 2; blocks of 29 bytes, read 13, 40, 57, 64 or 100 bytes at a time; 213,000 states |
| `recovers` | `Recovers`, violated | the same |
| `chat` | `TypeOK`, `LongestEndThatFits`, `FailsOnlyWithoutRoom`, `Streamed`, `ReasoningDropped` | context 12, 5 tokens, 3 lines (one of them a typed `</think>`), 5 prompts, up to 5 messages, answers up to 3; 5,600,000 states |
| `loader` | `TypeOK`, `ReadsWhatWasWritten`, `IndexFits`, `ReadsItsOwnData`, `MissingNowhereElse`, `LoadsWhatIsExpected`, `DimensionsHold`, `DotReadsTheSame`, `RowUsesItsBytes`, `FailsOnlyByShape` | the disks of `MCLoader`, 3 machines, the first and the last row of every weight; 35,100 states |
| `simd_exact` | `SimdExact`, violated | disks with one type of block each, 2 machines against the scalar code |

Why the bounds are enough. A context of 5 with a cache that starts at one row makes the
cache double up to three times, lets a draft of two be verified behind a prefix of two
and then roll back to a grown buffer, and lets every call run into the limit. Two layers
of each kind are the least for which a wrong activation of one layer reaches the state of
the next of either kind. The stand-in for the model (`MCGreedy`) depends on every token
of the context and on its place, so a lost, repeated or swapped token changes an answer.
The scheduler's requests lie on each side of each limit: no output asked for, ended by
the limit, ended by the model at once, ended by the model with the context full, run out
of context, prompt too long. Four prompts are the least with a stopped slot that has two
slots behind it and one in front. Two versions of which the second is shorter are the least for which a `.part` can be
shorter than, as long as, and longer than the file that is served; two blocks are the least
for a seam, and three let a `.part` hold a seam and be incomplete. 29 bytes a block make files of 29, 58 and 87 bytes: one block of the
hash, two because the padding does not fit into the first, and two because the bytes do not. A context of 12 tokens lets the
turns of a chat fit in part, so that none, one or several messages are dropped, again in
later turns, and one line leaves no room at all; `MaxConversation` bounds the messages said.

The disks of `MCLoader`: one file with several of the reader's value types, nested arrays and
six ways to state an alignment, cut at *every* byte (its values nest `Nesting` = 3 deep); two and three shards that list each of two
tensors not at all, with data, or without, with the last bytes cut and the configuration in
one of them or none; a whole model that lacks each one of its tensors in turn; configurations
that change an entry to its boundary values, for builds with and without overflow checks; and
models quantised to each of the five types and to mixtures, whole, cut, and of shapes that
differ from the configuration. 32-bit products are checked against `U32` (2^20), a smaller
width than the code's because TLC's integers have 32 bits. Of an opened model each tensor is
read once (`Fresh`), since a read changes nothing, and the first and the last row of each
projection and each expert. `MaxSubmit`, `MaxFeed` and `MaxDraft` bound what callers
do and appear only in the guards of the calls.

Fairness. `CallsReturn` assumes weak fairness of the steps inside a call: a call is a
sequential program. `Served` and `Independent` assume that a caller calls `step` while
there is work, which is what `run_until_idle` does, and again after an error; that rayon
runs what it was given (`Worker`); and that the code after the workers is reached. Nothing
is assumed about `submit`. `Repaired` and `Recovers` assume that a run goes on (`Step`)
and that a user repeats a run that crashed or ended in an error (`Retry`); one that ended
well need not be repeated. That things go wrong for a while only (`<>calm`) and that a
hash is published (`lfs`) are premises of the two properties, not fairness.

`chat` and `loader` check safety only and assume no fairness.

`CHECK_DEADLOCK FALSE` is used for `run_batch`, `chat`, `loader` and the violations found with
them, where the program ends or an opened model has been read. In the other models a caller
can always make a call.

## The proofs

`GenerationStateProofs` proves, for every vocabulary, context length, number and layout of
layers, initial capacity, set of MoE layers, model and bounds that satisfy the named
assumptions of `GenerationState`:

| Theorem | Statement |
|---|---|
| `TypeCorrect` | `Spec => []TypeOK` |
| `CachesAligned` | `Spec => []Aligned` |
| `StatesExact` | `Spec => []StateExact` |
| `InductiveInvariant` | `Spec => []IInv` |
| `Refinement` | `Spec => RefinesContext` |

The argument. `StateExact` is about idle states and says nothing inside a call, so it is
not inductive. `IInv` adds what each point of a call knows: the shapes of the locals
(`CallShape`, `PassShape`, `SnapShape`); that in a clean pass the layers below `layer`
stand for `fed` and the pass, those above for `fed`, and the one in the middle for `fed`
and the tokens up to `t`, with `hidden` holding the reference activations (`PassExact`);
that the tokens of a chunked prefill or a draft appear in order (`Sequence`,
`DeltaCount`); that the snapshot is exact for its own length in the *current* rows
(`SnapExact`: the rows a rollback returns to are never overwritten, because writes go
behind `n_used`); and that the drafts judged equal are the model's choices
(`JudgeExact`, `AcceptedExact`). Each action is shown to preserve each part it can
disturb. The one fact about the kernels the argument needs is that a single query sees
all rows and that the q-th of several sees the first q: this equals "prefix plus q" only
when the prefix is empty, which is the condition `clean` and the place where the proof of
an unconditional theorem would fail.

`Refinement` maps the context to `fed` (to the snapshot's tokens while a speculation is
undecided), so a multi-pass call is a stutter until it commits, and a rejected draft
leaves no trace.

`BatchSchedulerProofs` proves, for every vocabulary, end-of-sequence token, context length and
stream of requests with a nonempty prompt, and every model that answers a context of at most
`NCtx` tokens with a token:

| Theorem | Statement |
|---|---|
| `SchedTypeCorrect` | `Spec => []TypeOK` |
| `NothingLost` | `Spec => []Conserved` |
| `PairedAlways` | `Spec => []Paired` |
| `TornNeverAnswers` | `Spec => []TornSilent` |
| `EventsComplete` | `Spec => []EventsAddUp` |
| `ImplementsCompletions` | `Spec => RefinesCompletions` |

The argument. `SchedInv` adds to the properties what a tick in progress knows (`Working`): a
worker that has not run has no token, one that has run has a token or there was an error, and
behind an error there is a slot without room and without a token. So a tick that ends with an
error leaves a full slot, which is what keeps a torn state silent: it can take no token in a
later tick, so that tick fails too, and metadata advance only in a tick in which all slots have a
token. In such a tick nothing is torn, hence every state has consumed exactly what its metadata
says and the new token is the model's choice (`AllDone`); what a slot has generated stays a greedy
run that has not ended (`Running`), until it ends with this token and the output is reported
(`AdvancedRun`). The kept slots are listed in order by `Compactions`, and states follow the same
listing, so pairs stay pairs (`Retired`). `Ids`, `Ordered` and `Reported` follow the requests:
a slot's id is held nowhere else, and an output is reported exactly when its slot leaves
(`HeldOnce`, `RetiredOutputs`). `EventInv` rests on it: an id is announced by `Prefilled` before it has
generated anything (`JoinedOnce`), a successful tick adds exactly one token to the stream of every
slot (`StreamGoesOn`) and nothing to any other (`StreamRests`), and a failed one adds nothing at
all. In the refinement `Submit` is `Ask`, `Retire` is `Answer`, and every
other step is a stutter.

`FetchProofs` proves every safety invariant of `Fetch`, for any versions (a set of positive
numbers with 1 in it), any positive sizes, and any number of runs, crashes and bad answers:

| Theorem | Statement |
|---|---|
| `FetchTypeCorrect` | `Spec => []TypeOK` |
| `BlocksInPlace` | `Spec => []InPlace` |
| `PublishedWhole` | `Spec => []DestWhole` |
| `TransferReturned` | `Spec => []TransferCounted` |

The argument. What a file is when it is renamed was decided when its body began, so
`FetchInv` follows it there: a request asks for what is behind the `.part` (`Requesting`);
while a body is read, what is on disk and in the writer's buffer is in order, everything
behind the offset is of the body's version, this version goes beyond the offset, and a
promised length is its length (`Receiving`); what was synced was accepted, and what is
renamed is on disk (`Received`). So the last block of a renamed file is of the body's
version, which is what `DestWhole` speaks of (`RenamedWhole`). An error or a crash leaves any
front piece of this, which is all the next run relies on (`OnDisk`). `Counted` relates what
was received to the offset, on top of `FetchInv`.

`RunBatchProofs` proves the four invariants of `RunBatch`, for every vocabulary, set of stop
tokens, context length, batch file and `--n-predict`, and every model that answers a context
of at most `NCtx` tokens with a token:

| Theorem | Statement |
|---|---|
| `BatchTypeCorrect` | `Spec => []TypeOK` |
| `SlotArraysAgree` | `Spec => []SlotsAgree` |
| `LeavesAtStop` | `Spec => []LeftAtStop` |
| `WrongAtMostAtEnd` | `Spec => []WrongOnlyAtEnd` |

The argument. The invariants speak of the points between sweeps; `BatchInv` says what holds in
the middle of one. A slot at or behind `j` is pending: its state has consumed all that was
recorded, and its output is one token short; any other is a step ahead (`SlotOK`). A retired
slot is filled from behind `j`, so by a pending one, and that every slot left held exactly one
other sequence before is the whole of `RetireInv`. What a pending slot is about to be given is
its model's choice, unless it was just filled: then it is the stop token of the sequence that
left, which is either that one's choice or was itself inherited in this sweep (`Chosen`). This
is where a proof of `MatchesSequential` would fail. `OutputsKept` and `SlotMoved` carry the rest.
Prompts are taken from the file one by one in the model, not filtered at once, because what
`SelectSeq` returns could only be proved by induction.

It also proves `HashDecides`, `Spec => []DigestDecides` of `Sha256`, for blocks and reads of any
positive sizes.

The argument. A hash *holds* a message if its state is the message's whole pieces of 64 bytes
and its buffer what is left (`Holds`). `Absorb` keeps this, whatever it is given, topping up or
not (`AbsorbHolds`, from `CutShort` and `CutFull`, which say where the pieces of a message lie
that was put together of two); so do the reads of a file, by induction over them
(`HashedIsPadded`), and the zeros of the padding, which end at 56 bytes after at most 63 steps
(`ZeroPaddedHolds`). So what was compressed is the padded file, whose pieces are the bytes
(`SameWhole`), whose last byte tells the length (`SamePadded`), and whose bytes name the blocks
(`SameContent`). `Renamed` adds to `FetchInv` that what is verified is there.

`ChatProofs` proves every invariant of `Chat`, for every context length, any tokens, texts, stop
tokens, lines and options that satisfy the named assumptions, and conversations of any length:

| Theorem | Statement |
|---|---|
| `ChatTypeOK` | `Spec => []TypeOK` |
| `ChatLongestEndThatFits` | `Spec => []LongestEndThatFits` |
| `ChatFailsOnlyWithoutRoom` | `Spec => []FailsOnlyWithoutRoom` |
| `ChatStreamed` | `Spec => []Streamed` |
| `ChatReasoningDropped` | `Spec => []ReasoningDropped` |

The argument. `ChatInv` says of the history between turns, and of the copy that is being
shortened, that it is what was said without some number of oldest messages, each of which was
dropped in front of a question with which it did not fit (`Remains`, `Lost`). That a message
lost in an earlier turn would still not fit in a later one, when more was said behind it, is
what makes the end the longest: `KeptIsLongest` needs for it that a prompt grows with its
messages (`PromptGrows`), although the answer in front of a new question is rendered without
its reasoning. `Printed` says that the stream has shown all that is `Available` of the answer;
that this is a beginning of what will be available after one more token (`PushStep`) follows
from what one more byte does to a text (`BytesStep`, `DecodeStep`). `ReasoningDropped` comes
from `BodyIsBehind`, that the mark found from the end is the only one that none follows
(`LastClose`), and from `RenderIsPrompt`, that no answer is rendered with its reasoning as long as
a question stands last.

`LoaderProofs` proves every invariant of `Loader`, for any disk, number of shards, tensors and
layers, any metadata with arrays in arrays to any depth, and any width of the 32-bit products.
The disk holds what the builder can write, each file whole or cut anywhere
(`DisksAssumption`, which the runs evaluate for theirs):

| Theorem | Statement |
|---|---|
| `ParseGives` | `Parse(Cut(Build(spec), n))`: all that was written before the data, or an error |
| `LoaderReadsWhatWasWritten` | `Spec => []ReadsWhatWasWritten` |
| `LoaderReadsItsOwnData` | `Spec => []ReadsItsOwnData` |
| `LoaderTypeOK` | `Spec => []TypeOK` |
| `LoaderIndexFits` | `Spec => []IndexFits` |
| `LoaderMissingNowhereElse` | `Spec => []MissingNowhereElse` |
| `LoaderLoadsWhatIsExpected` | `Spec => []LoadsWhatIsExpected` |
| `LoaderDimensionsHold` | `Spec => []DimensionsHold` |

The argument for the reader. `Gives` says of one read that it returned what stands in the
file, and ended where that ends, if the file is that long, and an error if not; `ReadGives`
shows it of a field, and one lemma of each thing written shows it of its reader: a string, a
scalar, an entry of the metadata (`EntryReadsBack`), an entry of the index (`InfoReadsBack`),
the header (`HeaderReadsBack`). Two inductions carry it further. `ReadManyGives` goes over a
number of things written one after the other, which all have their places (`PartsOccur`), and
`ValuesReadBack` over the depth of arrays; there it must be shown too that as many levels of
`ReadValues` as there are fields are enough. `ParseGives` puts these together for a whole file.
What is proved of a value's reader is conditional (`good`), because an alignment is checked
only after it was read: an entry with a bad one is refused, and only then is the entry not
read back. That the data is where the index says needs the writer: that it knows how long its
index will be before it writes it (`IndexEndIs`), and that no two tensors overlap
(`OffsetsApart`), so that the bytes at a tensor's place are its own and no other's
(`DataThere`).

`LoaderInv` says nothing of what was read last; `ReadInv`, an invariant on top of it, does:
bytes were read where the index has their tensor, and a shard that was refused cannot be
opened. `ReadsItsOwnData` follows: the entry that was read from fits its file, so by its
premise it has data, and `DataThere` says which.

The argument for the rest. Of the listings merged so far the map has one for each name, and one that fits
its file if any does (`Best`). Each listing keeps this (`MergedBest`), whatever it replaces;
so do a shard's listings and then the shards, by induction over both (`ShardBest`,
`IndexBest`), and in the end the listings are all there are (`BestLists`). What is not all in
the file it is read from then fits no file (`NothingFits`), which is `MissingNowhereElse` for
both ways of reading. `LoaderInv` carries this from step to step, with the number of shards
that the first file claimed (`SiblingNames`: a file read alone is no split, which is what
`validate_tensors` asks), the metadata the configuration came from (`Configured`), and whether
the weights were all there (`Taken`). `NamesAgree` compares the names of config.rs and
pipeline.rs layer by layer; `DerivedInFull` shows that a product below the modulus hides no
overflow of its factors.

`KernelsProofs` proves three properties of `Kernels`, for any disk, configuration and tensors, any
choice of rows, and all machines, and that every invariant of `Loader` holds while rows are
multiplied, which `Spec` of `Loader` says nothing of:

| Theorem | Statement |
|---|---|
| `KernelsDotReadsTheSame` | `KSpec => []DotReadsTheSame` |
| `KernelsRowUsesItsBytes` | `KSpec => []RowUsesItsBytes` |
| `KernelsFailsOnlyByShape` | `KSpec => []FailsOnlyByShape` |
| `LoaderHoldsAtWork` | `KSpec => [](TypeOK /\ ReadsWhatWasWritten /\ IndexFits /\ ReadsItsOwnData /\ MissingNowhereElse /\ LoadsWhatIsExpected /\ DimensionsHold)` |

The argument. `BlocksAgree` is about one block: what each element is made of, bit by bit, in
`dequantize` and in each dot product. The scales of Q4_K and Q5_K, which one takes from twelve
bytes and the other from three shuffled words, are compared by `ScaleBits`. `ElementInRow` carries
this to rows: an element's number in the tensor and its number in its row have the same place in
a block, because a row is of whole blocks; and `WorkedAt` finds where the row begins, of an
expert too. `Reported` keeps the last row multiplied with the state it was multiplied in, which
changes no more. That a block is used up takes the other direction: `Taker` names, from the
address of a bit alone, the activation it is for, and every bit of a quant that an element takes
names that element (`TakerIs`), so that no two share one; every bit of the block is d or dmin,
or of a scale, or in the quant of the activation it names (`BlockUsed`); and the activations
where blocks begin are counted by `Beginnings`. That nothing fails but by shape comes from `RowsHaveBytes`: a tensor of as many
elements as its rows have has their bytes.

Induction over data. The library states induction with an operator as parameter, which the
provers here cannot instantiate; `SeqLemmas` derives what is needed from the existence of a
least element (`NatMin`, `NatBySteps`), and each recursive function of the models (`Text`,
`HashedBy`, `ZeroPadded`, `Values`, `WriteValue`, `ReadMany`, `ReadValues`, `Starts`, `Offsets`,
`MergedShard`, `Index`, `NElements`, the library's `FlattenSeq`) has a lemma that it exists and one that
unfolds it.

TLAPS does not cover liveness (`CallsReturn`, `Served`, `Repaired`), which is model-checked
only: it rests on fairness and `ENABLED`, of which the provers here know nothing. Every
invariant that a passing run checks is also a theorem.

## Plan

In order of importance:

1. *done* `GenerationState`, its refinement and its proofs; `BatchScheduler`, `RunBatch`.
2. *done* `Fetch`: `download_file` and bin/fetch.rs over several runs; `Sha256`.
3. *done* `Chat`: history, truncation, the streaming decoder.
4. *done* `Loader` with the reader's cursor: shard discovery, the merge of the index, bounds;
   `Config`.
5. *done* `Blocks` and `Kernels`: block formats, rows, experts, vector code.
6. *done* proofs of the safety of `Fetch` with its hash, `RunBatch`, `BatchScheduler` and `Chat`,
   and of the refinement of `Completions`.
7. *done* proofs about `Loader` and `Config`, and about `Blocks` and `Kernels`.
8. *done* proofs about the reader of files, and of what is read through it.

Budget: at most one passing and one violation run per part.

## Not modelled

- Floating-point values: norms, rotary angles, softmax, activation functions, half floats, the
  rounding of activations, and with them the sampler (model/sampler.rs) and the order in
  which the router ranks experts. Any token may be drawn and any expert chosen.
- The kernels on `f32` copies of the weights, `forward_pass` and the other paths that only
  tests and benchmarks call; the partition of flash attention into tiles, which only orders
  sums (the rows it sees are `VisibleRows`).
- Timing, memory statistics, advice given to the kernel about pages, printing, the measuring
  binaries (`bench`, `kern_check`, `madvise_check`), the inspector main.rs, options.
- Files that no builder writes, failing disks, and the choice of a file on the server.
- The synthetic models and the tests; the reference C++ and Python under `ref/` and
  `tests/golden/` is not part of the program.

Differences between text and code that were met on the way and that no run is about:

- chat.rs:68 says an empty `<think>\n\n</think>\n\n` is put behind the prompt without thinking;
  chat.rs:178-181 puts one more newline into it. Blanks are not modelled.
- chat.rs:138-139 says the reasoning of earlier answers is stripped. Where an answer never closed
  its reasoning it is shown whole, as chat.rs:96 says and the official template does;
  `ReasoningDropped` states what is shown.
- pipeline.rs:242 says weights are validated at load time; `raw_tensor` checks no bounds, so a
  cut file panics when a weight is first used (`MissingNowhereElse`).
- `validate_tensors` (config.rs:335) expects the names of a mixture of experts; a model without
  experts is loaded by others. `LoadsWhatIsExpected` is stated for mixtures.
- config.rs:176 calls its check GQA but accepts a number of heads that the attention kernels
  refuse (kernels.rs:656).
- run.rs:484 and run.rs:573 number the prompts of a batch differently after one is skipped.
