------------------------------ MODULE RunBatch ------------------------------
(***************************************************************************)
(* run --batch: run_batch of src/bin/run.rs. The prompts of a file that    *)
(* fit are prefilled together and decoded in lockstep; a sequence that     *)
(* hits a stop token gives its slot to the last one (swap_remove).         *)
(*                                                                         *)
(* A prompt is kept only if it and n_predict more tokens fit the context,  *)
(* so no decode of the batch fails and, each sequence owning its state, a  *)
(* step of all of them is one action. The token of a sequence is the       *)
(* model's choice after what its state consumed (--argmax); sampling       *)
(* differs in the choice alone.                                            *)
(***************************************************************************)
EXTENDS Naturals, Sequences

CONSTANTS
  Token,      \* the vocabulary
  NCtx,       \* context_length
  stop_ids,   \* the tokens that end a sequence
  Greedy(_),  \* the target model: the argmax token after a context
  Files,      \* the batch files: nonempty sequences of nonempty prompts
  NPredict    \* the values of --n-predict

ASSUME NCtxAssumption == NCtx \in Nat \ {0}
ASSUME StopAssumption == stop_ids \subseteq Token
ASSUME FilesAssumption == \A file \in Files :
  file \in Seq(Seq(Token)) /\ file # <<>> /\ \A i \in DOMAIN file : file[i] # <<>>
ASSUME NPredictAssumption == NPredict \subseteq Nat
ASSUME GreedyAssumption == \A n \in 0..NCtx : \A s \in [1..n -> Token] : Greedy(s) \in Token

VARIABLES
  pc,            \* "start", "encode", "decode" (between steps), "record", "done"
  n_predict,
  prompts,       \* the prompts of the file that were not looked at yet
  token_prompts, \* the encoded prompts that fit
  generated,     \* their outputs
  states,        \* per slot: what the sequence's state has consumed
  last_tokens,   \* per slot: the token it feeds next
  histories,     \* per slot: the prompt and what followed it
  order,         \* per slot: the sequence that holds it
  steps,         \* decode steps begun
  step_tokens,   \* what they produced, by the slots of before the sweep
  j              \* the slot the sweep is at

slots == <<states, last_tokens, histories, order>>
vars == <<pc, n_predict, prompts, token_prompts, generated, slots, steps, step_tokens, j>>

LastOf(s) == s[Len(s)]

Init ==
  /\ pc = "start" /\ n_predict = 0
  /\ prompts = <<>> /\ token_prompts = <<>> /\ generated = <<>>
  /\ states = <<>> /\ last_tokens = <<>> /\ histories = <<>> /\ order = <<>>
  /\ steps = 0 /\ step_tokens = <<>> /\ j = 1

\* Mutant of Fits: the prompt alone must fit.
FitsAlone(tokens, n) == Len(tokens) <= NCtx

Fits(tokens, n) == Len(tokens) + n <= NCtx

Start(file, n) ==
  /\ pc = "start"
  /\ n_predict' = n
  /\ prompts' = file
  /\ pc' = "encode"
  /\ UNCHANGED <<token_prompts, generated, slots, steps, step_tokens, j>>

\* The next prompt is kept or skipped.
EncodePrompt ==
  /\ pc = "encode" /\ prompts # <<>>
  /\ prompts' = Tail(prompts)
  /\ token_prompts' = IF Fits(Head(prompts), n_predict)
                      THEN Append(token_prompts, Head(prompts)) ELSE token_prompts
  /\ UNCHANGED <<pc, n_predict, generated, slots, steps, step_tokens, j>>

\* What was kept is prefilled, in parallel; there may be nothing.
Prefill ==
  /\ pc = "encode" /\ prompts = <<>>
  /\ pc' = IF token_prompts = <<>> THEN "done" ELSE "decode"
  /\ states' = token_prompts /\ histories' = token_prompts
  /\ last_tokens' = [i \in DOMAIN token_prompts |-> LastOf(token_prompts[i])]
  /\ order' = [i \in DOMAIN token_prompts |-> i]
  /\ generated' = [i \in DOMAIN token_prompts |-> <<>>]
  /\ UNCHANGED <<n_predict, prompts, token_prompts, steps, step_tokens, j>>

\* The loop over n_predict steps ends, early if the batch is empty.
Over == steps = n_predict \/ states = <<>>

DecodeStep ==
  /\ pc = "decode" /\ ~Over
  /\ states' = [s \in DOMAIN states |-> Append(states[s], last_tokens[s])]
  /\ step_tokens' = [s \in DOMAIN states |-> Greedy(states'[s])]
  /\ steps' = steps + 1
  /\ j' = 1
  /\ pc' = "record"
  /\ UNCHANGED <<n_predict, prompts, token_prompts, generated, last_tokens, histories, order>>

\* Vec::swap_remove
SwapRemove(s, i) == SubSeq([s EXCEPT ![i] = LastOf(s)], 1, Len(s) - 1)

\* Mutant of Retire: the history is not retired with its slot.
RetireKeepsHistory(pushed) ==
  /\ states' = SwapRemove(states, j)
  /\ last_tokens' = SwapRemove(last_tokens, j)
  /\ histories' = pushed
  /\ order' = SwapRemove(order, j)
  /\ UNCHANGED j

\* The last slot moves to j, and the sweep looks at j again.
Retire(pushed) ==
  /\ states' = SwapRemove(states, j)
  /\ last_tokens' = SwapRemove(last_tokens, j)
  /\ histories' = SwapRemove(pushed, j)
  /\ order' = SwapRemove(order, j)
  /\ UNCHANGED j

\* Mutant of Keep: the slot goes on feeding the token it fed.
KeepFeedsAgain(pushed, tok) ==
  /\ histories' = pushed
  /\ j' = j + 1
  /\ UNCHANGED <<states, order, last_tokens>>

Keep(pushed, tok) ==
  /\ histories' = pushed
  /\ last_tokens' = [last_tokens EXCEPT ![j] = tok]
  /\ j' = j + 1
  /\ UNCHANGED <<states, order>>

\* Mutant of Stops: the sequence that hits its limit stays, whatever its token.
StopsUnlessLast(tok) == tok \in stop_ids /\ steps < n_predict

Stops(tok) == tok \in stop_ids

\* One turn of the sweep over the slots.
RecordSlot ==
  /\ pc = "record" /\ j <= Len(states)
  /\ LET tok == step_tokens[j]
         pushed == [histories EXCEPT ![j] = Append(@, tok)]
     IN /\ generated' = [generated EXCEPT ![order[j]] = Append(@, tok)]
        /\ IF Stops(tok) THEN Retire(pushed) ELSE Keep(pushed, tok)
  /\ UNCHANGED <<pc, n_predict, prompts, token_prompts, steps, step_tokens>>

EndSweep ==
  /\ pc = "record" /\ j > Len(states)
  /\ pc' = "decode"
  /\ UNCHANGED <<n_predict, prompts, token_prompts, generated, slots, steps, step_tokens, j>>

\* The outputs are printed.
Finish ==
  /\ pc = "decode" /\ Over
  /\ pc' = "done"
  /\ UNCHANGED <<n_predict, prompts, token_prompts, generated, slots, steps, step_tokens, j>>

Next ==
  \/ \E file \in Files, n \in NPredict : Start(file, n)
  \/ EncodePrompt \/ Prefill
  \/ DecodeStep \/ RecordSlot \/ EndSweep \/ Finish

Spec == Init /\ [][Next]_vars

-----------------------------------------------------------------------------
(* Properties.                                                             *)

Seqs == DOMAIN generated

\* The shape of every variable; no state ever consumes more than the context.
TypeOK ==
  /\ pc \in {"start", "encode", "decode", "record", "done"}
  /\ n_predict \in NPredict \cup {0} /\ steps \in 0..n_predict
  /\ prompts \in Seq(Seq(Token)) /\ token_prompts \in Seq(Seq(Token))
  /\ generated \in Seq(Seq(Token))
  /\ pc \in {"decode", "record", "done"} => Len(generated) = Len(token_prompts)
  /\ states \in Seq(Seq(Token)) /\ \A s \in DOMAIN states : Len(states[s]) <= NCtx
  /\ last_tokens \in Seq(Token) /\ histories \in Seq(Seq(Token)) /\ order \in Seq(Seqs)
  /\ step_tokens \in Seq(Token) /\ j \in 1..(Len(states) + 1)

\* What sequence i has fed or will feed.
Fed(i) == Append(token_prompts[i], LastOf(token_prompts[i])) \o generated[i]

AllButLast(s) == SubSeq(s, 1, Len(s) - 1)

\* The four parallel arrays agree: at the end of every sweep, whatever was
\* swapped, a slot's state, next token and history are those of the sequence
\* that order names, and no sequence holds two slots.
SlotsAgree ==
  /\ \A s, t \in DOMAIN order : order[s] = order[t] => s = t
  /\ Len(states) = Len(order) /\ Len(last_tokens) = Len(order) /\ Len(histories) = Len(order)
  /\ \A s \in DOMAIN order : histories[s] = token_prompts[order[s]] \o generated[order[s]]
  /\ pc = "decode" => \A s \in DOMAIN order :
       /\ last_tokens[s] = LastOf(Fed(order[s]))
       /\ states[s] = AllButLast(Fed(order[s]))

\* The k-th token of i's output is the model's choice.
Own(i, k) ==
  generated[i][k] =
    Greedy(Append(token_prompts[i], LastOf(token_prompts[i])) \o SubSeq(generated[i], 1, k - 1))

\* A sequence is in the batch as long as it has no stop token, and its output
\* is one token longer per step; once out of it, its output ends there and
\* never grows again.
LeftAtStop ==
  pc \in {"decode", "done"} =>
    \A i \in Seqs :
      IF \E s \in DOMAIN order : order[s] = i
      THEN Len(generated[i]) = steps /\ \A k \in 1..steps : generated[i][k] \notin stop_ids
      ELSE /\ Len(generated[i]) \in 1..steps
           /\ \A k \in DOMAIN generated[i] :
                generated[i][k] \in stop_ids <=> k = Len(generated[i])

\* An output is the sequential one up to its last token; a last token that is
\* not the model's is a stop token, and some sequence rightly stopped with it
\* in the same step.
WrongOnlyAtEnd ==
  \A i \in Seqs : \A k \in DOMAIN generated[i] :
    \/ Own(i, k)
    \/ /\ k = Len(generated[i]) /\ generated[i][k] \in stop_ids
       /\ \E l \in Seqs : Len(generated[l]) = k /\ generated[l][k] = generated[i][k] /\ Own(l, k)

\* "batch output must match sequential": every output is a greedy run behind
\* its prompt. The code breaks this: the slot swapped into a retired one is
\* given the retired one's token.
MatchesSequential == \A i \in Seqs : \A k \in DOMAIN generated[i] : Own(i, k)
=============================================================================
