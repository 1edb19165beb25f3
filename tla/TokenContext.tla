---------------------------- MODULE TokenContext ----------------------------
(***************************************************************************)
(* What one sequence of the engine promises its caller, with the layers,   *)
(* caches and passes left out: a greedy decoder is a context, the tokens   *)
(* consumed so far, and every token it answers with is the model's own     *)
(* choice after exactly that context.                                      *)
(*                                                                         *)
(* The promise is conditional, as the kernels are: it is void from the     *)
(* moment several tokens are consumed at once into a context that is not   *)
(* empty (see GenerationState, operator VisibleRows).                      *)
(***************************************************************************)
EXTENDS Naturals, Sequences

CONSTANTS
  Token,      \* the vocabulary
  NCtx,       \* context_length
  NoToken,    \* "no token": not a member of Token
  Greedy(_)   \* the target model: the argmax token after a context

VARIABLES
  ctx,        \* the tokens consumed so far
  trusted,    \* no multi-token feed has entered a non-empty context
  said        \* the token the last call answered with, or NoToken

vars == <<ctx, trusted, said>>

Trust(ts) == trusted /\ (Len(ts) = 1 \/ ctx = <<>>)

\* Every token of ts after the first is the model's choice at its place.
GreedyFrom(c, ts) ==
  \A i \in 2..Len(ts) : ts[i] = Greedy(c \o SubSeq(ts, 1, i - 1))

-----------------------------------------------------------------------------
Init == ctx = <<>> /\ trusted = TRUE /\ said = NoToken

\* A call begins: the previous answer is gone. A refused call goes no further.
Begin == said' = NoToken /\ UNCHANGED <<ctx, trusted>>

\* Tokens are consumed and nothing is said.
Consume(ts) ==
  /\ Len(ctx) + Len(ts) <= NCtx
  /\ ctx' = ctx \o ts
  /\ trusted' = Trust(ts)
  /\ UNCHANGED said

\* A token, and the draft tokens accepted behind it, are consumed and the
\* next token is said.
Produce(ts) ==
  /\ Len(ctx) + Len(ts) <= NCtx
  /\ ctx' = ctx \o ts
  /\ trusted' = Trust(ts)
  /\ said' \in Token
  /\ Trust(ts) => said' = Greedy(ctx') /\ GreedyFrom(ctx, ts)

Feeds == UNION {[1..n -> Token] : n \in 1..NCtx}

Next ==
  \/ Begin
  \/ \E ts \in Feeds : Consume(ts) \/ Produce(ts)

Spec == Init /\ [][Next]_vars
=============================================================================
