----------------------------- MODULE Completions -----------------------------
(***************************************************************************)
(* What every batch front end of the engine promises: each request is      *)
(* answered at most once, with what the model would have generated had the *)
(* request been alone.                                                     *)
(***************************************************************************)
EXTENDS Naturals, Sequences

CONSTANTS
  Request,    \* [tokens : a nonempty prompt, max_new : Nat]
  NoAnswer,   \* not a sequence
  Eos,        \* the token that ends a sequence, or no token at all
  Greedy(_)   \* the target model: the argmax token after a context

VARIABLES
  asked,      \* the requests, in the order they were made
  answers     \* their answers so far, NoAnswer where there is none

vars == <<asked, answers>>

\* The first decode feeds the last prompt token again.
Seed(req) == Append(req.tokens, req.tokens[Len(req.tokens)])

\* out is a greedy run behind the prompt.
Sequential(req, out) ==
  \A i \in 1..Len(out) : out[i] = Greedy(Seed(req) \o SubSeq(out, 1, i - 1))

\* It ends at the first end-of-sequence token or after max_new tokens, never
\* before one is generated.
Ended(req, out) ==
  /\ Len(out) > 0
  /\ Len(out) >= req.max_new \/ out[Len(out)] = Eos
  /\ \A i \in 1..(Len(out) - 1) : i < req.max_new /\ out[i] # Eos

-----------------------------------------------------------------------------
Init == asked = <<>> /\ answers = <<>>

Ask(req) ==
  /\ asked' = Append(asked, req)
  /\ answers' = Append(answers, NoAnswer)

\* Any number of requests are answered together.
Answer ==
  /\ UNCHANGED asked
  /\ Len(answers') = Len(answers)
  /\ \A i \in 1..Len(answers) :
       \/ answers'[i] = answers[i]
       \/ /\ answers[i] = NoAnswer
          /\ Sequential(asked[i], answers'[i]) /\ Ended(asked[i], answers'[i])

Next == Answer \/ \E req \in Request : Ask(req)

Spec == Init /\ [][Next]_vars
=============================================================================
