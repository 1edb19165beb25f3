------------------------- MODULE MCGenerationState -------------------------
(***************************************************************************)
(* A two-token vocabulary and a target model whose choice depends on every *)
(* token of the context and on its place in it.                            *)
(***************************************************************************)
EXTENDS GenerationStateInv

MCGreedy(s) ==
  LET h[i \in 0..Len(s)] == IF i = 0 THEN 1 ELSE (2 * h[i - 1] + s[i]) % 5
  IN 1 + (h[Len(s)] % 2)
=============================================================================
