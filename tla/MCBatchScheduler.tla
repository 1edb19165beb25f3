-------------------------- MODULE MCBatchScheduler --------------------------
(***************************************************************************)
(* A context of five tokens and requests on every side of its limits: one  *)
(* that asks for nothing, one that ends at its limit, one that the model   *)
(* ends at once, one that the model ends just before the context is full,  *)
(* one that runs out of context and one whose prompt is too long. Token 3  *)
(* ends a sequence.                                                        *)
(***************************************************************************)
EXTENDS BatchScheduler

MCGreedy(s) ==
  LET h[i \in 0..Len(s)] == IF i = 0 THEN 2 ELSE (3 * h[i - 1] + s[i]) % 13
  IN 1 + (h[Len(s)] % 3)

MCRequest == {
  [tokens |-> <<1, 2>>, max_new |-> 0],
  [tokens |-> <<2>>, max_new |-> 2],
  [tokens |-> <<1, 1>>, max_new |-> 3],
  [tokens |-> <<2, 1, 2>>, max_new |-> 3],
  [tokens |-> <<1, 2>>, max_new |-> 4],
  [tokens |-> <<1, 1, 1, 1, 1, 1>>, max_new |-> 1]}
=============================================================================
