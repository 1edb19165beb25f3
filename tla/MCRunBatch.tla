----------------------------- MODULE MCRunBatch -----------------------------
(***************************************************************************)
(* Batches of up to four prompts, among them one that fits only a short    *)
(* --n-predict; the model ends one of them after one token, one after two, *)
(* one after three and one never.                                          *)
(***************************************************************************)
EXTENDS RunBatch

MCGreedy(s) ==
  LET h[i \in 0..Len(s)] == IF i = 0 THEN 2 ELSE (3 * h[i - 1] + s[i]) % 13
  IN 1 + (h[Len(s)] % 3)

MCPrompts == {<<1>>, <<2>>, <<1, 2>>, <<2, 1, 1>>}

MCFiles == UNION {[1..n -> MCPrompts] : n \in 1..4}
=============================================================================
