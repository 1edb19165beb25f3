--------------------------- MODULE RunBatchProofs ---------------------------
(***************************************************************************)
(* For every vocabulary, model, context length, file and --n-predict: the  *)
(* four invariants of RunBatch, from one inductive invariant.              *)
(***************************************************************************)
EXTENDS RunBatch, SeqLemmas, SequenceTheorems, TLAPS

\* What is kept fits.
Prompts ==
  /\ \A i \in DOMAIN prompts : prompts[i] # <<>>
  /\ \A i \in DOMAIN token_prompts :
       token_prompts[i] # <<>> /\ Fits(token_prompts[i], n_predict)

\* No slot is used before the prefill.
Before ==
  /\ pc = "start" => token_prompts = <<>>
  /\ pc \in {"start", "encode"} =>
       /\ states = <<>> /\ last_tokens = <<>> /\ histories = <<>> /\ order = <<>>
       /\ generated = <<>> /\ steps = 0

\* A slot whose token of this step was not recorded yet.
Pending(s) == pc = "record" /\ s >= j

\* A slot is its sequence's: a pending one has consumed all that was recorded,
\* any other all but the last token.
SlotOK(s) ==
  LET i == order[s]
  IN /\ histories[s] = token_prompts[i] \o generated[i]
     /\ last_tokens[s] = LastOf(Fed(i))
     /\ states[s] = IF Pending(s) THEN Fed(i) ELSE AllButLast(Fed(i))
     /\ Len(generated[i]) = IF Pending(s) THEN steps - 1 ELSE steps
     /\ \A k \in DOMAIN generated[i] : generated[i][k] \notin stop_ids

Arrays ==
  /\ \A s, t \in DOMAIN order : order[s] = order[t] => s = t
  /\ Len(states) = Len(order) /\ Len(last_tokens) = Len(order) /\ Len(histories) = Len(order)

Slots == \A s \in DOMAIN order : SlotOK(s)

Sweeping == pc = "record" => steps >= 1 /\ Len(order) <= Len(step_tokens)

\* An output that ended with its only stop token.
Ended(i) ==
  /\ Len(generated[i]) \in 1..steps
  /\ \A k \in DOMAIN generated[i] : generated[i][k] \in stop_ids <=> k = Len(generated[i])

Left == \A i \in Seqs : (\A s \in DOMAIN order : order[s] # i) => Ended(i)

\* A stop token of this step that some sequence chose.
Inherited(tok) ==
  /\ tok \in stop_ids
  /\ \E l \in Seqs : Len(generated[l]) = steps /\ generated[l][steps] = tok /\ Own(l, steps)

\* What a pending slot is given is its model's choice, except for the slot that
\* was just filled by a swap: it is given what the retired one was.
Chosen ==
  \A s \in DOMAIN order : Pending(s) =>
    \/ step_tokens[s] = Greedy(Fed(order[s]))
    \/ s = j /\ Inherited(step_tokens[s])

\* The inductive invariant.
BatchInv ==
  TypeOK /\ Prompts /\ Before /\ Arrays /\ Slots /\ Sweeping /\ Left /\ Chosen /\ WrongOnlyAtEnd

-----------------------------------------------------------------------------
(* Sequences.                                                              *)

\* The last token and those before it.
LEMMA LastAndFront ==
  ASSUME NEW S, NEW s \in Seq(S), NEW x \in S
  PROVE  /\ Append(s, x) \in Seq(S) /\ Len(Append(s, x)) = Len(s) + 1
         /\ LastOf(Append(s, x)) = x /\ AllButLast(Append(s, x)) = s
BY AppendLast DEF LastOf, AllButLast

\* They make up the sequence.
LEMMA Split ==
  ASSUME NEW S, NEW s \in Seq(S), s # <<>>
  PROVE  /\ AllButLast(s) \in Seq(S) /\ LastOf(s) \in S
         /\ Len(AllButLast(s)) = Len(s) - 1 /\ Len(s) > 0
         /\ Append(AllButLast(s), LastOf(s)) = s
<1>1. PICK t \in Seq(S), x \in S : s = Append(t, x)
  BY SequenceEmptyOrAppend
<1>2. LastOf(s) = x /\ AllButLast(s) = t /\ Len(s) = Len(t) + 1
  BY <1>1, LastAndFront
<1>3. Len(t) \in Nat
  BY LenProperties
<1> QED
  BY <1>1, <1>2, <1>3

\* Vec::swap_remove: the last element fills the hole.
LEMMA SwapRemoved ==
  ASSUME NEW S, NEW s \in Seq(S), NEW i \in 1..Len(s)
  PROVE  /\ SwapRemove(s, i) \in Seq(S) /\ Len(SwapRemove(s, i)) = Len(s) - 1
         /\ \A k \in 1..(Len(s) - 1) :
              SwapRemove(s, i)[k] = IF k = i THEN s[Len(s)] ELSE s[k]
<1> DEFINE t == [s EXCEPT ![i] = LastOf(s)]
<1>1. Len(s) \in Nat /\ Len(s) \in 1..Len(s) /\ s[Len(s)] \in S
  BY LenProperties, ElementOfSeq
<1>2. /\ t \in Seq(S) /\ Len(t) = Len(s)
      /\ \A k \in 1..Len(s) : t[k] = IF k = i THEN s[Len(s)] ELSE s[k]
  BY <1>1, ExceptSeq DEF LastOf
<1> HIDE DEF t
<1>3. Len(s) - 1 \in 0..Len(t)
  BY <1>1, <1>2
<1>4. /\ SubSeq(t, 1, Len(s) - 1) \in Seq(S) /\ Len(SubSeq(t, 1, Len(s) - 1)) = Len(s) - 1
      /\ \A k \in 1..(Len(s) - 1) : SubSeq(t, 1, Len(s) - 1)[k] = t[k]
  BY <1>2, <1>3, FrontPiece
<1>5. \A k \in 1..(Len(s) - 1) : k \in 1..Len(s)
  BY <1>1
<1>6. SwapRemove(s, i) = SubSeq(t, 1, Len(s) - 1)
  BY DEF SwapRemove, t
<1> QED
  BY <1>2, <1>4, <1>5, <1>6

-----------------------------------------------------------------------------
(* What is known of a sequence and of a slot.                              *)

LEMMA FedType ==
  ASSUME NEW i, token_prompts[i] \in Seq(Token), token_prompts[i] # <<>>,
         generated[i] \in Seq(Token)
  PROVE  /\ Append(token_prompts[i], LastOf(token_prompts[i])) \in Seq(Token)
         /\ Fed(i) \in Seq(Token) /\ Fed(i) # <<>>
         /\ Len(Fed(i)) = Len(token_prompts[i]) + 1 + Len(generated[i])
         /\ Len(token_prompts[i]) \in Nat /\ Len(generated[i]) \in Nat
<1> DEFINE base == Append(token_prompts[i], LastOf(token_prompts[i]))
<1>1. LastOf(token_prompts[i]) \in Token
  BY Split
<1>2. base \in Seq(Token) /\ Len(base) = Len(token_prompts[i]) + 1
  BY <1>1, LastAndFront
<1>3. Len(token_prompts[i]) \in Nat /\ Len(generated[i]) \in Nat
  BY LenProperties
<1>4. Fed(i) = base \o generated[i]
  BY DEF Fed
<1> HIDE DEF base
<1>5. Fed(i) \in Seq(Token) /\ Len(Fed(i)) = Len(base) + Len(generated[i])
  BY <1>2, <1>4, ConcatProperties
<1>6. Fed(i) # <<>>
  <2>1. Len(base) \in Nat /\ Len(base) > 0
    BY <1>2, <1>3
  <2>2. Len(base) + Len(generated[i]) > 0
    BY <1>3, <2>1
  <2> QED
    BY <1>5, <2>2, EmptySeq
<1> QED
  BY <1>2, <1>3, <1>5, <1>6 DEF base

\* A sequence has a prompt that fits.
LEMMA SeqFacts ==
  ASSUME BatchInv, NEW i \in Seqs
  PROVE  /\ i \in DOMAIN token_prompts /\ pc \in {"decode", "record", "done"}
         /\ token_prompts[i] \in Seq(Token) /\ token_prompts[i] # <<>>
         /\ generated[i] \in Seq(Token) /\ DOMAIN generated[i] = 1..Len(generated[i])
         /\ Fed(i) \in Seq(Token) /\ Fed(i) # <<>>
         /\ Len(Fed(i)) = Len(token_prompts[i]) + 1 + Len(generated[i])
         /\ Len(token_prompts[i]) \in Nat /\ Len(generated[i]) \in Nat
         /\ Len(token_prompts[i]) + n_predict <= NCtx
<1>1. /\ generated \in Seq(Seq(Token)) /\ token_prompts \in Seq(Seq(Token))
      /\ pc \in {"start", "encode", "decode", "record", "done"}
      /\ pc \in {"decode", "record", "done"} => Len(generated) = Len(token_prompts)
  BY DEF BatchInv, TypeOK
<1>2. pc \in {"decode", "record", "done"}
  <2>1. DOMAIN generated # {}
    BY DEF Seqs
  <2>2. DOMAIN <<>> = {}
    OBVIOUS
  <2> QED
    BY <1>1, <2>1, <2>2 DEF BatchInv, Before
<1>3. DOMAIN generated = 1..Len(generated) /\ DOMAIN token_prompts = 1..Len(token_prompts)
  BY <1>1, LenProperties
<1>4. i \in 1..Len(generated) /\ i \in 1..Len(token_prompts)
  BY <1>1, <1>2, <1>3 DEF Seqs
<1>5. generated[i] \in Seq(Token) /\ token_prompts[i] \in Seq(Token)
  BY <1>1, <1>4, ElementOfSeq
<1>6. token_prompts[i] # <<>> /\ Len(token_prompts[i]) + n_predict <= NCtx
  BY <1>3, <1>4 DEF BatchInv, Prompts, Fits
<1>7. DOMAIN generated[i] = 1..Len(generated[i])
  BY <1>5, LenProperties
<1> QED
  BY <1>2, <1>3, <1>4, <1>5, <1>6, <1>7, FedType

\* A slot names a sequence; the arrays have the same places.
LEMMA SlotFacts ==
  ASSUME BatchInv
  PROVE  /\ Len(order) \in Nat /\ DOMAIN order = 1..Len(order)
         /\ DOMAIN states = 1..Len(order) /\ Len(states) = Len(order)
         /\ \A s \in DOMAIN order :
              /\ order[s] \in Seqs /\ s \in Nat
              /\ states[s] \in Seq(Token) /\ last_tokens[s] \in Token
              /\ histories[s] \in Seq(Token)
<1>1. /\ order \in Seq(Seqs) /\ states \in Seq(Seq(Token)) /\ last_tokens \in Seq(Token)
      /\ histories \in Seq(Seq(Token))
      /\ Len(states) = Len(order) /\ Len(last_tokens) = Len(order)
      /\ Len(histories) = Len(order)
  BY DEF BatchInv, TypeOK, Arrays
<1>2. Len(order) \in Nat /\ DOMAIN order = 1..Len(order) /\ DOMAIN states = 1..Len(order)
  BY <1>1, LenProperties
<1>3. \A s \in 1..Len(order) :
        /\ order[s] \in Seqs /\ states[s] \in Seq(Token) /\ last_tokens[s] \in Token
        /\ histories[s] \in Seq(Token)
  BY <1>1, ElementOfSeq
<1> QED
  BY <1>1, <1>2, <1>3

-----------------------------------------------------------------------------
(* Before the prefill, and the prefill.                                    *)

LEMMA BatchInitInv == Init => BatchInv
<1> SUFFICES ASSUME Init PROVE BatchInv
  OBVIOUS
<1>0. <<>> \in Seq(Token) /\ <<>> \in Seq(Seq(Token)) /\ <<>> \in Seq(Seqs)
      /\ Len(<<>>) = 0 /\ DOMAIN <<>> = {}
  BY EmptySeq
<1>1. TypeOK
  BY <1>0 DEF Init, TypeOK
<1> QED
  BY <1>0, <1>1 DEF Init, BatchInv, Prompts, Before, Arrays, Slots, Sweeping, Left, Chosen,
     Pending, WrongOnlyAtEnd, Seqs

\* As long as there are no slots and no outputs there is nothing else to show.
LEMMA NothingYet ==
  ASSUME TypeOK', Prompts', Before', pc' \in {"start", "encode"}
  PROVE  BatchInv'
<1>0. Len(<<>>) = 0 /\ DOMAIN <<>> = {}
  OBVIOUS
<1>1. /\ states' = <<>> /\ last_tokens' = <<>> /\ histories' = <<>> /\ order' = <<>>
      /\ generated' = <<>> /\ steps' = 0
  BY DEF Before
<1>2. Arrays' /\ Slots' /\ Sweeping' /\ Left' /\ Chosen' /\ WrongOnlyAtEnd'
  BY <1>0, <1>1 DEF Arrays, Slots, Sweeping, Left, Chosen, WrongOnlyAtEnd, Seqs
<1> QED
  BY <1>2 DEF BatchInv

LEMMA StartInv ==
  ASSUME BatchInv, NEW file \in Files, NEW n \in NPredict, Start(file, n)
  PROVE  BatchInv'
<1>0. file \in Seq(Seq(Token)) /\ \A i \in DOMAIN file : file[i] # <<>>
  BY FilesAssumption
<1>1. /\ pc = "start" /\ pc' = "encode" /\ n_predict' = n /\ prompts' = file
      /\ UNCHANGED <<token_prompts, generated, states, last_tokens, histories, order, steps,
                     step_tokens, j>>
  BY DEF Start, slots
<1>2. n \in Nat /\ steps = 0
  BY <1>1, NPredictAssumption DEF BatchInv, Before
<1>3. TypeOK'
  BY <1>0, <1>1, <1>2 DEF BatchInv, TypeOK, Seqs
<1>4. Before'
  BY <1>1 DEF BatchInv, Before
<1>5. Prompts'
  <2>1. DOMAIN token_prompts' = {}
    BY <1>1 DEF BatchInv, Before
  <2> QED
    BY <1>0, <1>1, <2>1 DEF Prompts
<1> QED
  BY <1>1, <1>3, <1>4, <1>5, NothingYet

LEMMA EncodePromptInv ==
  ASSUME BatchInv, EncodePrompt
  PROVE  BatchInv'
<1> DEFINE S == Seq(Token)
<1>1. /\ pc = "encode" /\ prompts # <<>> /\ prompts' = Tail(prompts)
      /\ token_prompts' = IF Fits(Head(prompts), n_predict)
                          THEN Append(token_prompts, Head(prompts)) ELSE token_prompts
      /\ UNCHANGED <<pc, n_predict, generated, states, last_tokens, histories, order, steps,
                     step_tokens, j>>
  BY DEF EncodePrompt, slots
<1>2. prompts \in Seq(S) /\ token_prompts \in Seq(S)
  BY DEF BatchInv, TypeOK
<1> HIDE DEF S
<1>3. /\ Head(prompts) \in S /\ Tail(prompts) \in Seq(S)
      /\ Len(Tail(prompts)) = Len(prompts) - 1 /\ Len(prompts) \in Nat
      /\ \A i \in 1..Len(Tail(prompts)) : Tail(prompts)[i] = prompts[i + 1]
      /\ DOMAIN Tail(prompts) = 1..Len(Tail(prompts)) /\ DOMAIN prompts = 1..Len(prompts)
  BY <1>1, <1>2, HeadTailProperties, LenProperties
<1>4. Head(prompts) = prompts[1] /\ Len(prompts) # 0
  BY <1>1, <1>2, EmptySeq
<1>5. prompts[1] # <<>>
  BY <1>3, <1>4 DEF BatchInv, Prompts
<1>6. \A i \in DOMAIN prompts' : prompts'[i] # <<>>
  <2> SUFFICES ASSUME NEW i \in 1..Len(Tail(prompts)) PROVE Tail(prompts)[i] # <<>>
    BY <1>1, <1>3
  <2>1. i + 1 \in DOMAIN prompts
    BY <1>3
  <2> QED
    BY <1>3, <2>1 DEF BatchInv, Prompts
<1>7. /\ token_prompts' \in Seq(S)
      /\ \A i \in DOMAIN token_prompts' :
           token_prompts'[i] # <<>> /\ Fits(token_prompts'[i], n_predict)
  <2>1. CASE Fits(Head(prompts), n_predict)
    <3> DEFINE t == Append(token_prompts, Head(prompts))
    <3>1. /\ t \in Seq(S) /\ Len(t) = Len(token_prompts) + 1 /\ Len(token_prompts) \in Nat
          /\ \A i \in 1..Len(token_prompts) : t[i] = token_prompts[i]
          /\ t[Len(token_prompts) + 1] = Head(prompts)
      BY <1>2, <1>3, AppendProperties, LenProperties
    <3> HIDE DEF t
    <3>2. DOMAIN t = 1..(Len(token_prompts) + 1)
          /\ DOMAIN token_prompts = 1..Len(token_prompts)
      BY <1>2, <3>1, LenProperties
    <3>3. \A i \in DOMAIN t : i \in DOMAIN token_prompts \/ i = Len(token_prompts) + 1
      BY <3>1, <3>2
    <3>4. \A i \in DOMAIN t : t[i] # <<>> /\ Fits(t[i], n_predict)
      BY <1>4, <1>5, <2>1, <3>1, <3>2, <3>3 DEF BatchInv, Prompts
    <3> QED
      BY <1>1, <2>1, <3>1, <3>4 DEF t
  <2>2. CASE ~Fits(Head(prompts), n_predict)
    BY <1>1, <1>2, <2>2 DEF BatchInv, Prompts
  <2> QED
    BY <2>1, <2>2
<1>8. TypeOK'
  BY <1>1, <1>3, <1>7 DEF BatchInv, TypeOK, Seqs, S
<1>9. Before'
  BY <1>1 DEF BatchInv, Before
<1>10. Prompts'
  BY <1>1, <1>6, <1>7 DEF Prompts, Fits
<1> QED
  BY <1>1, <1>8, <1>9, <1>10, NothingYet

LEMMA PrefillInv ==
  ASSUME BatchInv, Prefill
  PROVE  BatchInv'
<1> DEFINE N == DOMAIN token_prompts
<1>1. /\ pc = "encode" /\ pc' \in {"decode", "done"}
      /\ states' = token_prompts /\ histories' = token_prompts
      /\ last_tokens' = [i \in N |-> LastOf(token_prompts[i])]
      /\ order' = [i \in N |-> i]
      /\ generated' = [i \in N |-> <<>>]
      /\ UNCHANGED <<n_predict, prompts, token_prompts, steps, step_tokens, j>>
  BY DEF Prefill
<1>2. /\ token_prompts \in Seq(Seq(Token)) /\ Len(token_prompts) \in Nat
      /\ N = 1..Len(token_prompts) /\ steps = 0 /\ n_predict \in Nat
      /\ j \in 1..(Len(states) + 1) /\ Len(states) = 0
  <2>1. /\ token_prompts \in Seq(Seq(Token)) /\ n_predict \in NPredict \cup {0}
        /\ j \in 1..(Len(states) + 1)
    BY DEF BatchInv, TypeOK
  <2>2. steps = 0 /\ states = <<>>
    BY <1>1 DEF BatchInv, Before
  <2>3. Len(token_prompts) \in Nat /\ N = 1..Len(token_prompts)
    BY <2>1, LenProperties
  <2> QED
    BY <2>1, <2>2, <2>3, NPredictAssumption
<1> HIDE DEF N
<1>3. \A i \in N : /\ token_prompts[i] \in Seq(Token) /\ token_prompts[i] # <<>>
                   /\ Len(token_prompts[i]) + n_predict <= NCtx
                   /\ LastOf(token_prompts[i]) \in Token /\ Len(token_prompts[i]) \in Nat
  <2>1. \A i \in N : token_prompts[i] \in Seq(Token)
    BY <1>2, ElementOfSeq
  <2>2. \A i \in N : token_prompts[i] # <<>> /\ Len(token_prompts[i]) + n_predict <= NCtx
    BY DEF BatchInv, Prompts, Fits, N
  <2> QED
    BY <2>1, <2>2, Split, LenProperties
<1>4. /\ last_tokens' \in Seq(Token) /\ Len(last_tokens') = Len(token_prompts)
      /\ order' \in Seq(N) /\ Len(order') = Len(token_prompts) /\ DOMAIN order' = N
      /\ generated' \in Seq(Seq(Token)) /\ Len(generated') = Len(token_prompts)
      /\ Seqs' = N
  BY <1>1, <1>2, <1>3 DEF Seqs
<1>5. TypeOK'
  <2>1. \A i \in N : Len(token_prompts[i]) <= NCtx
    BY <1>2, <1>3, NCtxAssumption
  <2>2. j' \in 1..(Len(states') + 1)
    BY <1>1, <1>2
  <2> QED
    BY <1>1, <1>4, <2>1, <2>2 DEF BatchInv, TypeOK, N
<1>6. Prompts' /\ Before' /\ Sweeping'
  BY <1>1 DEF BatchInv, Prompts, Before, Sweeping, Fits
<1>7. Arrays'
  BY <1>1, <1>4 DEF Arrays
<1>8. Slots'
  <2> SUFFICES ASSUME NEW s \in N PROVE SlotOK(s)'
    BY <1>4 DEF Slots
  <2>1. order'[s] = s /\ generated'[s] = <<>> /\ token_prompts'[s] = token_prompts[s]
        /\ histories'[s] = token_prompts[s] /\ states'[s] = token_prompts[s]
        /\ last_tokens'[s] = LastOf(token_prompts[s]) /\ ~Pending(s)'
    BY <1>1 DEF Pending
  <2> DEFINE base == Append(token_prompts[s], LastOf(token_prompts[s]))
  <2>2. /\ base \in Seq(Token) /\ LastOf(base) = LastOf(token_prompts[s])
        /\ AllButLast(base) = token_prompts[s]
    BY <1>3, LastAndFront
  <2>3. Fed(s)' = base \o <<>>
    BY <2>1 DEF Fed
  <2> HIDE DEF base
  <2>4. Fed(s)' = base /\ token_prompts[s] \o <<>> = token_prompts[s]
    BY <1>3, <2>2, <2>3, ConcatEmptySeq
  <2>5. Len(<<>>) = 0 /\ DOMAIN <<>> = {}
    OBVIOUS
  <2>6. LastOf(Fed(s)') = last_tokens'[s] /\ AllButLast(Fed(s)') = states'[s]
    BY <2>1, <2>2, <2>4
  <2> QED
    BY <1>1, <1>2, <2>1, <2>4, <2>5, <2>6 DEF SlotOK
<1>9. Left'
  BY <1>1, <1>4 DEF Left
<1>10. Chosen'
  BY <1>1 DEF Chosen, Pending
<1>11. WrongOnlyAtEnd'
  <2>1. DOMAIN <<>> = {}
    OBVIOUS
  <2>2. \A i \in N : generated'[i] = <<>>
    BY <1>1
  <2>3. \A i \in Seqs' : DOMAIN generated'[i] = {}
    BY <1>4, <2>1, <2>2, Zenon
  <2> QED
    BY <2>3 DEF WrongOnlyAtEnd
<1> QED
  BY <1>5, <1>6, <1>7, <1>8, <1>9, <1>10, <1>11 DEF BatchInv

-----------------------------------------------------------------------------
(* A decode step.                                                          *)

\* The outputs do not change, so what is said of them alone does not either.
LEMMA OutputsKept ==
  ASSUME BatchInv, UNCHANGED <<token_prompts, generated>>, steps \in Nat, steps' \in Nat,
         steps <= steps', \A i : i \in Seqs /\ (\A s \in DOMAIN order' : order'[s] # i)
                               => \A s \in DOMAIN order : order[s] # i
  PROVE  Left' /\ WrongOnlyAtEnd'
<1>1. Seqs' = Seqs
  BY DEF Seqs
<1>2. Left'
  BY <1>1, SeqFacts DEF BatchInv, Left, Ended
<1>3. WrongOnlyAtEnd'
  BY <1>1 DEF BatchInv, WrongOnlyAtEnd, Own
<1> QED
  BY <1>2, <1>3

LEMMA DecodeStepInv ==
  ASSUME BatchInv, DecodeStep
  PROVE  BatchInv'
<1>1. /\ pc = "decode" /\ pc' = "record" /\ steps # n_predict
      /\ states' = [s \in DOMAIN states |-> Append(states[s], last_tokens[s])]
      /\ step_tokens' = [s \in DOMAIN states |-> Greedy(states'[s])]
      /\ steps' = steps + 1 /\ j' = 1
      /\ UNCHANGED <<n_predict, prompts, token_prompts, generated, last_tokens, histories, order>>
  BY DEF DecodeStep, Over
<1>2. steps \in 0..n_predict /\ n_predict \in Nat
  BY NPredictAssumption DEF BatchInv, TypeOK
<1>3. steps < n_predict
  BY <1>1, <1>2
<1>4. ASSUME NEW s \in DOMAIN order
      PROVE  /\ states'[s] = Fed(order[s]) /\ states'[s] \in Seq(Token)
             /\ Len(states'[s]) \in 0..NCtx /\ Greedy(states'[s]) \in Token
             /\ Len(generated[order[s]]) = steps
  <2>1. SlotOK(s) /\ ~Pending(s) /\ order[s] \in Seqs /\ s \in DOMAIN states
    BY <1>1, SlotFacts DEF BatchInv, Slots, Pending
  <2>2. /\ last_tokens[s] = LastOf(Fed(order[s])) /\ states[s] = AllButLast(Fed(order[s]))
        /\ Len(generated[order[s]]) = steps
    BY <2>1 DEF SlotOK
  <2>3. /\ Fed(order[s]) \in Seq(Token) /\ Fed(order[s]) # <<>>
        /\ Len(Fed(order[s])) = Len(token_prompts[order[s]]) + 1 + steps
        /\ Len(token_prompts[order[s]]) \in Nat
        /\ Len(token_prompts[order[s]]) + n_predict <= NCtx
    BY <2>1, <2>2, SeqFacts
  <2>4. states'[s] = Fed(order[s])
    BY <1>1, <2>1, <2>2, <2>3, Split
  <2> DEFINE f == Fed(order[s])
             p == Len(token_prompts[order[s]])
  <2>5. Len(f) = p + 1 + steps /\ p \in Nat /\ p + n_predict <= NCtx
    BY <2>3
  <2> HIDE DEF p, f
  <2>6. Len(f) \in 0..NCtx
    BY <2>5, <1>2, <1>3, NCtxAssumption
  <2>7. f \in [1..Len(f) -> Token]
    BY <2>3, LenProperties DEF f
  <2>8. Greedy(f) \in Token
    BY <2>6, <2>7, GreedyAssumption
  <2> QED
    BY <2>2, <2>3, <2>4, <2>6, <2>8 DEF f
<1>5. DOMAIN states = 1..Len(order) /\ DOMAIN order = 1..Len(order) /\ Len(order) \in Nat
      /\ Len(states) = Len(order)
  BY SlotFacts
<1>6. /\ states' \in Seq(Seq(Token)) /\ Len(states') = Len(order) /\ DOMAIN states' = DOMAIN order
      /\ step_tokens' \in Seq(Token) /\ Len(step_tokens') = Len(order)
  <2>1. states' = [s \in 1..Len(order) |-> states'[s]]
    BY <1>1, <1>5
  <2>2. states' \in Seq(Seq(Token)) /\ Len(states') = Len(order)
    BY <1>4, <1>5, <2>1
  <2>3. step_tokens' = [s \in 1..Len(order) |-> Greedy(states'[s])]
    BY <1>1, <1>5
  <2>4. step_tokens' \in Seq(Token) /\ Len(step_tokens') = Len(order)
    BY <1>4, <1>5, <2>3
  <2> QED
    BY <1>1, <1>5, <2>2, <2>4
<1>7. TypeOK'
  <2>1. j' \in 1..(Len(states') + 1)
    BY <1>1, <1>5, <1>6
  <2>2. steps' \in 0..n_predict
    BY <1>1, <1>2, <1>3
  <2>3. \A s \in DOMAIN states' : Len(states'[s]) <= NCtx
    BY <1>4, <1>6, NCtxAssumption
  <2> QED
    BY <1>1, <1>6, <2>1, <2>2, <2>3 DEF BatchInv, TypeOK, Seqs
<1>8. Prompts' /\ Before'
  BY <1>1 DEF BatchInv, Prompts, Before, Fits
<1>9. Arrays'
  BY <1>1, <1>5, <1>6 DEF BatchInv, Arrays
<1>10. ASSUME NEW s \in DOMAIN order PROVE Pending(s)'
  BY <1>1, <1>5 DEF Pending
<1>11. Slots'
  <2> SUFFICES ASSUME NEW s \in DOMAIN order PROVE SlotOK(s)'
    BY <1>1 DEF Slots
  <2>1. SlotOK(s) /\ ~Pending(s)
    BY <1>1 DEF BatchInv, Slots, Pending
  <2>2. Fed(order[s])' = Fed(order[s])
    BY <1>1 DEF Fed
  <2>3. steps' - 1 = steps
    BY <1>1, <1>2
  <2> QED
    BY <1>1, <1>4, <1>10, <2>1, <2>2, <2>3 DEF SlotOK
<1>12. Sweeping'
  BY <1>1, <1>2, <1>5, <1>6 DEF Sweeping
<1>13. Chosen'
  <2> SUFFICES ASSUME NEW s \in DOMAIN order PROVE step_tokens'[s] = Greedy(Fed(order[s])')
    BY <1>1 DEF Chosen
  <2>1. Fed(order[s])' = Fed(order[s])
    BY <1>1 DEF Fed
  <2> QED
    BY <1>1, <1>4, <1>5, <2>1
<1>14. Left' /\ WrongOnlyAtEnd'
  BY <1>1, <1>2, OutputsKept
<1> QED
  BY <1>7, <1>8, <1>9, <1>11, <1>12, <1>13, <1>14 DEF BatchInv

-----------------------------------------------------------------------------
(* A turn of the sweep: what it does to the outputs.                       *)

\* The token of slot j is recorded for its sequence, and for no other.
LEMMA Recorded ==
  ASSUME BatchInv, RecordSlot, NEW i0, i0 = order[j], NEW tok, tok = step_tokens[j]
  PROVE  /\ j \in DOMAIN order /\ tok \in Token /\ i0 \in Seqs /\ Pending(j)
         /\ pc = "record" /\ steps \in Nat /\ steps >= 1
         /\ UNCHANGED <<pc, n_predict, prompts, token_prompts, steps, step_tokens>>
         /\ generated' \in Seq(Seq(Token)) /\ Len(generated') = Len(generated)
         /\ Seqs' = Seqs /\ generated'[i0] = Append(generated[i0], tok)
         /\ \A i \in Seqs : i # i0 => generated'[i] = generated[i]
<1> DEFINE S == Seq(Token)
<1>1. /\ pc = "record" /\ j <= Len(states)
      /\ generated' = [generated EXCEPT ![i0] = Append(@, tok)]
      /\ UNCHANGED <<pc, n_predict, prompts, token_prompts, steps, step_tokens>>
  BY DEF RecordSlot
<1>2. /\ j \in 1..(Len(states) + 1) /\ step_tokens \in Seq(Token) /\ steps \in 0..n_predict
      /\ generated \in Seq(S) /\ n_predict \in Nat
  BY NPredictAssumption DEF BatchInv, TypeOK
<1>3. j \in DOMAIN order /\ j \in 1..Len(order) /\ i0 \in Seqs /\ j \in Nat
  <2>1. Len(states) = Len(order) /\ Len(order) \in Nat /\ DOMAIN order = 1..Len(order)
    BY SlotFacts
  <2>2. j \in 1..Len(order) /\ j \in Nat
    BY <1>1, <1>2, <2>1
  <2> QED
    BY <2>1, <2>2, SlotFacts
<1>4. Len(order) <= Len(step_tokens) /\ steps >= 1
  BY <1>1 DEF BatchInv, Sweeping
<1>5. tok \in Token
  <2>1. j \in 1..Len(step_tokens)
    BY <1>2, <1>3, <1>4, SlotFacts, LenProperties
  <2> QED
    BY <1>2, <2>1, ElementOfSeq
<1>6. Pending(j)
  BY <1>1, <1>3 DEF Pending
<1>7. Append(generated[i0], tok) \in S
  BY <1>3, <1>5, SeqFacts, AppendProperties
<1> HIDE DEF S
<1>8. i0 \in 1..Len(generated) /\ DOMAIN generated = 1..Len(generated)
  BY <1>2, <1>3, LenProperties DEF Seqs
<1>9. /\ generated' \in Seq(S) /\ Len(generated') = Len(generated)
      /\ \A i \in 1..Len(generated) :
           generated'[i] = IF i = i0 THEN Append(generated[i0], tok) ELSE generated[i]
  BY <1>1, <1>2, <1>7, <1>8, ExceptSeq
<1>10. Seqs' = Seqs
  BY <1>8, <1>9, LenProperties DEF Seqs
<1> QED
  BY <1>1, <1>2, <1>3, <1>4, <1>5, <1>6, <1>8, <1>9, <1>10 DEF S, Seqs

\* Its output has one token per step again; the others keep what they fed.
LEMMA RecordedOutput ==
  ASSUME BatchInv, RecordSlot, NEW i0, i0 = order[j], NEW tok, tok = step_tokens[j]
  PROVE  /\ Fed(i0)' = Append(Fed(i0), tok)
         /\ \A i \in Seqs : i # i0 => Fed(i)' = Fed(i)
         /\ Len(generated[i0]) = steps - 1 /\ Len(generated'[i0]) = steps
         /\ DOMAIN generated'[i0] = 1..steps /\ DOMAIN generated[i0] = 1..(steps - 1)
         /\ \A k \in DOMAIN generated[i0] :
              generated'[i0][k] = generated[i0][k] /\ generated[i0][k] \notin stop_ids
         /\ generated'[i0][steps] = tok
<1> DEFINE g == generated[i0]
           base == Append(token_prompts[i0], LastOf(token_prompts[i0]))
<1>1. /\ j \in DOMAIN order /\ tok \in Token /\ i0 \in Seqs /\ Pending(j)
      /\ steps \in Nat /\ steps >= 1 /\ token_prompts' = token_prompts
      /\ generated'[i0] = Append(g, tok)
      /\ \A i \in Seqs : i # i0 => generated'[i] = generated[i]
  BY Recorded
<1>2. Len(g) = steps - 1 /\ \A k \in DOMAIN g : g[k] \notin stop_ids
  BY <1>1 DEF BatchInv, Slots, SlotOK
<1>3. g \in Seq(Token) /\ DOMAIN g = 1..Len(g) /\ base \in Seq(Token) /\ Len(g) \in Nat
  BY <1>1, SeqFacts, FedType
<1>4. Fed(i0) = base \o g /\ Fed(i0)' = base \o generated'[i0]
  BY <1>1 DEF Fed
<1> HIDE DEF g, base
<1>5. Fed(i0)' = Append(Fed(i0), tok)
  BY <1>1, <1>3, <1>4, JoinAppend
<1>6. /\ Append(g, tok) \in Seq(Token) /\ Len(Append(g, tok)) = Len(g) + 1
      /\ \A k \in 1..Len(g) : Append(g, tok)[k] = g[k]
      /\ Append(g, tok)[Len(g) + 1] = tok
  BY <1>1, <1>3, AppendProperties
<1>7. Len(g) + 1 = steps
  BY <1>1, <1>2
<1>8. DOMAIN Append(g, tok) = 1..steps
  BY <1>6, <1>7, LenProperties
<1>9. \A i \in Seqs : i # i0 => Fed(i)' = Fed(i)
  BY <1>1 DEF Fed
<1> QED
  BY <1>1, <1>2, <1>3, <1>5, <1>6, <1>7, <1>8, <1>9 DEF g

\* Who chose a token does not change; the new one is chosen if it is what the
\* model answers to all that was fed.
LEMMA RecordedChoice ==
  ASSUME BatchInv, RecordSlot, NEW i0, i0 = order[j], NEW tok, tok = step_tokens[j]
  PROVE  /\ \A i \in Seqs : \A k \in DOMAIN generated[i] :
              Own(i, k)' <=> Own(i, k)
         /\ Own(i0, steps)' <=> tok = Greedy(Fed(i0))
<1> DEFINE g == generated[i0]
<1>1. /\ tok \in Token /\ i0 \in Seqs /\ token_prompts' = token_prompts
      /\ generated'[i0] = Append(g, tok) /\ steps' = steps /\ steps \in Nat
      /\ \A i \in Seqs : i # i0 => generated'[i] = generated[i]
  BY Recorded
<1>2. g \in Seq(Token) /\ Len(g) \in Nat /\ DOMAIN g = 1..Len(g)
  BY <1>1, SeqFacts
<1>3. /\ \A k \in DOMAIN g : generated'[i0][k] = g[k]
      /\ generated'[i0][steps] = tok /\ Len(g) = steps - 1
  BY RecordedOutput
<1> HIDE DEF g
<1>4. ASSUME NEW k \in DOMAIN g PROVE Own(i0, k)' <=> Own(i0, k)
  <2>1. k - 1 \in 0..Len(g)
    BY <1>2
  <2>2. SubSeq(Append(g, tok), 1, k - 1) = SubSeq(g, 1, k - 1)
    BY <1>1, <1>2, <2>1, FrontOfAppend
  <2> QED
    BY <1>1, <1>3, <2>2 DEF Own, g
<1>5. ASSUME NEW i \in Seqs, i # i0, NEW k \in DOMAIN generated[i]
      PROVE  Own(i, k)' <=> Own(i, k)
  BY <1>1, <1>5 DEF Own
<1>6. Own(i0, steps)' <=> tok = Greedy(Fed(i0))
  <2>1. Len(g) \in 0..Len(g)
    BY <1>2
  <2>2. SubSeq(Append(g, tok), 1, steps - 1) = g
    BY <1>1, <1>2, <1>3, <2>1, FrontOfAppend, SubSeqFull
  <2> QED
    BY <1>1, <1>3, <2>2 DEF Own, Fed, g
<1> QED
  BY <1>4, <1>5, <1>6 DEF g

\* The outputs stay right up to their last token.
LEMMA WrongOnlyAtEndKept ==
  ASSUME BatchInv, RecordSlot
  PROVE  WrongOnlyAtEnd'
<1>1. PICK i0, tok : i0 = order[j] /\ tok = step_tokens[j]
  OBVIOUS
<1>2. /\ j \in DOMAIN order /\ Pending(j) /\ i0 \in Seqs /\ Seqs' = Seqs /\ steps' = steps
      /\ steps \in Nat /\ \A i \in Seqs : i # i0 => generated'[i] = generated[i]
  BY <1>1, Recorded
<1>3. /\ Len(generated[i0]) = steps - 1 /\ Len(generated'[i0]) = steps
      /\ DOMAIN generated'[i0] = 1..steps /\ DOMAIN generated[i0] = 1..(steps - 1)
      /\ \A k \in DOMAIN generated[i0] : generated[i0][k] \notin stop_ids
      /\ generated'[i0][steps] = tok
  BY <1>1, RecordedOutput
<1>4. /\ \A i \in Seqs : \A k \in DOMAIN generated[i] : Own(i, k)' <=> Own(i, k)
      /\ Own(i0, steps)' <=> tok = Greedy(Fed(i0))
  BY <1>1, RecordedChoice
\* A sequence that ended with a stop token is not i0.
<1>5. ASSUME NEW l \in Seqs, NEW k \in DOMAIN generated[l], generated[l][k] \in stop_ids
      PROVE  l # i0 /\ generated'[l] = generated[l] /\ (Own(l, k)' <=> Own(l, k))
  BY <1>2, <1>3, <1>4, <1>5
<1>6. ASSUME NEW l \in Seqs, NEW k, Len(generated[l]) = k, generated[l][k] \in stop_ids, Own(l, k),
             k \in Nat, k > 0
      PROVE  Len(generated'[l]) = k /\ generated'[l][k] = generated[l][k] /\ Own(l, k)'
  <2>1. k \in DOMAIN generated[l]
    BY <1>6, SeqFacts
  <2> QED
    BY <1>5, <1>6, <2>1
<1> SUFFICES ASSUME NEW i \in Seqs, NEW k \in DOMAIN generated'[i], ~Own(i, k)'
             PROVE  /\ k = Len(generated'[i]) /\ generated'[i][k] \in stop_ids
                    /\ \E l \in Seqs : /\ Len(generated'[l]) = k
                                      /\ generated'[l][k] = generated'[i][k] /\ Own(l, k)'
  BY <1>2 DEF WrongOnlyAtEnd
<1>7. CASE k \in DOMAIN generated[i]
  <2>1. ~Own(i, k)
    BY <1>4, <1>7
  <2>2. PICK l \in Seqs : /\ k = Len(generated[i]) /\ generated[i][k] \in stop_ids
                         /\ Len(generated[l]) = k /\ generated[l][k] = generated[i][k]
                         /\ Own(l, k)
    BY <1>7, <2>1 DEF BatchInv, WrongOnlyAtEnd
  <2>3. k \in Nat /\ k > 0
    <3>1. k \in 1..Len(generated[i]) /\ Len(generated[i]) \in Nat
      BY <1>7, SeqFacts
    <3> QED
      BY <3>1
  <2>4. generated'[i] = generated[i]
    BY <1>5, <1>7, <2>2
  <2> QED
    BY <1>6, <2>2, <2>3, <2>4
<1>8. CASE i = i0 /\ k = steps
  <2>1. steps \in Nat /\ steps > 0
    BY <1>3, <1>8, <1>2
  <2>2. Inherited(tok)
    BY <1>1, <1>2, <1>4, <1>8 DEF BatchInv, Chosen
  <2>3. PICK l \in Seqs : Len(generated[l]) = steps /\ generated[l][steps] = tok /\ Own(l, steps)
    BY <2>2 DEF Inherited
  <2>4. tok \in stop_ids
    BY <2>2 DEF Inherited
  <2> QED
    BY <1>3, <1>6, <1>8, <2>1, <2>3, <2>4
<1>9. k \in DOMAIN generated[i] \/ (i = i0 /\ k = steps)
  <2>1. CASE i = i0
    <3>1. k \in 1..steps => k \in 1..(steps - 1) \/ k = steps
      BY <1>2
    <3> QED
      BY <1>3, <2>1, <3>1
  <2>2. CASE i # i0
    BY <1>2, <2>2
  <2> QED
    BY <2>1, <2>2
<1> QED
  BY <1>7, <1>8, <1>9

-----------------------------------------------------------------------------
(* A turn of the sweep: what it does to the slots.                         *)

\* Another slot keeps its sequence, wherever it is moved, if it stays pending
\* or not.
LEMMA SlotMoved ==
  ASSUME BatchInv, RecordSlot,
         NEW t \in DOMAIN order, t # j, NEW i, i = order[t],
         NEW s, order'[s] = i, states'[s] = states[t], last_tokens'[s] = last_tokens[t],
         histories'[s] = histories[t], Pending(s)' <=> Pending(t)
  PROVE  SlotOK(s)' /\ i \in Seqs /\ i # order[j] /\ Fed(i)' = Fed(i)
<1>1. PICK i0, tok : i0 = order[j] /\ tok = step_tokens[j]
  OBVIOUS
<1>3. /\ j \in DOMAIN order /\ steps' = steps /\ token_prompts' = token_prompts
      /\ \A l \in Seqs : l # i0 => generated'[l] = generated[l]
  BY <1>1, Recorded
<1>4. i \in Seqs /\ i # i0
  BY <1>1, <1>3, SlotFacts DEF BatchInv, Arrays
<1>5. generated'[i] = generated[i] /\ Fed(i)' = Fed(i)
  BY <1>1, <1>3, <1>4, RecordedOutput
<1>6. SlotOK(t)
  BY DEF BatchInv, Slots
<1>7. SlotOK(s)'
  BY <1>3, <1>5, <1>6 DEF SlotOK
<1> QED
  BY <1>1, <1>4, <1>5, <1>7

\* The history the token was pushed on.
LEMMA Pushed ==
  ASSUME BatchInv, RecordSlot, NEW i0, i0 = order[j], NEW tok, tok = step_tokens[j]
  PROVE  LET pushed == [histories EXCEPT ![j] = Append(@, tok)]
         IN /\ pushed \in Seq(Seq(Token)) /\ Len(pushed) = Len(order)
            /\ pushed[j] = token_prompts[i0] \o generated'[i0]
            /\ \A s \in DOMAIN order : s # j => pushed[s] = histories[s]
<1>1. /\ j \in DOMAIN order /\ tok \in Token /\ i0 \in Seqs
      /\ generated'[i0] = Append(generated[i0], tok)
  BY Recorded
<1>2. /\ DOMAIN order = 1..Len(order) /\ histories[j] \in Seq(Token)
      /\ histories \in Seq(Seq(Token)) /\ Len(histories) = Len(order)
  BY <1>1, SlotFacts DEF BatchInv, TypeOK, Arrays
<1>3. Append(histories[j], tok) \in Seq(Token)
  BY <1>1, <1>2, AppendProperties
<1>4. histories[j] = token_prompts[i0] \o generated[i0]
  BY <1>1 DEF BatchInv, Slots, SlotOK
<1>5. Append(histories[j], tok) = token_prompts[i0] \o generated'[i0]
  <2> DEFINE a == token_prompts[i0]
             b == generated[i0]
  <2>1. a \in Seq(Token) /\ b \in Seq(Token)
    BY <1>1, SeqFacts
  <2> HIDE DEF a, b
  <2>2. a \o Append(b, tok) = Append(a \o b, tok)
    BY <1>1, <2>1, JoinAppend
  <2> QED
    BY <1>1, <1>4, <2>2, Zenon DEF a, b
<1> DEFINE x == Append(histories[j], tok)
           S == Seq(Token)
<1>6. histories \in Seq(S) /\ x \in S /\ j \in 1..Len(histories)
  BY <1>1, <1>2, <1>3
<1> HIDE DEF x, S
<1>7. /\ [histories EXCEPT ![j] = x] \in Seq(S)
      /\ Len([histories EXCEPT ![j] = x]) = Len(histories)
      /\ \A s \in 1..Len(histories) :
           [histories EXCEPT ![j] = x][s] = IF s = j THEN x ELSE histories[s]
  BY <1>6, ExceptSeq
<1> QED
  BY <1>1, <1>2, <1>5, <1>6, <1>7 DEF x, S

LEMMA KeepInv ==
  ASSUME BatchInv, RecordSlot, NEW tok, tok = step_tokens[j], ~Stops(tok),
         Keep([histories EXCEPT ![j] = Append(@, tok)], tok)
  PROVE  /\ states' \in Seq(Seq(Token)) /\ last_tokens' \in Seq(Token)
         /\ histories' \in Seq(Seq(Token)) /\ order' \in Seq(Seqs)
         /\ j' \in 1..(Len(states') + 1)
         /\ Len(order') <= Len(order)
         /\ Arrays' /\ Slots' /\ Left' /\ Chosen'
<1>1. PICK i0 : i0 = order[j]
  OBVIOUS
<1> DEFINE pushed == [histories EXCEPT ![j] = Append(@, tok)]
<1>2. /\ histories' = pushed /\ last_tokens' = [last_tokens EXCEPT ![j] = tok] /\ j' = j + 1
      /\ states' = states /\ order' = order
  BY DEF Keep
<1>3. /\ j \in DOMAIN order /\ tok \in Token /\ i0 \in Seqs /\ Pending(j) /\ steps \in Nat
      /\ pc = "record" /\ pc' = "record" /\ steps' = steps /\ token_prompts' = token_prompts
      /\ step_tokens' = step_tokens /\ Seqs' = Seqs
      /\ \A i \in Seqs : i # i0 => generated'[i] = generated[i]
  BY <1>1, Recorded
<1>4. /\ pushed \in Seq(Seq(Token)) /\ Len(pushed) = Len(order)
      /\ pushed[j] = token_prompts[i0] \o generated'[i0]
      /\ \A s \in DOMAIN order : s # j => pushed[s] = histories[s]
  BY <1>1, Pushed
<1> HIDE DEF pushed
<1>5. /\ Len(order) \in Nat /\ DOMAIN order = 1..Len(order) /\ Len(states) = Len(order)
      /\ last_tokens \in Seq(Token) /\ Len(last_tokens) = Len(order)
      /\ states \in Seq(Seq(Token)) /\ order \in Seq(Seqs)
  BY SlotFacts DEF BatchInv, TypeOK, Arrays
<1>6. /\ last_tokens' \in Seq(Token) /\ Len(last_tokens') = Len(order)
      /\ last_tokens'[j] = tok
      /\ \A s \in DOMAIN order : s # j => last_tokens'[s] = last_tokens[s]
  BY <1>2, <1>3, <1>5, ExceptSeq
<1>7. j' \in 1..(Len(states') + 1)
  BY <1>2, <1>3, <1>5
<1>8. Arrays'
  BY <1>2, <1>4, <1>5, <1>6 DEF BatchInv, Arrays
<1>9. ASSUME NEW s \in DOMAIN order PROVE Pending(s)' <=> Pending(s) /\ s # j
  <2>1. s \in Nat /\ j \in Nat
    BY <1>3, SlotFacts
  <2> QED
    BY <1>2, <1>3, <2>1 DEF Pending
<1>10. SlotOK(j)
  BY <1>3 DEF BatchInv, Slots
<1>11. ASSUME NEW s \in DOMAIN order, s = j PROVE SlotOK(s)'
  <2>1. /\ Fed(i0)' = Append(Fed(i0), tok) /\ Len(generated'[i0]) = steps
        /\ DOMAIN generated'[i0] = 1..steps /\ DOMAIN generated[i0] = 1..(steps - 1)
        /\ \A k \in DOMAIN generated[i0] :
             generated'[i0][k] = generated[i0][k] /\ generated[i0][k] \notin stop_ids
        /\ generated'[i0][steps] = tok
    BY <1>1, RecordedOutput
  <2>2. states[j] = Fed(i0) /\ Fed(i0) \in Seq(Token)
    BY <1>1, <1>3, <1>10, SeqFacts DEF SlotOK
  <2>3. LastOf(Fed(i0)') = tok /\ AllButLast(Fed(i0)') = Fed(i0)
    BY <1>3, <2>1, <2>2, LastAndFront
  <2>4. \A k \in DOMAIN generated'[i0] : generated'[i0][k] \notin stop_ids
    <3>1. \A k \in 1..steps : k \in 1..(steps - 1) \/ k = steps
      BY <1>3
    <3> QED
      BY <2>1, <3>1 DEF Stops
  <2>5. order'[s] = i0 /\ ~Pending(s)' /\ histories'[s] = token_prompts'[i0] \o generated'[i0]
        /\ last_tokens'[s] = LastOf(Fed(i0)') /\ states'[s] = AllButLast(Fed(i0)')
    BY <1>1, <1>2, <1>3, <1>4, <1>6, <1>9, <1>11, <2>2, <2>3
  <2> QED
    BY <1>3, <2>1, <2>4, <2>5 DEF SlotOK
<1>12. ASSUME NEW s \in DOMAIN order, s # j
       PROVE  SlotOK(s)' /\ \A i : i = order[s] => Fed(i)' = Fed(i)
  BY <1>1, <1>2, <1>4, <1>6, <1>9, <1>12, SlotMoved
<1>13. Slots'
  BY <1>2, <1>11, <1>12 DEF Slots
<1>14. Left'
  <2> SUFFICES ASSUME NEW i \in Seqs, \A s \in DOMAIN order : order[s] # i PROVE Ended(i)'
    BY <1>2, <1>3 DEF Left
  <2>1. Ended(i) /\ generated'[i] = generated[i]
    BY <1>1, <1>3 DEF BatchInv, Left
  <2> QED
    BY <1>3, <2>1 DEF Ended
<1>15. Chosen'
  <2> SUFFICES ASSUME NEW s \in DOMAIN order, Pending(s)', NEW i, i = order[s]
               PROVE  step_tokens[s] = Greedy(Fed(i)')
    BY <1>2, <1>3 DEF Chosen
  <2>1. s # j /\ Pending(s)
    BY <1>9
  <2> QED
    BY <1>12, <2>1 DEF BatchInv, Chosen
<1> QED
  BY <1>2, <1>4, <1>5, <1>6, <1>7, <1>8, <1>13, <1>14, <1>15

LEMMA RetireInv ==
  ASSUME BatchInv, RecordSlot, NEW tok, tok = step_tokens[j], Stops(tok),
         Retire([histories EXCEPT ![j] = Append(@, tok)])
  PROVE  /\ states' \in Seq(Seq(Token)) /\ last_tokens' \in Seq(Token)
         /\ histories' \in Seq(Seq(Token)) /\ order' \in Seq(Seqs)
         /\ j' \in 1..(Len(states') + 1)
         /\ Len(order') <= Len(order)
         /\ Arrays' /\ Slots' /\ Left' /\ Chosen'
<1>1. PICK i0 : i0 = order[j]
  OBVIOUS
<1> DEFINE pushed == [histories EXCEPT ![j] = Append(@, tok)]
           n == Len(order)
           S == Seq(Token)
<1>2. /\ states' = SwapRemove(states, j) /\ last_tokens' = SwapRemove(last_tokens, j)
      /\ histories' = SwapRemove(pushed, j) /\ order' = SwapRemove(order, j) /\ j' = j
  BY DEF Retire
<1>3. /\ j \in DOMAIN order /\ tok \in Token /\ i0 \in Seqs /\ Pending(j) /\ steps \in Nat
      /\ steps >= 1
      /\ pc = "record" /\ pc' = "record" /\ steps' = steps /\ token_prompts' = token_prompts
      /\ step_tokens' = step_tokens /\ Seqs' = Seqs
      /\ \A i \in Seqs : i # i0 => generated'[i] = generated[i]
  BY <1>1, Recorded
<1>4. /\ pushed \in Seq(S) /\ Len(pushed) = n
      /\ \A s \in DOMAIN order : s # j => pushed[s] = histories[s]
  BY <1>1, Pushed
<1>5. /\ n \in Nat /\ DOMAIN order = 1..n /\ Len(states) = n
      /\ last_tokens \in Seq(Token) /\ Len(last_tokens) = n
      /\ states \in Seq(S) /\ order \in Seq(Seqs) /\ Len(order) = n /\ j \in 1..n /\ j \in Nat
  BY <1>3, SlotFacts DEF BatchInv, TypeOK, Arrays
<1> HIDE DEF pushed, n, S
<1>a. ASSUME NEW T, NEW a \in Seq(T), Len(a) = n
      PROVE  /\ SwapRemove(a, j) \in Seq(T) /\ Len(SwapRemove(a, j)) = n - 1
             /\ \A k \in 1..(n - 1) : SwapRemove(a, j)[k] = IF k = j THEN a[n] ELSE a[k]
  <2>1. j \in 1..Len(a)
    BY <1>5, <1>a
  <2> QED
    BY <1>a, <2>1, SwapRemoved
<1>6. /\ states' \in Seq(S) /\ Len(states') = n - 1
      /\ \A k \in 1..(n - 1) : states'[k] = IF k = j THEN states[n] ELSE states[k]
  BY <1>2, <1>5, <1>a
<1>7. /\ last_tokens' \in Seq(Token) /\ Len(last_tokens') = n - 1
      /\ \A k \in 1..(n - 1) :
           last_tokens'[k] = IF k = j THEN last_tokens[n] ELSE last_tokens[k]
  BY <1>2, <1>5, <1>a
<1>8. /\ histories' \in Seq(S) /\ Len(histories') = n - 1
      /\ \A k \in 1..(n - 1) : histories'[k] = IF k = j THEN pushed[n] ELSE pushed[k]
  BY <1>2, <1>4, <1>5, <1>a
<1>9. /\ order' \in Seq(Seqs) /\ Len(order') = n - 1
      /\ \A k \in 1..(n - 1) : order'[k] = IF k = j THEN order[n] ELSE order[k]
  BY <1>2, <1>5, <1>a
<1>10. DOMAIN order' = 1..(n - 1)
  BY <1>9, LenProperties
<1>11. j' \in 1..(Len(states') + 1)
  BY <1>2, <1>5, <1>6
\* Every slot that is left held another sequence before.
<1> DEFINE from(s) == IF s = j THEN n ELSE s
<1>12. ASSUME NEW s \in 1..(n - 1)
       PROVE  /\ from(s) \in DOMAIN order /\ from(s) # j /\ order'[s] = order[from(s)]
              /\ states'[s] = states[from(s)] /\ last_tokens'[s] = last_tokens[from(s)]
              /\ histories'[s] = histories[from(s)] /\ (Pending(s)' <=> Pending(from(s)))
  <2>1. from(s) \in 1..n /\ from(s) # j /\ (s >= j <=> from(s) >= j)
    BY <1>5
  <2>2. histories'[s] = pushed[from(s)] /\ pushed[from(s)] = histories[from(s)]
    BY <1>4, <1>5, <1>8, <2>1
  <2> QED
    BY <1>2, <1>3, <1>5, <1>6, <1>7, <1>9, <2>1, <2>2 DEF Pending
<1>13. ASSUME NEW t \in DOMAIN order, t # j
       PROVE  \E s \in 1..(n - 1) : order'[s] = order[t]
  <2>1. t \in 1..n
    BY <1>5
  <2>2. CASE t = n
    BY <1>5, <1>9, <1>13, <2>1, <2>2
  <2>3. CASE t # n
    BY <1>5, <1>9, <1>13, <2>1, <2>3
  <2> QED
    BY <2>2, <2>3
<1>14. Arrays'
  <2> SUFFICES ASSUME NEW s \in 1..(n - 1), NEW t \in 1..(n - 1), order'[s] = order'[t]
               PROVE  s = t
    BY <1>6, <1>7, <1>8, <1>9, <1>10 DEF Arrays
  <2>1. from(s) = from(t)
    BY <1>12 DEF BatchInv, Arrays
  <2> QED
    BY <1>5, <2>1
<1>15. ASSUME NEW s \in 1..(n - 1), NEW i, i = order[from(s)]
       PROVE  SlotOK(s)' /\ Fed(i)' = Fed(i)
  <2>1. PICK t \in DOMAIN order : t = from(s)
    BY <1>12
  <2>2. /\ t # j /\ i = order[t] /\ order'[s] = i
        /\ states'[s] = states[t] /\ last_tokens'[s] = last_tokens[t]
        /\ histories'[s] = histories[t] /\ (Pending(s)' <=> Pending(t))
    BY <1>12, <1>15, <2>1
  <2> QED
    BY <2>2, SlotMoved
<1>16. Slots'
  BY <1>10, <1>15 DEF Slots
<1>17. /\ Len(generated'[i0]) = steps /\ DOMAIN generated'[i0] = 1..steps
       /\ DOMAIN generated[i0] = 1..(steps - 1) /\ Len(generated[i0]) = steps - 1
       /\ \A k \in DOMAIN generated[i0] :
            generated'[i0][k] = generated[i0][k] /\ generated[i0][k] \notin stop_ids
       /\ generated'[i0][steps] = tok
  BY <1>1, RecordedOutput
<1>18. Left'
  <2> SUFFICES ASSUME NEW i \in Seqs, \A s \in 1..(n - 1) : order'[s] # i PROVE Ended(i)'
    BY <1>3, <1>10 DEF Left
  <2>1. CASE i = i0
    <3>1. \A k \in 1..steps : k \in 1..(steps - 1) \/ k = steps
      BY <1>3
    <3>2. \A k \in 1..(steps - 1) : k # steps
      BY <1>3
    <3>3. \A k \in DOMAIN generated'[i0] : generated'[i0][k] \in stop_ids <=> k = steps
      BY <1>17, <3>1, <3>2 DEF Stops
    <3>4. steps \in 1..steps
      BY <1>3
    <3> QED
      BY <1>3, <1>17, <2>1, <3>3, <3>4 DEF Ended
  <2>2. CASE i # i0
    <3>1. \A t \in DOMAIN order : order[t] # i
      BY <1>1, <1>13, <2>2
    <3>2. Ended(i) /\ generated'[i] = generated[i]
      BY <1>3, <2>2, <3>1 DEF BatchInv, Left
    <3> QED
      BY <1>3, <3>2 DEF Ended
  <2> QED
    BY <2>1, <2>2
\* The slot that is filled is given what the retired one was.
<1>19. Inherited(tok)'
  <2>1. /\ \A i \in Seqs : \A k \in DOMAIN generated[i] : Own(i, k)' <=> Own(i, k)
        /\ Own(i0, steps)' <=> tok = Greedy(Fed(i0))
    BY <1>1, RecordedChoice
  <2>2. CASE tok = Greedy(Fed(i0))
    BY <1>3, <1>17, <2>1, <2>2 DEF Inherited, Stops
  <2>3. CASE tok # Greedy(Fed(i0))
    <3>1. Inherited(tok)
      BY <1>1, <1>3, <2>3 DEF BatchInv, Chosen
    <3>2. PICK l \in Seqs : Len(generated[l]) = steps /\ generated[l][steps] = tok
                           /\ Own(l, steps)
      BY <3>1 DEF Inherited
    <3>3. l # i0 /\ steps \in DOMAIN generated[l]
      <4>1. steps # steps - 1 /\ steps \in 1..steps
        BY <1>3
      <4> QED
        BY <1>17, <3>2, <4>1, SeqFacts
    <3>4. generated'[l] = generated[l] /\ Own(l, steps)'
      BY <1>3, <2>1, <3>2, <3>3
    <3> QED
      BY <1>3, <3>2, <3>4 DEF Inherited, Stops
  <2> QED
    BY <2>2, <2>3
<1>20. Chosen'
  <2> SUFFICES ASSUME NEW s \in 1..(n - 1), Pending(s)', NEW i, i = order[from(s)]
               PROVE  step_tokens[s] = Greedy(Fed(i)') \/ (s = j /\ Inherited(step_tokens[s])')
    BY <1>2, <1>3, <1>10, <1>12 DEF Chosen
  <2>1. CASE s = j
    BY <1>3, <1>19, <2>1
  <2>2. CASE s # j
    <3>1. from(s) = s /\ Pending(s) /\ s \in DOMAIN order
      BY <1>12, <2>2
    <3> QED
      BY <1>15, <2>2, <3>1 DEF BatchInv, Chosen
  <2> QED
    BY <2>1, <2>2
<1>21. Len(order') <= Len(order)
  BY <1>5, <1>9 DEF n
<1> QED
  BY <1>6, <1>7, <1>8, <1>9, <1>11, <1>14, <1>16, <1>18, <1>20, <1>21 DEF S

LEMMA RecordSlotInv ==
  ASSUME BatchInv, RecordSlot
  PROVE  BatchInv'
<1>1. PICK i0, tok : i0 = order[j] /\ tok = step_tokens[j]
  OBVIOUS
<1>2. /\ pc = "record" /\ steps \in Nat /\ steps >= 1
      /\ UNCHANGED <<pc, n_predict, prompts, token_prompts, steps, step_tokens>>
      /\ generated' \in Seq(Seq(Token)) /\ Len(generated') = Len(generated) /\ Seqs' = Seqs
  BY <1>1, Recorded
<1>3. /\ states' \in Seq(Seq(Token)) /\ last_tokens' \in Seq(Token)
      /\ histories' \in Seq(Seq(Token)) /\ order' \in Seq(Seqs)
      /\ j' \in 1..(Len(states') + 1) /\ Len(order') <= Len(order)
      /\ Arrays' /\ Slots' /\ Left' /\ Chosen'
  <2>1. CASE Stops(tok)
    BY <1>1, <2>1, RetireInv DEF RecordSlot
  <2>2. CASE ~Stops(tok)
    BY <1>1, <2>2, KeepInv DEF RecordSlot
  <2> QED
    BY <2>1, <2>2
<1>4. WrongOnlyAtEnd'
  BY WrongOnlyAtEndKept
<1>5. Prompts' /\ Before'
  BY <1>2 DEF BatchInv, Prompts, Before, Fits
<1>6. Sweeping'
  <2>1. Len(order) \in Nat /\ Len(order') \in Nat /\ Len(step_tokens) \in Nat
    BY <1>3, SlotFacts, LenProperties DEF BatchInv, TypeOK
  <2> QED
    BY <1>2, <1>3, <2>1 DEF BatchInv, Sweeping
\* A slot of before, kept or moved, whose state does not change.
<1>7. ASSUME NEW s \in DOMAIN states'
      PROVE  Len(states'[s]) <= NCtx
  <2>1. \A k \in DOMAIN states : Len(states[k]) <= NCtx
    BY DEF BatchInv, TypeOK
  <2>2. CASE states' = states
    BY <2>1, <2>2
  <2>3. CASE states' = SwapRemove(states, j)
    <3>1. /\ states \in Seq(Seq(Token)) /\ j \in 1..Len(states) /\ Len(states) \in Nat
          /\ DOMAIN states = 1..Len(states)
      BY <1>1, Recorded, SlotFacts DEF BatchInv, TypeOK
    <3>2. /\ Len(states') = Len(states) - 1
          /\ \A k \in 1..(Len(states) - 1) :
               states'[k] = IF k = j THEN states[Len(states)] ELSE states[k]
      BY <2>3, <3>1, SwapRemoved
    <3>3. s \in 1..(Len(states) - 1)
      BY <1>3, <3>2, LenProperties
    <3>4. s \in DOMAIN states /\ Len(states) \in DOMAIN states
      BY <3>1, <3>3
    <3> QED
      BY <2>1, <3>2, <3>3, <3>4
  <2> QED
    BY <2>2, <2>3 DEF RecordSlot, Retire, Keep
<1>8. TypeOK'
  BY <1>2, <1>3, <1>7 DEF BatchInv, TypeOK
<1> QED
  BY <1>3, <1>4, <1>5, <1>6, <1>8 DEF BatchInv

\* The sweep ends or the loop does: nothing is pending before or after.
LEMMA NothingPendingInv ==
  ASSUME BatchInv, EndSweep \/ Finish
  PROVE  BatchInv'
<1>1. /\ pc \in {"record", "decode"} /\ pc' \in {"decode", "done"}
      /\ UNCHANGED <<n_predict, prompts, token_prompts, generated, states, last_tokens,
                     histories, order, steps, step_tokens, j>>
  BY DEF EndSweep, Finish, slots
<1>2. ASSUME NEW s \in DOMAIN order PROVE ~Pending(s) /\ ~Pending(s)'
  <2>1. s \in 1..Len(states) /\ Len(states) \in Nat /\ j \in Nat
    BY SlotFacts DEF BatchInv, TypeOK
  <2> QED
    BY <1>1, <2>1 DEF Pending, EndSweep, Finish
<1>3. TypeOK'
  BY <1>1 DEF BatchInv, TypeOK, Seqs, EndSweep
<1>4. Prompts' /\ Before' /\ Arrays' /\ Sweeping'
  BY <1>1 DEF BatchInv, Prompts, Before, Arrays, Sweeping, Fits
<1>5. Slots'
  <2> SUFFICES ASSUME NEW s \in DOMAIN order PROVE SlotOK(s)'
    BY <1>1 DEF Slots
  <2>1. SlotOK(s)
    BY DEF BatchInv, Slots
  <2>2. Fed(order[s])' = Fed(order[s])
    BY <1>1 DEF Fed
  <2> QED
    BY <1>1, <1>2, <2>1, <2>2 DEF SlotOK
<1>6. Chosen'
  BY <1>1, <1>2 DEF Chosen
<1>7. Left' /\ WrongOnlyAtEnd'
  <2>1. steps \in Nat
    BY NPredictAssumption DEF BatchInv, TypeOK
  <2> QED
    BY <1>1, <2>1, OutputsKept
<1> QED
  BY <1>3, <1>4, <1>5, <1>6, <1>7 DEF BatchInv

LEMMA BatchStutter ==
  ASSUME BatchInv, UNCHANGED vars
  PROVE  BatchInv'
<1>1. UNCHANGED <<pc, n_predict, prompts, token_prompts, generated, states, last_tokens,
                  histories, order, steps, step_tokens, j>>
  BY DEF vars, slots
<1>2. TypeOK' /\ Prompts' /\ Before' /\ Arrays' /\ Sweeping'
  BY <1>1 DEF BatchInv, TypeOK, Prompts, Before, Arrays, Sweeping, Seqs, Fits
<1>3. ASSUME NEW s \in DOMAIN order
      PROVE  Fed(order[s])' = Fed(order[s]) /\ (Pending(s)' <=> Pending(s))
  BY <1>1 DEF Fed, Pending
<1>4. Slots'
  BY <1>1, <1>3 DEF BatchInv, Slots, SlotOK
<1>5. \A tok : Inherited(tok) => Inherited(tok)'
  BY <1>1 DEF Inherited, Own, Seqs
<1>6. Chosen'
  BY <1>1, <1>3, <1>5 DEF BatchInv, Chosen
<1>7. Left' /\ WrongOnlyAtEnd'
  <2>1. steps \in Nat
    BY NPredictAssumption DEF BatchInv, TypeOK
  <2> QED
    BY <1>1, <2>1, OutputsKept
<1> QED
  BY <1>2, <1>4, <1>6, <1>7 DEF BatchInv

-----------------------------------------------------------------------------
(* The theorems.                                                           *)

\* BatchInv is an invariant of run_batch.
THEOREM BatchInvariant == Spec => []BatchInv
<1>1. ASSUME BatchInv, [Next]_vars PROVE BatchInv'
  <2>1. CASE \E file \in Files, n \in NPredict : Start(file, n)
    BY <1>1, <2>1, StartInv
  <2>2. CASE EncodePrompt
    BY <1>1, <2>2, EncodePromptInv
  <2>3. CASE Prefill
    BY <1>1, <2>3, PrefillInv
  <2>4. CASE DecodeStep
    BY <1>1, <2>4, DecodeStepInv
  <2>5. CASE RecordSlot
    BY <1>1, <2>5, RecordSlotInv
  <2>6. CASE EndSweep \/ Finish
    BY <1>1, <2>6, NothingPendingInv
  <2>7. CASE UNCHANGED vars
    BY <1>1, <2>7, BatchStutter
  <2> QED
    BY <1>1, <2>1, <2>2, <2>3, <2>4, <2>5, <2>6, <2>7 DEF Next
<1> QED
  BY <1>1, BatchInitInv, PTL DEF Spec

\* The arrays of run_batch keep their types, and no sequence of the batch
\* outgrows the context.
THEOREM BatchTypeCorrect == Spec => []TypeOK
<1>1. BatchInv => TypeOK
  BY DEF BatchInv
<1> QED
  BY <1>1, BatchInvariant, PTL

\* Whatever was swap_removed, each slot of run_batch is that of the sequence
\* order names, in all four arrays.
THEOREM SlotArraysAgree == Spec => []SlotsAgree
<1>1. BatchInv => SlotsAgree
  BY DEF BatchInv, SlotsAgree, Arrays, Slots, SlotOK, Pending
<1> QED
  BY <1>1, BatchInvariant, PTL

\* A sequence of run_batch decodes until its first stop token, and no further.
THEOREM LeavesAtStop == Spec => []LeftAtStop
<1>1. ASSUME BatchInv, pc \in {"decode", "done"}, NEW i \in Seqs
      PROVE  IF \E s \in DOMAIN order : order[s] = i
             THEN Len(generated[i]) = steps /\ \A k \in 1..steps : generated[i][k] \notin stop_ids
             ELSE Ended(i)
  <2>1. CASE \E s \in DOMAIN order : order[s] = i
    <3>1. PICK s \in DOMAIN order : order[s] = i
      BY <2>1
    <3>2. Len(generated[i]) = steps /\ \A k \in DOMAIN generated[i] : generated[i][k] \notin stop_ids
      BY <1>1, <3>1 DEF BatchInv, Slots, SlotOK, Pending
    <3> QED
      BY <1>1, <2>1, <3>2, SeqFacts
  <2>2. CASE ~\E s \in DOMAIN order : order[s] = i
    BY <1>1, <2>2 DEF BatchInv, Left
  <2> QED
    BY <2>1, <2>2
<1>2. BatchInv => LeftAtStop
  BY <1>1 DEF LeftAtStop, Ended
<1> QED
  BY <1>2, BatchInvariant, PTL

\* The stop token that a swapped-in sequence of run_batch is given is the only
\* one of its output that may not be its own.
THEOREM WrongAtMostAtEnd == Spec => []WrongOnlyAtEnd
<1>1. BatchInv => WrongOnlyAtEnd
  BY DEF BatchInv
<1> QED
  BY <1>1, BatchInvariant, PTL
=============================================================================
