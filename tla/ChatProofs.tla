----------------------------- MODULE ChatProofs -----------------------------
(***************************************************************************)
(* Proofs about the chat loop: the invariants of Chat, for every context   *)
(* length, every tokens and texts and conversations of any length.         *)
(***************************************************************************)
EXTENDS Chat, SeqLemmas, TLAPS

-----------------------------------------------------------------------------
(* The inductive invariant.                                                *)

\* The tokens and characters of a conversation and its prompts.
Sym == Token \cup Char \cup {FFFD, "char", "hi", "lo", "system", "user", "assistant",
                             "<think>", "</think>", "<|im_end|>"}

Msg == [role : {"system", "user", "assistant"}, content : Seq(Sym)]

\* A message as a prompt shows it that ends with a question, and the prompt.
Shown(m) ==
  <<m.role>> \o (IF m.role # "assistant" THEN m.content ELSE Body(m.content))
             \o <<"<|im_end|>">>

ShownAll(ms) == [i \in DOMAIN ms |-> Shown(ms[i])]

Ending(thinking) ==
  <<"assistant", "<think>">> \o (IF thinking THEN <<>> ELSE <<"</think>">>)

PromptOf(ms, thinking) == Encode(FlattenSeq(ShownAll(ms)) \o Ending(thinking))

\* The conversation without the n oldest messages behind the system message,
\* up to the k-th that was said.
Rest(sys, ms, n, k) == sys \o SubSeq(ms, Len(sys) + n + 1, k)

\* n messages are lost, each because what was kept with it left no room.
Lost(sys, ms, n, o) ==
  n > 0 => \E k \in (Len(sys) + n + 1)..Len(ms) :
             /\ ms[k].role = "user"
             /\ Len(PromptOf(Rest(sys, ms, n - 1, k), o.enable_thinking)) + o.n_predict > max_ctx

\* What remains of all that was said, m, is ms.
Remains(sys, ms, m, o) ==
  \E n \in 0..(Len(m) - Len(sys)) : ms = Rest(sys, m, n, Len(m)) /\ Lost(sys, m, n, o)

Asked(sys, m) == Len(m) > Len(sys) /\ m[Len(m)].role = "user"

Types ==
  /\ pc \in {"start", "read", "truncate", "prefill", "decode", "answer", "done",
            "unread", "error"}
  /\ opts \in [chat_mode : BOOLEAN, system : SystemPrompts,
               enable_thinking : BOOLEAN, n_predict : NPredict]
  /\ history \in Seq(Msg) /\ msgs \in Seq(Msg) /\ said \in Seq(Msg)
  /\ tokens \in Seq(Sym) /\ gen \in Seq(Token) /\ printed \in Seq(Sym)

Modes ==
  /\ \A i \in DOMAIN msgs : msgs[i].role = "system" => i = 1
  /\ pc \in {"read", "truncate"} => opts.chat_mode
  /\ pc = "start" \/ ~opts.chat_mode => history = <<>> /\ said = <<>>

Fresh == pc \in {"start", "read", "truncate", "prefill"} => gen = <<>> /\ printed = <<>>

Roles ==
  opts.chat_mode /\ pc # "start" =>
    /\ Len(said) >= Len(System)
    /\ \A i \in DOMAIN said : i > Len(System) => said[i].role # "system"

Kept ==
  opts.chat_mode /\ pc \in {"read", "prefill", "decode", "answer", "done", "unread", "error"} =>
    Remains(System, history, said, opts)

Truncating ==
  pc = "truncate" =>
    /\ Remains(System, msgs, said, opts) /\ Len(msgs) > Len(System)
    /\ Asked(System, said)

Turn ==
  opts.chat_mode /\ pc \in {"prefill", "decode", "answer"} =>
    /\ Asked(System, said)
    /\ Len(history) > Len(System)
    /\ tokens = PromptOf(history, opts.enable_thinking)
    /\ HasRoom(tokens) \/ Len(history) = Len(System) + 1

Failed ==
  pc = "error" =>
    /\ ~HasRoom(tokens)
    /\ opts.chat_mode => history = Append(System, Last(said))

Answer ==
  /\ Len(gen) <= opts.n_predict
  /\ \A i \in DOMAIN gen : gen[i] \in stop_ids => i = Len(gen)
  /\ pc = "decode" => /\ Len(tokens) + Len(gen) <= max_ctx
                      /\ \A i \in DOMAIN gen : gen[i] \notin stop_ids

Printed == printed = SubSeq(Decode(gen), 1, Available(Decode(gen)))

ChatInv ==
  /\ Types /\ Modes /\ Fresh /\ Roles /\ Kept /\ Truncating /\ Turn /\ Failed /\ Answer /\ Printed

-----------------------------------------------------------------------------
(* The tokenizer: what decoding one more token changes.                    *)

\* The function that Text is defined by exists.
LEMMA TextDefined ==
  ASSUME NEW ids
  PROVE  \A k \in Nat :
           \E f : f = [n \in 0..k |-> IF n = 0 THEN <<>> ELSE Bytes(f[n-1], ids[n])]
<1> DEFINE P(k) == \E f : f = [n \in 0..k |-> IF n = 0 THEN <<>> ELSE Bytes(f[n-1], ids[n])]
           G == {k \in Nat : P(k)}
<1>1. P(0)
  <2> DEFINE f == [n \in 0..0 |-> <<>>]
  <2>1. f = [n \in 0..0 |-> IF n = 0 THEN <<>> ELSE Bytes(f[n-1], ids[n])]
    OBVIOUS
  <2> QED
    BY <2>1
<1>2. ASSUME NEW k \in Nat, P(k)
      PROVE  P(k + 1)
  <2>1. PICK f : f = [n \in 0..k |-> IF n = 0 THEN <<>> ELSE Bytes(f[n-1], ids[n])]
    BY <1>2
  <2> DEFINE e(n) == IF n = 0 THEN <<>> ELSE Bytes(f[n-1], ids[n])
             g == [n \in 0..(k+1) |-> e(n)]
  <2>2. ASSUME NEW n \in 0..(k+1), n # 0
        PROVE  g[n-1] = f[n-1]
    <3>1. n - 1 \in 0..k /\ n - 1 \in 0..(k+1)
      BY <2>2
    <3>2. f[n-1] = e(n-1)
      BY <2>1, <3>1
    <3>3. g[n-1] = e(n-1)
      BY <3>1
    <3> QED
      BY <3>2, <3>3
  <2> DEFINE h == [n \in 0..(k+1) |-> IF n = 0 THEN <<>> ELSE Bytes(g[n-1], ids[n])]
  <2>3. \A n \in 0..(k+1) : g[n] = h[n]
    BY <2>2
  <2>4. g = h
    BY <2>3
  <2> QED
    BY <2>4
<1>3. 0 \in G /\ \A k \in Nat : k \in G => k + 1 \in G
  <2> HIDE DEF P
  <2> QED
    BY <1>1, <1>2
<1>4. Nat \subseteq G
  <2> HIDE DEF G
  <2> QED
    BY <1>3, NatBySteps
<1> QED
  BY <1>4

LEMMA TextUnfolds ==
  ASSUME NEW ids, Len(ids) \in Nat
  PROVE  \E f : /\ \A n \in 0..Len(ids) : f[n] = IF n = 0 THEN <<>> ELSE Bytes(f[n-1], ids[n])
                /\ Text(ids) = f[Len(ids)]
<1> DEFINE f == CHOOSE f : f = [n \in 0..Len(ids) |->
                                  IF n = 0 THEN <<>> ELSE Bytes(f[n-1], ids[n])]
<1>1. f = [n \in 0..Len(ids) |-> IF n = 0 THEN <<>> ELSE Bytes(f[n-1], ids[n])]
  BY TextDefined
<1>2. Text(ids) = f[Len(ids)]
  BY DEF Text
<1> HIDE DEF f
<1>3. \A n \in 0..Len(ids) : f[n] = IF n = 0 THEN <<>> ELSE Bytes(f[n-1], ids[n])
  BY <1>1
<1> QED
  BY <1>2, <1>3

LEMMA TextEmpty == Text(<<>>) = <<>>
<1>1. Len(<<>>) = 0
  BY EmptySeq
<1>2. PICK f : /\ \A n \in 0..Len(<<>>) : f[n] = IF n = 0 THEN <<>> ELSE Bytes(f[n-1], <<>>[n])
               /\ Text(<<>>) = f[Len(<<>>)]
  BY <1>1, TextUnfolds
<1>3. f[0] = <<>>
  BY <1>1, <1>2
<1> QED
  BY <1>1, <1>2, <1>3

\* One more token adds its bytes to the text of the others.
LEMMA TextAppend ==
  ASSUME NEW S, NEW ids \in Seq(S), NEW t \in S
  PROVE  Text(Append(ids, t)) = Bytes(Text(ids), t)
<1> DEFINE k == Len(ids)
           more == Append(ids, t)
<1>1. /\ k \in Nat /\ Len(more) = k + 1 /\ more[k + 1] = t
      /\ \A n \in 1..k : more[n] = ids[n]
  BY LenProperties, AppendProperties
<1> HIDE DEF k, more
<1>2. PICK f : /\ \A n \in 0..k : f[n] = IF n = 0 THEN <<>> ELSE Bytes(f[n-1], ids[n])
               /\ Text(ids) = f[k]
  BY <1>1, TextUnfolds DEF k
<1>3. PICK g : /\ \A n \in 0..(k+1) : g[n] = IF n = 0 THEN <<>> ELSE Bytes(g[n-1], more[n])
               /\ Text(more) = g[k + 1]
  <2>1. Len(more) \in Nat
    BY <1>1
  <2>2. PICK g : /\ \A n \in 0..Len(more) :
                        g[n] = IF n = 0 THEN <<>> ELSE Bytes(g[n-1], more[n])
                 /\ Text(more) = g[Len(more)]
    BY <2>1, TextUnfolds
  <2>3. Len(more) = k + 1
    BY <1>1
  <2> QED
    BY <2>2, <2>3, Zenon
<1> DEFINE G == {n \in Nat : n \in 0..k => g[n] = f[n]}
<1>4. 0 \in G
  BY <1>1, <1>2, <1>3
<1>5. ASSUME NEW n \in Nat, n \in G
      PROVE  n + 1 \in G
  <2>1. SUFFICES ASSUME n + 1 \in 0..k
                 PROVE  g[n + 1] = f[n + 1]
    OBVIOUS
  <2>2. /\ n + 1 \in 0..(k + 1) /\ more[n + 1] = ids[n + 1]
        /\ (n + 1) - 1 = n /\ n + 1 # 0 /\ n \in 0..k
    BY <1>1, <2>1
  <2>3. f[n + 1] = Bytes(f[n], ids[n + 1]) /\ g[n + 1] = Bytes(g[n], more[n + 1])
    BY <1>2, <1>3, <2>1, <2>2
  <2>4. g[n] = f[n]
    BY <1>5, <2>2
  <2> QED
    BY <2>2, <2>3, <2>4
<1>6. Nat \subseteq G
  <2> HIDE DEF G
  <2> QED
    BY <1>4, <1>5, NatBySteps
<1>7. g[k] = f[k]
  <2>1. k \in G /\ k \in 0..k
    BY <1>1, <1>6
  <2> QED
    BY <2>1
<1>8. g[k + 1] = Bytes(g[k], more[k + 1])
  <2>1. k + 1 \in 0..(k + 1) /\ (k + 1) - 1 = k /\ k + 1 # 0
    BY <1>1
  <2> QED
    BY <1>3, <2>1
<1> QED
  BY <1>1, <1>2, <1>3, <1>7, <1>8 DEF more

\* A token more lengthens a text by itself, completes its last character, or,
\* if it ends the answer, leaves it alone.
LEMMA BytesStep ==
  ASSUME NEW text \in Seq(Sym), NEW id \in Sym
  PROVE  /\ Bytes(text, id) \in Seq(Sym)
         /\ \/ Bytes(text, id) = text
            \/ /\ Len(text) > 0 /\ text[Len(text)] = "hi"
               /\ Len(Bytes(text, id)) = Len(text)
               /\ Bytes(text, id)[Len(text)] = "char"
               /\ \A i \in 1..(Len(text) - 1) : Bytes(text, id)[i] = text[i]
            \/ /\ Len(Bytes(text, id)) = Len(text) + 1
               /\ \A i \in 1..Len(text) : Bytes(text, id)[i] = text[i]
<1>1. Len(text) \in Nat
  BY LenProperties
<1>2. CASE id \in stop_ids
  BY <1>2 DEF Bytes
<1>3. CASE id \notin stop_ids /\ id = "lo" /\ text # <<>> /\ Last(text) = "hi"
  <2>1. Bytes(text, id) = Append(SubSeq(text, 1, Len(text) - 1), "char")
    BY <1>3 DEF Bytes, Front
  <2>2. Len(text) > 0 /\ text[Len(text)] = "hi"
    BY <1>1, <1>3, EmptySeq DEF Last
  <2> DEFINE u == SubSeq(text, 1, Len(text) - 1)
  <2>3. /\ u \in Seq(Sym) /\ Len(u) = Len(text) - 1
        /\ \A i \in 1..(Len(text) - 1) : u[i] = text[i]
    <3>1. Len(text) - 1 \in 0..Len(text)
      BY <1>1, <2>2
    <3> QED
      BY <3>1, FrontPiece
  <2>4. "char" \in Sym
    BY DEF Sym
  <2> HIDE DEF u
  <2>5. /\ Append(u, "char") \in Seq(Sym) /\ Len(Append(u, "char")) = Len(u) + 1
        /\ \A i \in 1..Len(u) : Append(u, "char")[i] = u[i]
        /\ Append(u, "char")[Len(u) + 1] = "char"
    BY <2>3, <2>4, AppendProperties
  <2>6. Bytes(text, id) = Append(u, "char")
    BY <2>1 DEF u
  <2>7. Len(u) + 1 = Len(text)
    BY <1>1, <2>3
  <2> QED
    BY <2>2, <2>3, <2>5, <2>6, <2>7
<1>4. CASE id \notin stop_ids /\ ~(id = "lo" /\ text # <<>> /\ Last(text) = "hi")
  <2>1. Bytes(text, id) = Append(text, id)
    BY <1>4 DEF Bytes
  <2> QED
    BY <2>1, AppendProperties
<1> QED
  BY <1>2, <1>3, <1>4

\* A decoded text is one of characters and tokens.
LEMMA TextType ==
  ASSUME NEW ids \in Seq(Token)
  PROVE  Text(ids) \in Seq(Sym)
<1>1. Len(ids) \in Nat /\ Token \subseteq Sym
  BY LenProperties DEF Sym
<1>2. PICK f : /\ \A n \in 0..Len(ids) : f[n] = IF n = 0 THEN <<>> ELSE Bytes(f[n-1], ids[n])
               /\ Text(ids) = f[Len(ids)]
  BY <1>1, TextUnfolds
<1> DEFINE G == {n \in Nat : n \in 0..Len(ids) => f[n] \in Seq(Sym)}
<1>3. 0 \in G
  BY <1>1, <1>2, EmptySeq
<1>4. ASSUME NEW n \in Nat, n \in G
      PROVE  n + 1 \in G
  <2>1. SUFFICES ASSUME n + 1 \in 0..Len(ids)
                 PROVE  f[n + 1] \in Seq(Sym)
    OBVIOUS
  <2>2. n \in 0..Len(ids) /\ n + 1 \in 1..Len(ids) /\ (n + 1) - 1 = n /\ n + 1 # 0
    BY <1>1, <2>1
  <2>3. f[n + 1] = Bytes(f[n], ids[n + 1])
    BY <1>2, <2>1, <2>2
  <2>4. f[n] \in Seq(Sym) /\ ids[n + 1] \in Sym
    BY <1>1, <1>4, <2>2, ElementOfSeq
  <2>5. Bytes(f[n], ids[n + 1]) \in Seq(Sym)
    BY <2>4, BytesStep
  <2> QED
    BY <2>3, <2>5
<1>5. Nat \subseteq G
  <2> HIDE DEF G
  <2> QED
    BY <1>3, <1>4, NatBySteps
<1>6. Len(ids) \in G /\ Len(ids) \in 0..Len(ids)
  BY <1>1, <1>5
<1> QED
  BY <1>2, <1>6

\* What Decode makes of a text.
Marked(text) == [i \in DOMAIN text |-> IF text[i] \in {"hi", "lo"} THEN FFFD ELSE text[i]]

LEMMA MarkedProperties ==
  ASSUME NEW text \in Seq(Sym)
  PROVE  /\ Marked(text) \in Seq(Sym) /\ Len(Marked(text)) = Len(text)
         /\ \A i \in 1..Len(text) :
              Marked(text)[i] = IF text[i] \in {"hi", "lo"} THEN FFFD ELSE text[i]
<1>1. Len(text) \in Nat /\ DOMAIN text = 1..Len(text)
  BY LenProperties
<1> DEFINE e(i) == IF text[i] \in {"hi", "lo"} THEN FFFD ELSE text[i]
<1>2. \A i \in 1..Len(text) : e(i) \in Sym
  <2>1. \A i \in 1..Len(text) : text[i] \in Sym
    BY ElementOfSeq
  <2>2. FFFD \in Sym
    BY DEF Sym
  <2> QED
    BY <2>1, <2>2
<1>3. Marked(text) = [i \in 1..Len(text) |-> e(i)]
  BY <1>1 DEF Marked
<1>4. \A i \in 1..Len(text) : Marked(text)[i] = e(i)
  BY <1>3
<1>5. [i \in 1..Len(text) |-> e(i)] \in Seq(Sym) /\ Len([i \in 1..Len(text) |-> e(i)]) = Len(text)
  <2> HIDE DEF e
  <2> QED
    BY <1>1, <1>2, IsASeq
<1> QED
  BY <1>3, <1>4, <1>5

LEMMA DecodeType ==
  ASSUME NEW ids \in Seq(Token)
  PROVE  Decode(ids) \in Seq(Sym)
<1>1. Decode(ids) = Marked(Text(ids))
  BY DEF Decode, Marked
<1> QED
  BY <1>1, TextType, MarkedProperties

\* What may be shown of a text: all of it or all but its last character.
LEMMA AvailableBounds ==
  ASSUME NEW full \in Seq(Sym)
  PROVE  /\ Available(full) \in 0..Len(full) /\ Len(full) - 1 <= Available(full)
         /\ Available(full) < Len(full) => full[Len(full)] = FFFD
         /\ Len(full) > 0 /\ full[Len(full)] # FFFD => Available(full) = Len(full)
<1>1. Len(full) \in Nat /\ (full = <<>> <=> Len(full) = 0)
  BY LenProperties, EmptySeq
<1> QED
  BY <1>1 DEF Available, Last

\* A token more leaves what may be shown as it is, and more may be shown.
LEMMA DecodeStep ==
  ASSUME NEW ids \in Seq(Token), NEW t \in Token
  PROVE  LET full == Decode(ids)
             new == Decode(Append(ids, t))
         IN /\ full \in Seq(Sym) /\ new \in Seq(Sym)
            /\ Available(full) <= Available(new)
            /\ \A i \in 1..Available(full) : new[i] = full[i]
<1> DEFINE a == Text(ids)
           b == Text(Append(ids, t))
           full == Decode(ids)
           new == Decode(Append(ids, t))
<1> SUFFICES /\ full \in Seq(Sym) /\ new \in Seq(Sym)
             /\ Available(full) <= Available(new)
             /\ \A i \in 1..Available(full) : new[i] = full[i]
  OBVIOUS
<1>1. a \in Seq(Sym) /\ Append(ids, t) \in Seq(Token) /\ t \in Sym
  BY TextType, AppendProperties DEF Sym
<1>2. b = Bytes(a, t)
  BY TextAppend
<1>3. full = Marked(a) /\ new = Marked(b)
  BY DEF Decode, Marked
<1> HIDE DEF a, b, full, new
<1>4. /\ b \in Seq(Sym)
      /\ \/ b = a
         \/ /\ Len(a) > 0 /\ a[Len(a)] = "hi" /\ Len(b) = Len(a) /\ b[Len(a)] = "char"
            /\ \A i \in 1..(Len(a) - 1) : b[i] = a[i]
         \/ Len(b) = Len(a) + 1 /\ \A i \in 1..Len(a) : b[i] = a[i]
  BY <1>1, <1>2, BytesStep
<1>5. /\ full \in Seq(Sym) /\ Len(full) = Len(a)
      /\ \A i \in 1..Len(a) : full[i] = IF a[i] \in {"hi", "lo"} THEN FFFD ELSE a[i]
  BY <1>1, <1>3, MarkedProperties
<1>6. /\ new \in Seq(Sym) /\ Len(new) = Len(b)
      /\ \A i \in 1..Len(b) : new[i] = IF b[i] \in {"hi", "lo"} THEN FFFD ELSE b[i]
  BY <1>3, <1>4, MarkedProperties
<1>7. Len(a) \in Nat /\ Len(b) \in Nat
  BY <1>1, <1>4, LenProperties
<1>8. /\ Available(full) \in 0..Len(a) /\ Len(a) - 1 <= Available(full)
      /\ Len(a) > 0 /\ full[Len(a)] # FFFD => Available(full) = Len(a)
      /\ Available(full) < Len(a) => full[Len(a)] = FFFD
  BY <1>5, AvailableBounds
<1>9. /\ Available(new) \in 0..Len(b) /\ Len(b) - 1 <= Available(new)
      /\ Len(b) > 0 /\ new[Len(b)] # FFFD => Available(new) = Len(b)
  BY <1>6, AvailableBounds
<1>10. CASE b = a
  BY <1>3, <1>5, <1>10, <1>8
<1>11. CASE /\ Len(a) > 0 /\ a[Len(a)] = "hi" /\ Len(b) = Len(a) /\ b[Len(a)] = "char"
            /\ \A i \in 1..(Len(a) - 1) : b[i] = a[i]
  <2>1. Len(a) \in 1..Len(a) /\ Len(a) \in 1..Len(b)
    BY <1>7, <1>11
  <2>2. full[Len(a)] = FFFD /\ new[Len(a)] = "char"
    BY <1>5, <1>6, <1>11, <2>1
  <2>3. Available(new) = Len(a)
    BY <1>7, <1>9, <1>11, <2>2 DEF FFFD
  <2>4. full # <<>>
    BY <1>5, <1>7, <1>11, EmptySeq
  <2>5. Available(full) = Len(a) - 1
    BY <1>5, <2>2, <2>4 DEF Available, Last
  <2>6. \A i \in 1..(Len(a) - 1) : new[i] = full[i]
    BY <1>5, <1>6, <1>7, <1>11
  <2> QED
    BY <1>5, <1>6, <1>7, <2>3, <2>5, <2>6
<1>12. CASE Len(b) = Len(a) + 1 /\ \A i \in 1..Len(a) : b[i] = a[i]
  <2>1. \A i \in 1..Len(a) : new[i] = full[i]
    BY <1>5, <1>6, <1>7, <1>12
  <2>2. Available(full) <= Available(new)
    BY <1>7, <1>8, <1>9, <1>12
  <2>3. \A i \in 1..Available(full) : i \in 1..Len(a)
    BY <1>7, <1>8
  <2> QED
    BY <1>5, <1>6, <2>1, <2>2, <2>3
<1> QED
  BY <1>4, <1>10, <1>11, <1>12

\* If all that may be shown was shown, push shows what may be shown now.
LEMMA PushStep ==
  ASSUME NEW ids \in Seq(Token), NEW t \in Token
  PROVE  LET full == Decode(ids)
             new == Decode(Append(ids, t))
         IN Push(Append(ids, t), SubSeq(full, 1, Available(full)))
              = SubSeq(new, 1, Available(new))
<1> DEFINE full == Decode(ids)
           new == Decode(Append(ids, t))
           a == Available(full)
           b == Available(new)
           shown == SubSeq(full, 1, a)
<1> SUFFICES Push(Append(ids, t), shown) = SubSeq(new, 1, b)
  OBVIOUS
<1>1. /\ full \in Seq(Sym) /\ new \in Seq(Sym) /\ a <= b
      /\ \A i \in 1..a : new[i] = full[i]
  BY DecodeStep
<1>2. Push(Append(ids, t), shown)
        = IF b <= Len(shown) THEN shown ELSE shown \o SubSeq(new, Len(shown) + 1, b)
  BY DEF Push
<1>3. a \in 0..Len(full) /\ b \in 0..Len(new) /\ Len(full) \in Nat /\ Len(new) \in Nat
  BY <1>1, AvailableBounds, LenProperties
<1> HIDE DEF full, new, a, b
<1>4. Len(shown) = a /\ shown \in Seq(Sym) /\ \A i \in 1..a : shown[i] = full[i]
  BY <1>1, <1>3, FrontPiece
<1>5. shown = SubSeq(new, 1, a)
  <2>1. a \in 0..Len(new)
    BY <1>1, <1>3
  <2>2. /\ SubSeq(new, 1, a) \in Seq(Sym) /\ Len(SubSeq(new, 1, a)) = a
        /\ \A i \in 1..a : SubSeq(new, 1, a)[i] = new[i]
    BY <1>1, <2>1, FrontPiece
  <2>3. \A i \in 1..a : shown[i] = SubSeq(new, 1, a)[i]
    BY <1>1, <1>4, <2>2
  <2> HIDE DEF shown
  <2> QED
    BY <1>4, <2>2, <2>3, SeqEqual
<1> HIDE DEF shown
<1>6. CASE b <= a
  <2>1. b = a
    BY <1>1, <1>3, <1>6
  <2> QED
    BY <1>2, <1>4, <1>5, <2>1
<1>7. CASE ~(b <= a)
  <2>1. 1 \in 1..(Len(new) + 1) /\ a \in (1 - 1)..Len(new) /\ b \in a..Len(new)
    BY <1>1, <1>3, <1>7
  <2>2. SubSeq(new, 1, a) \o SubSeq(new, a + 1, b) = SubSeq(new, 1, b)
    BY <1>1, <2>1, ConcatAdjacentSubSeq
  <2> QED
    BY <1>2, <1>4, <1>5, <1>7, <2>2
<1> QED
  BY <1>6, <1>7

-----------------------------------------------------------------------------
(* The tokenizer: a prompt is encoded piece by piece.                      *)

Pieces(text) ==
  [i \in DOMAIN text |-> IF text[i] = "char" THEN <<"hi", "lo">> ELSE <<text[i]>>]

LEMMA PiecesProperties ==
  ASSUME NEW S, "hi" \in S, "lo" \in S, NEW text \in Seq(S)
  PROVE  /\ Pieces(text) \in Seq(Seq(S)) /\ Len(Pieces(text)) = Len(text)
         /\ \A i \in 1..Len(text) :
              Pieces(text)[i] = IF text[i] = "char" THEN <<"hi", "lo">> ELSE <<text[i]>>
<1>1. Len(text) \in Nat /\ DOMAIN text = 1..Len(text)
  BY LenProperties
<1> DEFINE e(i) == IF text[i] = "char" THEN <<"hi", "lo">> ELSE <<text[i]>>
<1>2. ASSUME NEW i \in 1..Len(text)
      PROVE  e(i) \in Seq(S)
  <2>1. text[i] \in S
    BY ElementOfSeq
  <2>2. <<"hi", "lo">> \in Seq(S) /\ <<text[i]>> \in Seq(S)
    BY <2>1
  <2> QED
    BY <2>2
<1>3. Pieces(text) = [i \in 1..Len(text) |-> e(i)]
  BY <1>1 DEF Pieces
<1>4. \A i \in 1..Len(text) : Pieces(text)[i] = e(i)
  BY <1>3
<1>5. /\ [i \in 1..Len(text) |-> e(i)] \in Seq(Seq(S))
      /\ Len([i \in 1..Len(text) |-> e(i)]) = Len(text)
  <2>1. PICK T : T = Seq(S)
    OBVIOUS
  <2>2. \A i \in 1..Len(text) : e(i) \in T
    BY <1>2, <2>1
  <2> HIDE DEF e
  <2>3. /\ [i \in 1..Len(text) |-> e(i)] \in Seq(T)
        /\ Len([i \in 1..Len(text) |-> e(i)]) = Len(text)
    BY <1>1, <2>2, IsASeq
  <2> QED
    BY <2>1, <2>3
<1> QED
  BY <1>3, <1>4, <1>5

LEMMA EncodeType ==
  ASSUME NEW S, "hi" \in S, "lo" \in S, NEW text \in Seq(S)
  PROVE  Encode(text) \in Seq(S)
<1>1. Encode(text) = FlattenSeq(Pieces(text))
  BY DEF Encode, Pieces
<1>2. Pieces(text) \in Seq(Seq(S))
  BY PiecesProperties
<1> QED
  BY <1>1, <1>2, FlattenType

\* The tokens of two texts one behind the other.
LEMMA EncodeConcat ==
  ASSUME NEW S, "hi" \in S, "lo" \in S, NEW a \in Seq(S), NEW b \in Seq(S)
  PROVE  Encode(a \o b) = Encode(a) \o Encode(b)
<1>1. \A text : Encode(text) = FlattenSeq(Pieces(text))
  BY DEF Encode, Pieces
<1>2. /\ a \o b \in Seq(S) /\ Len(a \o b) = Len(a) + Len(b)
      /\ \A i \in 1..(Len(a) + Len(b)) :
           (a \o b)[i] = IF i <= Len(a) THEN a[i] ELSE b[i - Len(a)]
      /\ Len(a) \in Nat /\ Len(b) \in Nat
  BY ConcatProperties, LenProperties
<1> DEFINE p == Pieces(a)
           q == Pieces(b)
           r == Pieces(a \o b)
           F(x) == IF x = "char" THEN <<"hi", "lo">> ELSE <<x>>
<1>3. p \in Seq(Seq(S)) /\ Len(p) = Len(a) /\ \A i \in 1..Len(a) : p[i] = F(a[i])
  BY PiecesProperties
<1>4. q \in Seq(Seq(S)) /\ Len(q) = Len(b) /\ \A i \in 1..Len(b) : q[i] = F(b[i])
  BY PiecesProperties
<1>5. PICK ab : ab = a \o b
  OBVIOUS
<1>6. r \in Seq(Seq(S)) /\ Len(r) = Len(ab) /\ \A i \in 1..Len(ab) : r[i] = F(ab[i])
  BY <1>2, <1>5, PiecesProperties
<1> HIDE DEF p, q, r, F
<1>7. /\ p \o q \in Seq(Seq(S)) /\ Len(p \o q) = Len(p) + Len(q)
      /\ \A i \in 1..(Len(p) + Len(q)) :
           (p \o q)[i] = IF i <= Len(p) THEN p[i] ELSE q[i - Len(p)]
  <2>1. PICK T : T = Seq(S)
    OBVIOUS
  <2>2. p \in Seq(T) /\ q \in Seq(T)
    BY <1>3, <1>4, <2>1
  <2>3. /\ p \o q \in Seq(T) /\ Len(p \o q) = Len(p) + Len(q)
        /\ \A i \in 1..(Len(p) + Len(q)) :
             (p \o q)[i] = IF i <= Len(p) THEN p[i] ELSE q[i - Len(p)]
    BY <2>2, ConcatProperties
  <2> QED
    BY <2>1, <2>3
<1>8. ASSUME NEW i \in 1..Len(r)
      PROVE  r[i] = (p \o q)[i]
  <2>1. i \in 1..(Len(a) + Len(b)) /\ r[i] = F(ab[i])
    BY <1>2, <1>5, <1>6
  <2>2. CASE i <= Len(a)
    <3>1. i \in 1..Len(a)
      BY <1>2, <2>1, <2>2
    <3>2. ab[i] = a[i] /\ (p \o q)[i] = p[i] /\ p[i] = F(a[i])
      BY <1>2, <1>3, <1>4, <1>5, <1>7, <2>1, <2>2, <3>1
    <3> QED
      BY <2>1, <3>2
  <2>3. CASE ~(i <= Len(a))
    <3>1. i - Len(a) \in 1..Len(b)
      BY <1>2, <2>1, <2>3
    <3>2. /\ ab[i] = b[i - Len(a)] /\ (p \o q)[i] = q[i - Len(a)]
          /\ q[i - Len(a)] = F(b[i - Len(a)])
      BY <1>2, <1>3, <1>4, <1>5, <1>7, <2>1, <2>3, <3>1
    <3> QED
      BY <2>1, <3>2
  <2> QED
    BY <2>2, <2>3
<1>9. Len(r) = Len(p \o q)
  BY <1>2, <1>3, <1>4, <1>5, <1>6, <1>7
<1>10. r = p \o q
  <2>1. PICK T, pq : T = Seq(S) /\ pq = p \o q
    OBVIOUS
  <2>2. r \in Seq(T) /\ pq \in Seq(T) /\ Len(r) = Len(pq) /\ \A i \in 1..Len(r) : r[i] = pq[i]
    BY <1>6, <1>7, <1>8, <1>9, <2>1
  <2>3. r = pq
    BY <2>2, SeqEqual
  <2> QED
    BY <2>1, <2>3
<1>11. FlattenSeq(p \o q) = FlattenSeq(p) \o FlattenSeq(q)
  BY <1>3, <1>4, FlattenConcat
<1> QED
  BY <1>1, <1>10, <1>11 DEF p, q, r

-----------------------------------------------------------------------------
(* The template.                                                           *)

\* Where the last </think> of a text is, 0 if it has none.
LEMMA LastClose ==
  ASSUME NEW text \in Seq(Sym), NEW m, m = SelectLastInSeq(text, IsClose)
  PROVE  /\ m \in 0..Len(text) /\ Len(text) \in Nat
         /\ m > 0 => IsClose(text[m])
         /\ \A i \in (m + 1)..Len(text) : ~IsClose(text[i])
<1> DEFINE I == {i \in 1..Len(text) : IsClose(text[i])}
<1>1. Len(text) \in Nat
  BY LenProperties
<1>2. m = IF I # {} THEN Max(I) ELSE 0
  BY DEF SelectLastInSeq
<1>3. I \subseteq 0..Len(text)
  BY <1>1
<1>4. m \in 0..Len(text) /\ (m > 0 => m \in I) /\ \A i \in I : i <= m
  <2>1. CASE I = {}
    BY <1>1, <1>2, <2>1
  <2>2. CASE I # {}
    <3> HIDE DEF I
    <3>1. Max(I) \in I /\ \A i \in I : Max(I) >= i
      BY <1>1, <1>3, <2>2, MaxOfSet
    <3>2. \A i \in I : i \in 0..Len(text)
      BY <1>3
    <3> QED
      BY <1>1, <1>2, <2>2, <3>1, <3>2
  <2> QED
    BY <2>1, <2>2
<1>5. ASSUME NEW i \in (m + 1)..Len(text)
      PROVE  ~IsClose(text[i])
  <2>1. i \in 1..Len(text) /\ ~(i <= m)
    BY <1>1, <1>4
  <2> QED
    BY <1>4, <2>1
<1> QED
  BY <1>1, <1>4, <1>5

\* The text that split_reasoning finds with its search from the end is the
\* one behind the only mark that no mark follows.
LEMMA BodyIsBehind ==
  ASSUME NEW text \in Seq(Sym)
  PROVE  Body(text) = Behind(text)
<1> DEFINE P(n) == /\ n > 0 => IsClose(text[n])
                   /\ \A i \in (n + 1)..Len(text) : ~IsClose(text[i])
           c == CHOOSE n \in 0..Len(text) : P(n)
<1>1. PICK m : m = SelectLastInSeq(text, IsClose)
  OBVIOUS
<1>2. m \in 0..Len(text) /\ Len(text) \in Nat /\ P(m)
  BY <1>1, LastClose
<1>3. c \in 0..Len(text) /\ P(c)
  <2> HIDE DEF P
  <2> QED
    BY <1>2
<1>4. Behind(text) = SubSeq(text, c + 1, Len(text))
  BY DEF Behind
<1> HIDE DEF c
<1>5. c = m
  <2>1. ~(c < m)
    <3>1. c < m => m \in (c + 1)..Len(text) /\ m > 0
      BY <1>2, <1>3
    <3> QED
      BY <1>2, <1>3, <3>1
  <2>2. ~(m < c)
    <3>1. m < c => c \in (m + 1)..Len(text) /\ c > 0
      BY <1>2, <1>3
    <3> QED
      BY <1>2, <1>3, <3>1
  <2> QED
    BY <1>2, <1>3, <2>1, <2>2
<1> QED
  BY <1>1, <1>4, <1>5 DEF Body

LEMMA BodyType ==
  ASSUME NEW text \in Seq(Sym)
  PROVE  Body(text) \in Seq(Sym)
<1>1. PICK m : m = SelectLastInSeq(text, IsClose)
  OBVIOUS
<1>2. m + 1 \in Int /\ Len(text) \in Int /\ \A i \in (m + 1)..Len(text) : i \in 1..Len(text)
  <2>1. m \in 0..Len(text) /\ Len(text) \in Nat
    BY <1>1, LastClose
  <2> QED
    BY <2>1
<1>3. \A i \in (m + 1)..Len(text) : text[i] \in Sym
  BY <1>2, ElementOfSeq
<1>4. SubSeq(text, m + 1, Len(text)) \in Seq(Sym)
  BY <1>2, <1>3, SubSeqProperties
<1> QED
  BY <1>1, <1>4 DEF Body

LEMMA Contents ==
  ASSUME NEW ms \in Seq(Msg)
  PROVE  \A i \in 1..Len(ms) : ms[i] \in Msg /\ ms[i].content \in Seq(Sym)
<1>1. \A i \in 1..Len(ms) : ms[i] \in Msg
  BY ElementOfSeq
<1> QED
  BY <1>1 DEF Msg

\* A last message of the user is the last of the user's messages.
LEMMA LastQuestion ==
  ASSUME NEW ms \in Seq(Msg), Len(ms) > 0, ms[Len(ms)].role = "user"
  PROVE  SelectLastInSeq(ms, IsUser) = Len(ms)
<1> DEFINE I == {i \in 1..Len(ms) : IsUser(ms[i])}
<1>1. Len(ms) \in Nat
  BY LenProperties
<1>2. Len(ms) \in I /\ I \subseteq 0..Len(ms)
  BY <1>1 DEF IsUser
<1>3. SelectLastInSeq(ms, IsUser) = IF I # {} THEN Max(I) ELSE 0
  BY DEF SelectLastInSeq
<1> HIDE DEF I
<1>4. I # {}
  BY <1>2
<1>5. Max(I) \in I /\ \A i \in I : Max(I) >= i
  BY <1>1, <1>2, <1>4, MaxOfSet
<1>6. Max(I) \in 0..Len(ms) /\ Max(I) >= Len(ms)
  BY <1>2, <1>5
<1> QED
  BY <1>1, <1>3, <1>4, <1>6

\* What a prompt shows of a message has the marks of its role, its text and,
\* of an answer, only what stands behind its reasoning.
LEMMA ShownType ==
  ASSUME NEW m \in Msg
  PROVE  Shown(m) \in Seq(Sym)
<1>1. /\ m.role \in {"system", "user", "assistant"} /\ m.content \in Seq(Sym)
  BY DEF Msg
<1>2. m.role \in Sym /\ "<|im_end|>" \in Sym
  BY <1>1 DEF Sym
<1> DEFINE text == IF m.role # "assistant" THEN m.content ELSE Body(m.content)
<1>3. text \in Seq(Sym)
  BY <1>1, BodyType
<1>4. <<m.role>> \in Seq(Sym) /\ <<"<|im_end|>">> \in Seq(Sym)
  BY <1>2
<1> HIDE DEF text
<1>5. <<m.role>> \o text \in Seq(Sym)
  BY <1>3, <1>4, ConcatProperties
<1>6. (<<m.role>> \o text) \o <<"<|im_end|>">> \in Seq(Sym)
  BY <1>4, <1>5, ConcatProperties
<1> QED
  BY <1>6 DEF Shown, text

LEMMA ShownAllProperties ==
  ASSUME NEW ms \in Seq(Msg)
  PROVE  /\ ShownAll(ms) \in Seq(Seq(Sym)) /\ Len(ShownAll(ms)) = Len(ms)
         /\ \A i \in 1..Len(ms) : ShownAll(ms)[i] = Shown(ms[i])
<1>1. Len(ms) \in Nat /\ DOMAIN ms = 1..Len(ms)
  BY LenProperties
<1> DEFINE e(i) == Shown(ms[i])
<1>2. ASSUME NEW i \in 1..Len(ms)
      PROVE  e(i) \in Seq(Sym)
  <2>1. ms[i] \in Msg
    BY ElementOfSeq
  <2> QED
    BY <2>1, ShownType
<1>3. ShownAll(ms) = [i \in 1..Len(ms) |-> e(i)]
  BY <1>1 DEF ShownAll
<1>4. \A i \in 1..Len(ms) : ShownAll(ms)[i] = e(i)
  BY <1>3
<1>5. /\ [i \in 1..Len(ms) |-> e(i)] \in Seq(Seq(Sym))
      /\ Len([i \in 1..Len(ms) |-> e(i)]) = Len(ms)
  <2>1. PICK T : T = Seq(Sym)
    OBVIOUS
  <2>2. \A i \in 1..Len(ms) : e(i) \in T
    BY <1>2, <2>1
  <2> HIDE DEF e
  <2>3. /\ [i \in 1..Len(ms) |-> e(i)] \in Seq(T)
        /\ Len([i \in 1..Len(ms) |-> e(i)]) = Len(ms)
    BY <1>1, <2>2, IsASeq
  <2> QED
    BY <2>1, <2>3
<1> QED
  BY <1>3, <1>4, <1>5

\* A prompt, with the end that render_chat writes in two parts.
LEMMA PromptEnds ==
  ASSUME NEW ms \in Seq(Msg), NEW thinking
  PROVE  PromptOf(ms, thinking) =
           Encode((FlattenSeq(ShownAll(ms)) \o <<"assistant", "<think>">>)
                    \o (IF thinking THEN <<>> ELSE <<"</think>">>))
<1> DEFINE F == FlattenSeq(ShownAll(ms))
           m == <<"assistant", "<think>">>
           e == IF thinking THEN <<>> ELSE <<"</think>">>
<1>1. F \in Seq(Sym)
  <2>1. ShownAll(ms) \in Seq(Seq(Sym))
    BY ShownAllProperties
  <2> QED
    BY <2>1, FlattenType
<1>2. m \in Seq(Sym) /\ e \in Seq(Sym)
  <2>1. "assistant" \in Sym /\ "<think>" \in Sym /\ "</think>" \in Sym
    BY DEF Sym
  <2>2. <<>> \in Seq(Sym) /\ <<"</think>">> \in Seq(Sym)
    BY <2>1, EmptySeq
  <2>3. <<"assistant", "<think>">> \in Seq(Sym)
    BY <2>1
  <2>4. CASE thinking
    BY <2>2, <2>3, <2>4
  <2>5. CASE ~thinking
    BY <2>2, <2>3, <2>5
  <2> QED
    BY <2>4, <2>5
<1>3. Ending(thinking) = m \o e
  BY DEF Ending
<1> HIDE DEF F, m, e
<1>4. (F \o m) \o e = F \o (m \o e)
  BY <1>1, <1>2, ConcatAssociative
<1>5. PromptOf(ms, thinking) = Encode((F \o m) \o e)
  BY <1>3, <1>4 DEF PromptOf, F
<1> QED
  BY <1>5 DEF F, m, e

\* Before a question at the end, no answer keeps its reasoning: the prompt
\* joins what is shown of each message by itself.
LEMMA RenderIsPrompt ==
  ASSUME NEW ms \in Seq(Msg), Len(ms) > 0, ms[Len(ms)].role = "user"
  PROVE  Encode(Render(ms)) = PromptOf(ms, opts.enable_thinking)
<1>1. Len(ms) \in Nat /\ DOMAIN ms = 1..Len(ms)
  BY LenProperties
<1>2. SelectLastInSeq(ms, IsUser) = Len(ms)
  BY LastQuestion
<1>3. ASSUME NEW i \in 1..Len(ms)
      PROVE  RenderMessage(ms, i) = Shown(ms[i])
  <2>1. ~(i > SelectLastInSeq(ms, IsUser))
    BY <1>1, <1>2
  <2> QED
    BY <2>1 DEF RenderMessage, Shown
<1>4. [i \in DOMAIN ms |-> RenderMessage(ms, i)] = ShownAll(ms)
  <2>1. \A i \in DOMAIN ms : RenderMessage(ms, i) = Shown(ms[i])
    BY <1>1, <1>3
  <2>2. [i \in DOMAIN ms |-> RenderMessage(ms, i)] = [i \in DOMAIN ms |-> Shown(ms[i])]
    BY <2>1
  <2> QED
    BY <2>2 DEF ShownAll
<1>5. PICK thinking : thinking = opts.enable_thinking
  OBVIOUS
<1>6. Render(ms) = (FlattenSeq(ShownAll(ms)) \o <<"assistant", "<think>">>)
                     \o (IF thinking THEN <<>> ELSE <<"</think>">>)
  BY <1>4, <1>5 DEF Render
<1> QED
  BY <1>5, <1>6, PromptEnds

\* A mark is one token.
LEMMA EncodeMark ==
  ASSUME NEW x \in Sym, x # "char"
  PROVE  Encode(<<x>>) = <<x>>
<1>1. /\ <<x>> \in Seq(Sym) /\ Len(<<x>>) = 1 /\ <<x>>[1] = x
      /\ "hi" \in Sym /\ "lo" \in Sym
  BY DEF Sym
<1>2. /\ Pieces(<<x>>) \in Seq(Seq(Sym)) /\ Len(Pieces(<<x>>)) = 1
      /\ Pieces(<<x>>)[1] = <<x>>
  <2>1. /\ Pieces(<<x>>) \in Seq(Seq(Sym)) /\ Len(Pieces(<<x>>)) = Len(<<x>>)
        /\ \A i \in 1..Len(<<x>>) :
             Pieces(<<x>>)[i] = IF <<x>>[i] = "char" THEN <<"hi", "lo">> ELSE << <<x>>[i] >>
    BY <1>1, PiecesProperties
  <2> QED
    BY <1>1, <2>1
<1>3. PICK T, p, y : T = Seq(Sym) /\ p = Pieces(<<x>>) /\ y = <<x>>
  OBVIOUS
<1>4. p \in Seq(T) /\ Len(p) = 1 /\ p[1] = y
  BY <1>2, <1>3
<1>5. SubSeq(p, 1, 0) = <<>>
  BY SubSeqEmpty
<1>6. p = Append(<<>>, y)
  <2>1. Append(SubSeq(p, 1, Len(p) - 1), p[Len(p)]) = p
    BY <1>4, LastBehind
  <2>2. Len(p) - 1 = 0
    BY <1>4
  <2> QED
    BY <1>4, <1>5, <2>1, <2>2
<1>7. FlattenSeq(Append(<<>>, y)) = y
  <2>1. <<>> \in Seq(Seq(Sym)) /\ y \in Seq(Sym)
    BY <1>1, <1>3, EmptySeq
  <2> QED
    BY <2>1, FlattenAppend
<1> QED
  BY <1>3, <1>6, <1>7 DEF Encode, Pieces

LEMMA EndingProperties ==
  ASSUME NEW thinking
  PROVE  /\ Ending(thinking) \in Seq(Sym)
         /\ Encode(Ending(thinking)) = Ending(thinking)
         /\ Len(Ending(thinking)) = IF thinking THEN 2 ELSE 3
<1> DEFINE m == <<"assistant", "<think>">>
           c == <<"</think>">>
<1>1. "assistant" \in Sym /\ "<think>" \in Sym /\ "</think>" \in Sym /\ "hi" \in Sym /\ "lo" \in Sym
  BY DEF Sym
<1>2. m \in Seq(Sym) /\ Len(m) = 2
  BY <1>1
<1>3. c \in Seq(Sym) /\ Len(c) = 1
  BY <1>1
<1>4. Encode(m) = m
  <2> DEFINE a == <<"assistant">>
             b == <<"<think>">>
  <2>1. a \in Seq(Sym) /\ b \in Seq(Sym) /\ m = a \o b
    BY <1>1
  <2>2. Encode(a) = a /\ Encode(b) = b
    BY <1>1, EncodeMark
  <2> HIDE DEF a, b, m
  <2>3. Encode(a \o b) = Encode(a) \o Encode(b)
    BY <1>1, <2>1, EncodeConcat
  <2> QED
    BY <2>1, <2>2, <2>3
<1>5. Encode(c) = c
  BY <1>1, EncodeMark
<1>6. CASE thinking
  <2>1. Ending(thinking) = m \o <<>>
    BY <1>6 DEF Ending
  <2> HIDE DEF m
  <2>2. m \o <<>> = m
    BY <1>2, ConcatEmptySeq
  <2> QED
    BY <1>2, <1>4, <1>6, <2>1, <2>2
<1>7. CASE ~thinking
  <2>1. Ending(thinking) = m \o c
    BY <1>7 DEF Ending
  <2> HIDE DEF m, c
  <2>2. /\ m \o c \in Seq(Sym) /\ Len(m \o c) = Len(m) + Len(c)
    BY <1>2, <1>3, ConcatProperties
  <2>3. Encode(m \o c) = m \o c
    <3>1. Encode(m \o c) = Encode(m) \o Encode(c)
      BY <1>1, <1>2, <1>3, EncodeConcat
    <3> QED
      BY <1>4, <1>5, <3>1
  <2> QED
    BY <1>2, <1>3, <1>7, <2>1, <2>2, <2>3
<1> QED
  BY <1>6, <1>7

\* A prompt is the tokens of its messages and those of its end.
LEMMA PromptSplits ==
  ASSUME NEW ms \in Seq(Msg), NEW thinking
  PROVE  /\ FlattenSeq(ShownAll(ms)) \in Seq(Sym)
         /\ Encode(FlattenSeq(ShownAll(ms))) \in Seq(Sym)
         /\ PromptOf(ms, thinking) = Encode(FlattenSeq(ShownAll(ms))) \o Ending(thinking)
         /\ PromptOf(ms, thinking) \in Seq(Sym)
<1>1. "hi" \in Sym /\ "lo" \in Sym
  BY DEF Sym
<1> DEFINE F == FlattenSeq(ShownAll(ms))
<1>2. F \in Seq(Sym)
  <2>1. ShownAll(ms) \in Seq(Seq(Sym))
    BY ShownAllProperties
  <2> QED
    BY <2>1, FlattenType
<1>3. PromptOf(ms, thinking) = Encode(F \o Ending(thinking))
  BY DEF PromptOf
<1> HIDE DEF F
<1>4. Encode(F) \in Seq(Sym)
  BY <1>1, <1>2, EncodeType
<1>5. Encode(F \o Ending(thinking)) = Encode(F) \o Encode(Ending(thinking))
  BY <1>1, <1>2, EndingProperties, EncodeConcat
<1>6. Encode(F) \o Ending(thinking) \in Seq(Sym)
  BY <1>4, EndingProperties, ConcatProperties
<1> QED
  BY <1>2, <1>3, <1>4, <1>5, <1>6, EndingProperties DEF F

\* More messages behind a conversation make no shorter prompt.
LEMMA PromptGrows ==
  ASSUME NEW a \in Seq(Msg), NEW b \in Seq(Msg), NEW thinking
  PROVE  Len(PromptOf(a, thinking)) <= Len(PromptOf(a \o b, thinking))
<1>1. "hi" \in Sym /\ "lo" \in Sym
  BY DEF Sym
<1>2. /\ a \o b \in Seq(Msg) /\ Len(a \o b) = Len(a) + Len(b)
      /\ \A i \in 1..(Len(a) + Len(b)) :
           (a \o b)[i] = IF i <= Len(a) THEN a[i] ELSE b[i - Len(a)]
      /\ Len(a) \in Nat /\ Len(b) \in Nat
  BY ConcatProperties, LenProperties
<1>3. PICK ab, T : ab = a \o b /\ T = Seq(Sym)
  OBVIOUS
<1> DEFINE p == ShownAll(a)
           q == ShownAll(b)
           r == ShownAll(ab)
<1>4. p \in Seq(T) /\ Len(p) = Len(a) /\ \A i \in 1..Len(a) : p[i] = Shown(a[i])
  BY <1>3, ShownAllProperties
<1>5. q \in Seq(T) /\ Len(q) = Len(b) /\ \A i \in 1..Len(b) : q[i] = Shown(b[i])
  BY <1>3, ShownAllProperties
<1>6. r \in Seq(T) /\ Len(r) = Len(ab) /\ \A i \in 1..Len(ab) : r[i] = Shown(ab[i])
  <2>1. ab \in Seq(Msg)
    BY <1>2, <1>3
  <2> QED
    BY <1>3, <2>1, ShownAllProperties
<1> HIDE DEF p, q, r
<1>7. /\ p \o q \in Seq(T) /\ Len(p \o q) = Len(p) + Len(q)
      /\ \A i \in 1..(Len(p) + Len(q)) :
           (p \o q)[i] = IF i <= Len(p) THEN p[i] ELSE q[i - Len(p)]
  <2>1. p \in Seq(T) /\ q \in Seq(T)
    BY <1>4, <1>5
  <2> QED
    BY <2>1, ConcatProperties
<1>8. ASSUME NEW i \in 1..Len(r)
      PROVE  r[i] = (p \o q)[i]
  <2>1. i \in 1..(Len(a) + Len(b)) /\ r[i] = Shown(ab[i])
    BY <1>2, <1>3, <1>6
  <2>2. CASE i <= Len(a)
    <3>1. i \in 1..Len(a)
      BY <1>2, <2>1, <2>2
    <3>2. ab[i] = a[i] /\ (p \o q)[i] = p[i] /\ p[i] = Shown(a[i])
      BY <1>2, <1>3, <1>4, <1>5, <1>7, <2>1, <2>2, <3>1
    <3> QED
      BY <2>1, <3>2
  <2>3. CASE ~(i <= Len(a))
    <3>1. i - Len(a) \in 1..Len(b)
      BY <1>2, <2>1, <2>3
    <3>2. /\ ab[i] = b[i - Len(a)] /\ (p \o q)[i] = q[i - Len(a)]
          /\ q[i - Len(a)] = Shown(b[i - Len(a)])
      BY <1>2, <1>3, <1>4, <1>5, <1>7, <2>1, <2>3, <3>1
    <3> QED
      BY <2>1, <3>2
  <2> QED
    BY <2>2, <2>3
<1>9. r = p \o q
  <2>1. PICK pq : pq = p \o q
    OBVIOUS
  <2>2. r \in Seq(T) /\ pq \in Seq(T) /\ Len(r) = Len(pq) /\ \A i \in 1..Len(r) : r[i] = pq[i]
    BY <1>2, <1>3, <1>4, <1>5, <1>6, <1>7, <1>8, <2>1
  <2> QED
    BY <2>1, <2>2, SeqEqual
<1> DEFINE f == FlattenSeq(p)
           g == FlattenSeq(q)
<1>10. f \in Seq(Sym) /\ g \in Seq(Sym) /\ FlattenSeq(r) = f \o g
  BY <1>3, <1>4, <1>5, <1>9, FlattenType, FlattenConcat
<1> HIDE DEF f, g
<1>11. Encode(f \o g) = Encode(f) \o Encode(g)
  BY <1>1, <1>10, EncodeConcat
<1>12. Encode(f) \in Seq(Sym) /\ Encode(g) \in Seq(Sym)
  BY <1>1, <1>10, EncodeType
<1>13. /\ Len(Encode(f)) \in Nat /\ Len(Encode(g)) \in Nat
       /\ Len(Encode(f) \o Encode(g)) = Len(Encode(f)) + Len(Encode(g))
       /\ Encode(f) \o Encode(g) \in Seq(Sym)
  BY <1>12, ConcatProperties, LenProperties
<1> DEFINE e == Ending(thinking)
<1>14. e \in Seq(Sym) /\ Len(e) \in Nat
  BY EndingProperties, LenProperties
<1>15. PromptOf(a, thinking) = Encode(f) \o e
  BY PromptSplits DEF f, p
<1>16. PromptOf(ab, thinking) = (Encode(f) \o Encode(g)) \o e
  <2>1. ab \in Seq(Msg)
    BY <1>2, <1>3
  <2>2. PromptOf(ab, thinking) = Encode(FlattenSeq(ShownAll(ab))) \o e
    BY <2>1, PromptSplits
  <2> QED
    BY <1>10, <1>11, <2>2 DEF r
<1> HIDE DEF e
<1>17. Len(Encode(f) \o e) = Len(Encode(f)) + Len(e)
  BY <1>12, <1>14, ConcatProperties
<1>18. Len((Encode(f) \o Encode(g)) \o e) = Len(Encode(f)) + Len(Encode(g)) + Len(e)
  <2>1. PICK fg : fg = Encode(f) \o Encode(g)
    OBVIOUS
  <2>2. Len(fg \o e) = Len(fg) + Len(e)
    BY <1>13, <1>14, <2>1, ConcatProperties
  <2> QED
    BY <1>13, <2>1, <2>2
<1>19. Len(PromptOf(a, thinking)) <= Len(PromptOf(ab, thinking))
  BY <1>13, <1>14, <1>15, <1>16, <1>17, <1>18
<1> QED
  BY <1>3, <1>19

-----------------------------------------------------------------------------
(* What remains of a conversation.                                         *)

\* Message by message: those of sys, and those n places further in ms.
LEMMA RestProperties ==
  ASSUME NEW sys \in Seq(Msg), NEW ms \in Seq(Msg), NEW n \in Nat, NEW k \in 0..Len(ms),
         Len(sys) + n <= k
  PROVE  /\ Rest(sys, ms, n, k) \in Seq(Msg) /\ Len(Rest(sys, ms, n, k)) = k - n
         /\ \A i \in 1..(k - n) :
              Rest(sys, ms, n, k)[i] = IF i <= Len(sys) THEN sys[i] ELSE ms[i + n]
<1>1. Len(sys) \in Nat /\ Len(ms) \in Nat /\ k \in Nat
  BY LenProperties
<1> DEFINE a == Len(sys) + n + 1
           u == SubSeq(ms, a, k)
<1>2. a \in Int /\ k \in Int /\ \A i \in a..k : ms[i] \in Msg
  BY <1>1, ElementOfSeq
<1>3. /\ u \in Seq(Msg) /\ Len(u) = IF a <= k THEN k - a + 1 ELSE 0
      /\ \A i \in 1..(k - a + 1) : u[i] = ms[a + i - 1]
  <2> HIDE DEF a
  <2> QED
    BY <1>2, SubSeqProperties
<1>4. Len(u) = k - n - Len(sys) /\ \A i \in 1..Len(u) : u[i] = ms[Len(sys) + n + i]
  <2>1. k - a + 1 = k - n - Len(sys)
    BY <1>1
  <2>2. Len(u) = k - n - Len(sys)
    BY <1>1, <1>3
  <2>3. \A i \in 1..(k - n - Len(sys)) : a + i - 1 = Len(sys) + n + i
    BY <1>1
  <2> QED
    BY <1>3, <2>1, <2>2, <2>3
<1> HIDE DEF u, a
<1>5. /\ sys \o u \in Seq(Msg) /\ Len(sys \o u) = Len(sys) + Len(u)
      /\ \A i \in 1..(Len(sys) + Len(u)) :
           (sys \o u)[i] = IF i <= Len(sys) THEN sys[i] ELSE u[i - Len(sys)]
  BY <1>3, ConcatProperties
<1>6. Rest(sys, ms, n, k) = sys \o u
  BY DEF Rest, u, a
<1>7. Len(sys) + Len(u) = k - n
  BY <1>1, <1>4
<1>8. ASSUME NEW i \in 1..(k - n)
      PROVE  (sys \o u)[i] = IF i <= Len(sys) THEN sys[i] ELSE ms[i + n]
  <2>1. i \in 1..(Len(sys) + Len(u))
    BY <1>7
  <2>2. CASE i <= Len(sys)
    BY <1>5, <2>1, <2>2
  <2>3. CASE ~(i <= Len(sys))
    <3>1. i - Len(sys) \in 1..Len(u) /\ Len(sys) + n + (i - Len(sys)) = i + n
      BY <1>1, <1>4, <1>7, <2>3
    <3>2. (sys \o u)[i] = u[i - Len(sys)]
      BY <1>5, <2>1, <2>3
    <3>3. u[i - Len(sys)] = ms[Len(sys) + n + (i - Len(sys))]
      BY <1>4, <3>1
    <3> QED
      BY <2>3, <3>1, <3>2, <3>3
  <2> QED
    BY <2>2, <2>3
<1> QED
  BY <1>5, <1>6, <1>7, <1>8

\* One message more is said.
LEMMA RestAppend ==
  ASSUME NEW sys \in Seq(Msg), NEW ms \in Seq(Msg), NEW x \in Msg, NEW n \in Nat,
         Len(sys) + n <= Len(ms)
  PROVE  Rest(sys, Append(ms, x), n, Len(Append(ms, x))) = Append(Rest(sys, ms, n, Len(ms)), x)
<1>1. PICK l, more : l = Len(ms) /\ more = Append(ms, x)
  OBVIOUS
<1>2. /\ l \in Nat /\ Len(sys) \in Nat /\ more \in Seq(Msg) /\ Len(more) = l + 1
      /\ more[l + 1] = x /\ \A i \in 1..l : more[i] = ms[i]
  BY <1>1, LenProperties, AppendProperties
<1>3. PICK r, s : r = Rest(sys, more, n, l + 1) /\ s = Rest(sys, ms, n, l)
  OBVIOUS
<1>4. /\ r \in Seq(Msg) /\ Len(r) = l + 1 - n
      /\ \A i \in 1..(l + 1 - n) : r[i] = IF i <= Len(sys) THEN sys[i] ELSE more[i + n]
  <2>1. PICK k : k = l + 1
    OBVIOUS
  <2>2. k \in 0..Len(more) /\ Len(sys) + n <= k
    BY <1>1, <1>2, <2>1
  <2>3. /\ Rest(sys, more, n, k) \in Seq(Msg) /\ Len(Rest(sys, more, n, k)) = k - n
        /\ \A i \in 1..(k - n) :
             Rest(sys, more, n, k)[i] = IF i <= Len(sys) THEN sys[i] ELSE more[i + n]
    BY <1>2, <2>2, RestProperties
  <2>4. r = Rest(sys, more, n, k)
    BY <1>3, <2>1
  <2>5. /\ r \in Seq(Msg) /\ Len(r) = k - n
        /\ \A i \in 1..(k - n) : r[i] = IF i <= Len(sys) THEN sys[i] ELSE more[i + n]
    BY <2>3, <2>4
  <2> QED
    <3>1. k - n = l + 1 - n
      BY <1>2, <2>1
    <3> QED
      BY <2>5, <3>1
<1>5. /\ s \in Seq(Msg) /\ Len(s) = l - n
      /\ \A i \in 1..(l - n) : s[i] = IF i <= Len(sys) THEN sys[i] ELSE ms[i + n]
  <2>1. l \in 0..Len(ms) /\ Len(sys) + n <= l
    BY <1>1, <1>2
  <2> QED
    BY <1>2, <1>3, <2>1, RestProperties
<1>6. PICK t : t = Append(s, x)
  OBVIOUS
<1>7. /\ t \in Seq(Msg) /\ Len(t) = Len(s) + 1 /\ t[Len(s) + 1] = x
      /\ \A i \in 1..Len(s) : t[i] = s[i]
  BY <1>5, <1>6, AppendProperties
<1>8. l - n \in Nat /\ Len(s) + 1 = l + 1 - n /\ Len(sys) <= l - n
  BY <1>1, <1>2, <1>5
<1>9. ASSUME NEW i \in 1..(l + 1 - n)
      PROVE  r[i] = t[i]
  <2>1. CASE i <= l - n
    <3>1. i \in 1..(l - n) /\ i \in 1..Len(s)
      BY <1>2, <1>5, <1>8, <2>1
    <3>2. t[i] = IF i <= Len(sys) THEN sys[i] ELSE ms[i + n]
      BY <1>5, <1>7, <3>1
    <3>3. i + n \in 1..l
      BY <1>2, <3>1
    <3> QED
      BY <1>2, <1>4, <3>2, <3>3
  <2>2. CASE ~(i <= l - n)
    <3>1. i = Len(s) + 1 /\ ~(i <= Len(sys)) /\ i + n = l + 1
      BY <1>2, <1>5, <1>8, <2>2
    <3> QED
      BY <1>2, <1>4, <1>7, <3>1
  <2> QED
    BY <2>1, <2>2
<1>10. r = t
  <2>1. Len(r) = Len(t) /\ \A i \in 1..Len(r) : r[i] = t[i]
    BY <1>4, <1>7, <1>8, <1>9
  <2> QED
    BY <1>4, <1>7, <2>1, SeqEqual
<1> QED
  BY <1>1, <1>2, <1>3, <1>6, <1>10

\* What was said before remains the same.
LEMMA RestOfAppend ==
  ASSUME NEW sys \in Seq(Msg), NEW ms \in Seq(Msg), NEW x \in Msg, NEW n \in Nat,
         NEW k \in 0..Len(ms), Len(sys) + n <= k
  PROVE  Rest(sys, Append(ms, x), n, k) = Rest(sys, ms, n, k)
<1>1. PICK more : more = Append(ms, x)
  OBVIOUS
<1>2. /\ Len(ms) \in Nat /\ Len(sys) \in Nat /\ more \in Seq(Msg) /\ Len(more) = Len(ms) + 1
      /\ \A i \in 1..Len(ms) : more[i] = ms[i]
  BY <1>1, LenProperties, AppendProperties
<1>3. PICK r, s : r = Rest(sys, more, n, k) /\ s = Rest(sys, ms, n, k)
  OBVIOUS
<1>4. /\ r \in Seq(Msg) /\ Len(r) = k - n
      /\ \A i \in 1..(k - n) : r[i] = IF i <= Len(sys) THEN sys[i] ELSE more[i + n]
  <2>1. k \in 0..Len(more)
    BY <1>2
  <2> QED
    BY <1>2, <1>3, <2>1, RestProperties
<1>5. /\ s \in Seq(Msg) /\ Len(s) = k - n
      /\ \A i \in 1..(k - n) : s[i] = IF i <= Len(sys) THEN sys[i] ELSE ms[i + n]
  BY <1>3, RestProperties
<1>6. ASSUME NEW i \in 1..Len(r)
      PROVE  r[i] = s[i]
  <2>1. i \in 1..(k - n) /\ i + n \in 1..Len(ms)
    BY <1>2, <1>4
  <2> QED
    BY <1>2, <1>4, <1>5, <2>1
<1>7. r = s
  BY <1>4, <1>5, <1>6, SeqEqual
<1> QED
  BY <1>1, <1>3, <1>7

\* The oldest of the remaining messages is dropped.
LEMMA RestDrop ==
  ASSUME NEW sys \in Seq(Msg), NEW ms \in Seq(Msg), NEW n \in Nat,
         Len(sys) + n < Len(ms)
  PROVE  RemoveAt(Rest(sys, ms, n, Len(ms)), Len(sys) + 1) = Rest(sys, ms, n + 1, Len(ms))
<1>1. PICK l, m : l = Len(ms) /\ m = Len(sys)
  OBVIOUS
<1>2. l \in Nat /\ m \in Nat /\ l \in 0..Len(ms) /\ m + n < l
  BY <1>1, LenProperties
<1>3. PICK r, s : r = Rest(sys, ms, n, l) /\ s = Rest(sys, ms, n + 1, l)
  OBVIOUS
<1>4. /\ r \in Seq(Msg) /\ Len(r) = l - n
      /\ \A i \in 1..(l - n) : r[i] = IF i <= m THEN sys[i] ELSE ms[i + n]
  <2>1. Len(sys) + n <= l
    BY <1>1, <1>2
  <2>2. /\ r \in Seq(Msg) /\ Len(r) = l - n
        /\ \A i \in 1..(l - n) : r[i] = IF i <= Len(sys) THEN sys[i] ELSE ms[i + n]
    BY <1>2, <1>3, <2>1, RestProperties
  <2> QED
    BY <1>1, <2>2
<1>5. /\ s \in Seq(Msg) /\ Len(s) = l - (n + 1)
      /\ \A i \in 1..(l - (n + 1)) : s[i] = IF i <= m THEN sys[i] ELSE ms[i + (n + 1)]
  <2>1. PICK q : q = n + 1
    OBVIOUS
  <2>2. Len(sys) + q <= l /\ q \in Nat
    BY <1>1, <1>2, <2>1
  <2>3. /\ Rest(sys, ms, q, l) \in Seq(Msg) /\ Len(Rest(sys, ms, q, l)) = l - q
        /\ \A i \in 1..(l - q) :
             Rest(sys, ms, q, l)[i] = IF i <= Len(sys) THEN sys[i] ELSE ms[i + q]
    BY <1>2, <2>2, RestProperties
  <2> QED
    BY <1>1, <1>3, <2>1, <2>3
<1>6. PICK u, v : u = SubSeq(r, 1, m) /\ v = SubSeq(r, m + 2, l - n)
  OBVIOUS
<1>7. u \in Seq(Msg) /\ Len(u) = m /\ \A i \in 1..m : u[i] = r[i]
  <2>1. m \in 0..Len(r)
    BY <1>2, <1>4
  <2> QED
    BY <1>4, <1>6, <2>1, FrontPiece
<1>8. /\ v \in Seq(Msg) /\ Len(v) = l - n - m - 1
      /\ \A i \in 1..(l - n - m - 1) : v[i] = r[m + 1 + i]
  <2>1. m + 2 \in Int /\ l - n \in Int /\ \A i \in (m + 2)..(l - n) : r[i] \in Msg
    BY <1>2, <1>4, ElementOfSeq
  <2>2. /\ v \in Seq(Msg)
        /\ Len(v) = IF m + 2 <= l - n THEN (l - n) - (m + 2) + 1 ELSE 0
        /\ \A i \in 1..((l - n) - (m + 2) + 1) : v[i] = r[(m + 2) + i - 1]
    BY <1>6, <2>1, SubSeqProperties
  <2>3. (l - n) - (m + 2) + 1 = l - n - m - 1 /\ l - n - m - 1 \in Nat
    BY <1>2
  <2>4. \A i \in 1..(l - n - m - 1) : (m + 2) + i - 1 = m + 1 + i
    BY <1>2
  <2>5. ~(m + 2 <= l - n) => l - n - m - 1 = 0
    BY <1>2
  <2> QED
    BY <2>2, <2>3, <2>4, <2>5
<1>9. PICK t : t = u \o v
  OBVIOUS
<1>10. /\ t \in Seq(Msg) /\ Len(t) = Len(u) + Len(v)
       /\ \A i \in 1..(Len(u) + Len(v)) : t[i] = IF i <= Len(u) THEN u[i] ELSE v[i - Len(u)]
  BY <1>7, <1>8, <1>9, ConcatProperties
<1>11. Len(u) + Len(v) = l - (n + 1)
  BY <1>2, <1>7, <1>8
<1>12. ASSUME NEW i \in 1..(l - (n + 1))
       PROVE  t[i] = s[i]
  <2>1. CASE i <= m
    <3>1. i \in 1..m /\ i \in 1..(l - n)
      BY <1>2, <2>1
    <3> QED
      BY <1>4, <1>5, <1>7, <1>10, <1>11, <2>1, <3>1
  <2>2. CASE ~(i <= m)
    <3>1. i - m \in 1..(l - n - m - 1) /\ m + 1 + (i - m) = i + 1
      BY <1>2, <2>2
    <3>2. t[i] = v[i - m]
      BY <1>7, <1>10, <1>11, <2>2
    <3>3. v[i - m] = r[i + 1]
      BY <1>8, <3>1
    <3>4. i + 1 \in 1..(l - n) /\ ~(i + 1 <= m) /\ (i + 1) + n = i + (n + 1)
      BY <1>2, <2>2
    <3>5. r[i + 1] = ms[i + (n + 1)]
      BY <1>4, <3>4
    <3> QED
      BY <1>5, <2>2, <3>2, <3>3, <3>5
  <2> QED
    BY <2>1, <2>2
<1>13. t = s
  <2>1. Len(t) = Len(s) /\ \A i \in 1..Len(t) : t[i] = s[i]
    BY <1>5, <1>10, <1>11, <1>12
  <2> QED
    BY <1>5, <1>10, <2>1, SeqEqual
<1>14. RemoveAt(r, m + 1) = t
  <2>1. (m + 1) - 1 = m /\ (m + 1) + 1 = m + 2
    BY <1>2
  <2> QED
    BY <1>4, <1>6, <1>9, <2>1 DEF RemoveAt
<1> QED
  BY <1>1, <1>3, <1>13, <1>14

\* All but the last message is gone.
LEMMA RestOfOne ==
  ASSUME NEW sys \in Seq(Msg), NEW ms \in Seq(Msg), Len(ms) > Len(sys)
  PROVE  Rest(sys, ms, Len(ms) - Len(sys) - 1, Len(ms)) = Append(sys, Last(ms))
<1>1. PICK l, m : l = Len(ms) /\ m = Len(sys)
  OBVIOUS
<1>2. l \in Nat /\ m \in Nat /\ l \in 1..l /\ l > m
  BY <1>1, LenProperties
<1>3. SubSeq(ms, l, l) = SubSeq(ms, l, l - 1) \o <<ms[l]>>
  BY <1>1, <1>2, SubSeqRecursiveSecond
<1>4. SubSeq(ms, l, l - 1) = <<>>
  BY <1>2, SubSeqEmpty
<1>5. ms[l] \in Msg
  BY <1>1, <1>2, ElementOfSeq
<1>6. <<>> \o <<ms[l]>> = <<ms[l]>>
  <2>1. <<ms[l]>> \in Seq(Msg)
    BY <1>5
  <2> QED
    BY <2>1, ConcatEmptySeq
<1>7. SubSeq(ms, l, l) = <<ms[l]>>
  BY <1>3, <1>4, <1>6
<1>8. Append(sys, ms[l]) = sys \o <<ms[l]>>
  BY <1>5, AppendIsConcat
<1>9. m + (l - m - 1) + 1 = l
  BY <1>2
<1> QED
  BY <1>1, <1>7, <1>8, <1>9 DEF Rest, Last

\* More of what was said, behind the same messages.
LEMMA RestLonger ==
  ASSUME NEW sys \in Seq(Msg), NEW ms \in Seq(Msg), NEW n \in Nat, NEW k \in 0..Len(ms),
         Len(sys) + n <= k
  PROVE  \E more \in Seq(Msg) : Rest(sys, ms, n, Len(ms)) = Rest(sys, ms, n, k) \o more
<1>1. PICK l, m, a : l = Len(ms) /\ m = Len(sys) /\ a = Len(sys) + n + 1
  OBVIOUS
<1>2. l \in Nat /\ m \in Nat /\ k \in 0..l /\ a = m + n + 1
  BY <1>1, LenProperties
<1>3. a \in 1..(l + 1) /\ k \in (a - 1)..l /\ l \in k..l
  BY <1>1, <1>2
<1>4. PICK u, v : u = SubSeq(ms, a, k) /\ v = SubSeq(ms, k + 1, l)
  OBVIOUS
<1>5. u \o v = SubSeq(ms, a, l)
  BY <1>1, <1>3, <1>4, ConcatAdjacentSubSeq
<1>6. u \in Seq(Msg) /\ v \in Seq(Msg)
  <2>1. /\ a \in Int /\ k \in Int /\ k + 1 \in Int /\ l \in Int
        /\ \A i \in a..k : ms[i] \in Msg
        /\ \A i \in (k + 1)..l : ms[i] \in Msg
    BY <1>1, <1>2, <1>3, ElementOfSeq
  <2> QED
    BY <1>4, <2>1, SubSeqProperties
<1>7. sys \o (u \o v) = (sys \o u) \o v
  BY <1>6, ConcatAssociative
<1> QED
  BY <1>1, <1>4, <1>5, <1>6, <1>7 DEF Rest

-----------------------------------------------------------------------------
(* What the steps of the program do to what remains.                       *)

LEMMA OptionTypes ==
  ASSUME Types
  PROVE  /\ opts.chat_mode \in BOOLEAN /\ opts.enable_thinking \in BOOLEAN
         /\ opts.system \in SystemPrompts /\ opts.system \in Seq(Sym)
         /\ opts.n_predict \in Nat /\ max_ctx \in Nat
<1>1. Seq(Char) \subseteq Seq(Sym)
  <2>1. Char \subseteq Sym
    BY DEF Sym
  <2> QED
    BY <2>1, SeqMonotonic
<1>2. opts.chat_mode \in BOOLEAN /\ opts.enable_thinking \in BOOLEAN
  BY Zenon DEF Types
<1>3. opts.system \in SystemPrompts /\ opts.n_predict \in NPredict
  BY DEF Types
<1> QED
  BY <1>1, <1>2, <1>3, TextAssumption, RoomAssumption

LEMMA SystemProperties ==
  ASSUME Types
  PROVE  /\ System \in Seq(Msg) /\ Len(System) \in {0, 1}
         /\ \A i \in 1..Len(System) : System[i].role = "system"
<1>1. opts.system \in Seq(Sym)
  BY OptionTypes
<1>2. CASE opts.system = <<>>
  BY <1>2, EmptySeq DEF System
<1>3. CASE opts.system # <<>>
  <2> DEFINE m == Message("system", opts.system)
  <2>1. m \in Msg /\ m.role = "system"
    BY <1>1 DEF Msg, Message
  <2>2. System = <<m>>
    BY <1>3 DEF System
  <2> HIDE DEF m
  <2>3. <<m>> \in Seq(Msg) /\ Len(<<m>>) = 1 /\ <<m>>[1] = m
    BY <2>1
  <2> QED
    BY <2>1, <2>2, <2>3
<1> QED
  BY <1>2, <1>3

LEMMA SystemSame ==
  ASSUME opts' = opts
  PROVE  System' = System
BY DEF System

\* The end of a conversation, as Remains has it.
LEMMA RemainsProperties ==
  ASSUME NEW sys \in Seq(Msg), NEW ms, NEW m \in Seq(Msg), NEW o,
         Remains(sys, ms, m, o), Len(sys) <= Len(m)
  PROVE  \E n \in 0..(Len(m) - Len(sys)) :
           /\ ms = Rest(sys, m, n, Len(m)) /\ Lost(sys, m, n, o)
           /\ ms \in Seq(Msg) /\ Len(ms) = Len(m) - n
           /\ \A i \in 1..Len(ms) : ms[i] = IF i <= Len(sys) THEN sys[i] ELSE m[i + n]
<1>1. PICK n \in 0..(Len(m) - Len(sys)) : ms = Rest(sys, m, n, Len(m)) /\ Lost(sys, m, n, o)
  BY DEF Remains
<1>2. Len(m) \in Nat /\ Len(sys) \in Nat
  BY LenProperties
<1>3. PICK k : k = Len(m)
  OBVIOUS
<1>4. n \in Nat /\ k \in 0..Len(m) /\ Len(sys) + n <= k
  BY <1>2, <1>3
<1>5. /\ Rest(sys, m, n, k) \in Seq(Msg) /\ Len(Rest(sys, m, n, k)) = k - n
      /\ \A i \in 1..(k - n) : Rest(sys, m, n, k)[i] = IF i <= Len(sys) THEN sys[i] ELSE m[i + n]
  BY <1>4, RestProperties
<1>6. ms = Rest(sys, m, n, k)
  BY <1>1, <1>3
<1>7. /\ ms \in Seq(Msg) /\ Len(ms) = Len(m) - n
      /\ \A i \in 1..Len(ms) : ms[i] = IF i <= Len(sys) THEN sys[i] ELSE m[i + n]
  BY <1>3, <1>5, <1>6
<1> QED
  BY <1>1, <1>7

\* Only its first message can be one of the system.
LEMMA RemainsRoles ==
  ASSUME NEW sys \in Seq(Msg), NEW ms, NEW m \in Seq(Msg), NEW o,
         Remains(sys, ms, m, o), Len(sys) <= Len(m), Len(sys) \in {0, 1},
         \A i \in DOMAIN m : i > Len(sys) => m[i].role # "system"
  PROVE  /\ ms \in Seq(Msg)
         /\ \A i \in DOMAIN ms : ms[i].role = "system" => i = 1
<1>1. PICK n \in 0..(Len(m) - Len(sys)) :
           /\ ms = Rest(sys, m, n, Len(m)) /\ Lost(sys, m, n, o)
           /\ ms \in Seq(Msg) /\ Len(ms) = Len(m) - n
           /\ \A i \in 1..Len(ms) : ms[i] = IF i <= Len(sys) THEN sys[i] ELSE m[i + n]
  BY RemainsProperties
<1>2. Len(m) \in Nat /\ DOMAIN m = 1..Len(m) /\ DOMAIN ms = 1..Len(ms)
  BY <1>1, LenProperties
<1>3. ASSUME NEW i \in DOMAIN ms, ms[i].role = "system"
      PROVE  i = 1
  <2>1. CASE i <= Len(sys)
    BY <1>1, <1>2, <2>1
  <2>2. CASE ~(i <= Len(sys))
    <3>1. i \in 1..Len(ms) /\ i + n \in DOMAIN m /\ i + n > Len(sys)
      BY <1>1, <1>2, <2>2
    <3>2. ms[i] = m[i + n]
      BY <1>1, <2>2, <3>1
    <3> QED
      BY <1>3, <3>1, <3>2
  <2> QED
    BY <2>1, <2>2
<1> QED
  BY <1>1, <1>3

\* A message is said behind it.
LEMMA RemainsAppend ==
  ASSUME NEW sys \in Seq(Msg), NEW ms, NEW m \in Seq(Msg), NEW o, NEW x \in Msg,
         Remains(sys, ms, m, o), Len(sys) <= Len(m)
  PROVE  Remains(sys, Append(ms, x), Append(m, x), o)
<1>1. PICK n \in 0..(Len(m) - Len(sys)) : ms = Rest(sys, m, n, Len(m)) /\ Lost(sys, m, n, o)
  BY DEF Remains
<1>2. PICK more : more = Append(m, x)
  OBVIOUS
<1>3. /\ Len(m) \in Nat /\ Len(sys) \in Nat /\ more \in Seq(Msg) /\ Len(more) = Len(m) + 1
      /\ \A i \in 1..Len(m) : more[i] = m[i]
  BY <1>2, LenProperties, AppendProperties
<1>4. n \in Nat /\ Len(sys) + n <= Len(m) /\ n \in 0..(Len(more) - Len(sys))
  BY <1>3
<1>5. Rest(sys, more, n, Len(more)) = Append(ms, x)
  BY <1>1, <1>2, <1>4, RestAppend
<1>6. ASSUME n > 0
      PROVE  \E k \in (Len(sys) + n + 1)..Len(more) :
               /\ more[k].role = "user"
               /\ Len(PromptOf(Rest(sys, more, n - 1, k), o.enable_thinking)) + o.n_predict
                    > max_ctx
  <2>1. PICK k \in (Len(sys) + n + 1)..Len(m) :
               /\ m[k].role = "user"
               /\ Len(PromptOf(Rest(sys, m, n - 1, k), o.enable_thinking)) + o.n_predict > max_ctx
    BY <1>1, <1>6 DEF Lost
  <2>2. PICK q : q = n - 1
    OBVIOUS
  <2>3. k \in 0..Len(m) /\ q \in Nat /\ Len(sys) + q <= k
    BY <1>3, <1>4, <1>6, <2>2
  <2>4. Rest(sys, more, q, k) = Rest(sys, m, q, k)
    BY <1>2, <2>3, RestOfAppend
  <2>5. k \in (Len(sys) + n + 1)..Len(more) /\ more[k] = m[k]
    BY <1>3, <1>4, <2>1
  <2> QED
    BY <2>1, <2>2, <2>4, <2>5
<1>7. Lost(sys, more, n, o)
  BY <1>6 DEF Lost
<1>8. Remains(sys, Append(ms, x), more, o)
  BY <1>4, <1>5, <1>7 DEF Remains
<1> QED
  BY <1>2, <1>8

\* The oldest message is dropped when there is no room for it and it is not
\* the question.
LEMMA RemainsDrop ==
  ASSUME NEW sys \in Seq(Msg), NEW ms, NEW m \in Seq(Msg), NEW o,
         Remains(sys, ms, m, o), Asked(sys, m), Len(ms) > Len(sys) + 1,
         Len(PromptOf(ms, o.enable_thinking)) + o.n_predict > max_ctx
  PROVE  /\ Remains(sys, RemoveAt(ms, Len(sys) + 1), m, o)
         /\ Len(RemoveAt(ms, Len(sys) + 1)) > Len(sys)
<1>0. Len(m) > Len(sys) /\ m[Len(m)].role = "user" /\ Len(m) \in Nat /\ Len(sys) \in Nat
  BY LenProperties DEF Asked
<1>1. PICK n \in 0..(Len(m) - Len(sys)) :
           /\ ms = Rest(sys, m, n, Len(m)) /\ Lost(sys, m, n, o)
           /\ ms \in Seq(Msg) /\ Len(ms) = Len(m) - n
  <2>1. Len(sys) <= Len(m)
    BY <1>0
  <2> QED
    BY <2>1, RemainsProperties
<1>2. PICK q : q = n + 1
  OBVIOUS
<1>3. /\ n \in Nat /\ Len(sys) + n < Len(m) /\ q \in 0..(Len(m) - Len(sys))
      /\ q > 0 /\ q - 1 = n /\ Len(m) \in (Len(sys) + q + 1)..Len(m)
      /\ Len(sys) + q < Len(m) /\ q \in Nat
  BY <1>0, <1>1, <1>2
<1>4. RemoveAt(ms, Len(sys) + 1) = Rest(sys, m, q, Len(m))
  BY <1>1, <1>2, <1>3, RestDrop
<1>5. Lost(sys, m, q, o)
  BY <1>0, <1>1, <1>3 DEF Lost
<1>6. Remains(sys, RemoveAt(ms, Len(sys) + 1), m, o)
  BY <1>3, <1>4, <1>5 DEF Remains
<1>7. Len(Rest(sys, m, q, Len(m))) = Len(m) - q
  <2>1. Len(m) \in 0..Len(m) /\ Len(sys) + q <= Len(m)
    BY <1>0, <1>3
  <2> QED
    BY <1>3, <2>1, RestProperties
<1>8. Len(m) - q > Len(sys)
  BY <1>0, <1>3
<1> QED
  BY <1>4, <1>6, <1>7, <1>8

\* At the start, all that was said remains.
LEMMA RemainsAll ==
  ASSUME NEW sys \in Seq(Msg), NEW o
  PROVE  Remains(sys, sys, sys, o)
<1>1. Len(sys) \in Nat /\ Len(sys) + 0 + 1 = Len(sys) + 1 /\ 0 \in 0..(Len(sys) - Len(sys))
  BY LenProperties
<1>2. SubSeq(sys, Len(sys) + 0 + 1, Len(sys)) = <<>>
  BY <1>1, SubSeqEmpty
<1>3. sys \o <<>> = sys
  BY ConcatEmptySeq
<1>4. sys = Rest(sys, sys, 0, Len(sys))
  BY <1>2, <1>3 DEF Rest
<1>5. Lost(sys, sys, 0, o)
  BY DEF Lost
<1> QED
  BY <1>1, <1>4, <1>5 DEF Remains

\* What the loop of encode_with_truncation finds: a conversation that renders
\* and ends with the question.
LEMMA TruncateFacts ==
  ASSUME ChatInv, pc = "truncate"
  PROVE  /\ Renders(msgs) /\ SystemCount(msgs) = Len(System)
         /\ Encode(Render(msgs)) = PromptOf(msgs, opts.enable_thinking)
         /\ Enough(msgs) <=> HasRoom(PromptOf(msgs, opts.enable_thinking))
                               \/ Len(msgs) = Len(System) + 1
         /\ msgs \in Seq(Msg)
<1>0. Types /\ Modes /\ Roles /\ Truncating
  BY DEF ChatInv
<1>1. opts.chat_mode /\ said \in Seq(Msg)
  BY <1>0 DEF Modes, Types
<1>2. /\ System \in Seq(Msg) /\ Len(System) \in {0, 1}
      /\ \A i \in 1..Len(System) : System[i].role = "system"
  BY <1>0, SystemProperties
<1>3. /\ Len(System) <= Len(said)
      /\ \A i \in DOMAIN said : i > Len(System) => said[i].role # "system"
  <2>1. /\ Len(said) >= Len(System)
        /\ \A i \in DOMAIN said : i > Len(System) => said[i].role # "system"
    BY <1>0, <1>1 DEF Roles
  <2>2. Len(said) \in Nat
    BY <1>1, LenProperties
  <2> QED
    BY <1>2, <2>1, <2>2
<1>4. /\ Remains(System, msgs, said, opts) /\ Len(msgs) > Len(System)
      /\ Asked(System, said)
  BY <1>0 DEF Truncating
<1>5. PICK n \in 0..(Len(said) - Len(System)) :
        /\ msgs \in Seq(Msg) /\ Len(msgs) = Len(said) - n
        /\ \A i \in 1..Len(msgs) : msgs[i] = IF i <= Len(System) THEN System[i] ELSE said[i + n]
  <2>1. PICK s, m, o, l : s = System /\ m = said /\ o = opts /\ l = msgs
    OBVIOUS
  <2>2. s \in Seq(Msg) /\ m \in Seq(Msg) /\ Remains(s, l, m, o) /\ Len(s) <= Len(m)
    BY <1>1, <1>2, <1>3, <1>4, <2>1
  <2>3. \E n \in 0..(Len(m) - Len(s)) :
          /\ l = Rest(s, m, n, Len(m)) /\ Lost(s, m, n, o)
          /\ l \in Seq(Msg) /\ Len(l) = Len(m) - n
          /\ \A i \in 1..Len(l) : l[i] = IF i <= Len(s) THEN s[i] ELSE m[i + n]
    BY <2>2, RemainsProperties
  <2> QED
    BY <2>1, <2>3
<1>6. /\ Len(said) \in Nat /\ Len(msgs) \in Nat /\ DOMAIN said = 1..Len(said)
      /\ DOMAIN msgs = 1..Len(msgs) /\ Len(msgs) > 0 /\ msgs # <<>>
  BY <1>1, <1>2, <1>4, <1>5, LenProperties, EmptySeq
<1>7. msgs[Len(msgs)].role = "user"
  <2>1. said[Len(said)].role = "user"
    BY <1>4 DEF Asked
  <2>2. Len(msgs) \in 1..Len(msgs) /\ ~(Len(msgs) <= Len(System)) /\ Len(msgs) + n = Len(said)
    BY <1>2, <1>4, <1>5, <1>6
  <2> QED
    BY <1>5, <2>1, <2>2
<1>8. \A i \in DOMAIN msgs : msgs[i].role = "system" => i = 1
  <2>1. PICK s, m, o, l : s = System /\ m = said /\ o = opts /\ l = msgs
    OBVIOUS
  <2>2. /\ s \in Seq(Msg) /\ m \in Seq(Msg) /\ Remains(s, l, m, o) /\ Len(s) <= Len(m)
        /\ Len(s) \in {0, 1} /\ \A i \in DOMAIN m : i > Len(s) => m[i].role # "system"
    BY <1>1, <1>2, <1>3, <1>4, <2>1
  <2>3. \A i \in DOMAIN l : l[i].role = "system" => i = 1
    BY <2>2, RemainsRoles
  <2> QED
    BY <2>1, <2>3
<1>9. Renders(msgs)
  <2>1. Len(msgs) \in DOMAIN msgs /\ IsUser(msgs[Len(msgs)])
    BY <1>6, <1>7 DEF IsUser
  <2> QED
    BY <1>8, <2>1 DEF Renders
<1>10. SystemCount(msgs) = Len(System)
  <2>1. CASE Len(System) = 1
    <3>1. msgs[1] = System[1] /\ System[1].role = "system"
      BY <1>2, <1>5, <1>6, <2>1
    <3> QED
      BY <1>6, <2>1, <3>1 DEF SystemCount
  <2>2. CASE Len(System) = 0
    <3>1. msgs[1] = said[1 + n] /\ 1 + n \in DOMAIN said /\ 1 + n > Len(System)
      BY <1>4, <1>5, <1>6, <2>2
    <3>2. msgs[1].role # "system"
      BY <1>3, <3>1
    <3> QED
      BY <1>6, <2>2, <3>2 DEF SystemCount
  <2> QED
    BY <1>2, <2>1, <2>2
<1>11. Encode(Render(msgs)) = PromptOf(msgs, opts.enable_thinking)
  BY <1>5, <1>6, <1>7, RenderIsPrompt
<1>12. Droppable(msgs) = 0 <=> Len(msgs) = Len(System) + 1
  <2>1. Droppable(msgs) = Len(msgs) - Len(System) - 1
    BY <1>10 DEF Droppable
  <2>2. PICK a, b : a = Len(msgs) /\ b = Len(System)
    OBVIOUS
  <2>3. a \in Nat /\ b \in Nat
    BY <1>2, <1>6, <2>2
  <2>4. a - b - 1 = 0 <=> a = b + 1
    BY <2>3
  <2> QED
    BY <2>1, <2>2, <2>4
<1> QED
  BY <1>5, <1>9, <1>10, <1>11, <1>12 DEF Enough

-----------------------------------------------------------------------------
(* The inductive invariant: every action keeps it.                         *)

\* Leaving the program.
LEMMA QuitKeeps ==
  ASSUME ChatInv, Quit \/ ReadFails
  PROVE  ChatInv'
<1>0. /\ Types /\ Modes /\ Fresh /\ Roles /\ Kept /\ Truncating
      /\ Turn /\ Failed /\ Answer /\ Printed
  BY DEF ChatInv
<1>s. System' = System
  BY SystemSame DEF Quit, ReadFails
<1>types. Types'
  BY <1>0 DEF Quit, ReadFails, Types
<1>modes. Modes'
  BY <1>0 DEF Quit, ReadFails, Modes
<1>fresh. Fresh'
  BY <1>0 DEF Quit, ReadFails, Fresh
<1>roles. Roles'
  BY <1>0, <1>s DEF Quit, ReadFails, Roles
<1>kept. Kept'
  BY <1>0, <1>s DEF Quit, ReadFails, Kept
<1>truncating. Truncating'
  BY <1>0, <1>s DEF Quit, ReadFails, Truncating
<1>turn. Turn'
  BY <1>0, <1>s DEF Quit, ReadFails, Turn
<1>failed. Failed'
  BY <1>0, <1>s DEF Quit, ReadFails, Failed
<1>answer. Answer'
  BY <1>0 DEF Quit, ReadFails, Answer
<1>printed. Printed'
  BY <1>0 DEF Quit, ReadFails, Printed
<1> QED
  BY <1>types, <1>modes, <1>fresh, <1>roles, <1>kept, <1>truncating,
     <1>turn, <1>failed, <1>answer, <1>printed DEF ChatInv

\* Where a turn's prompt leaves no room for an answer, all that remains is the
\* question.
LEMMA QuestionAlone ==
  ASSUME Types, Roles, Kept, Turn, pc \in {"prefill", "decode"}, opts.chat_mode,
         ~HasRoom(tokens)
  PROVE  history = Append(System, Last(said))
<1>1. PICK s, h, m, o : s = System /\ h = history /\ m = said /\ o = opts
  OBVIOUS
<1>2. /\ Asked(s, m) /\ Len(h) = Len(s) + 1 /\ Remains(s, h, m, o)
      /\ Len(m) >= Len(s) /\ m \in Seq(Msg)
  BY <1>1 DEF Turn, Kept, Roles, Types
<1>3. s \in Seq(Msg) /\ Len(s) \in Nat /\ Len(m) \in Nat
  BY <1>1, <1>2, SystemProperties, LenProperties
<1>4. Len(m) > Len(s) /\ Len(s) <= Len(m)
  BY <1>2, <1>3 DEF Asked
<1>5. PICK n \in 0..(Len(m) - Len(s)) :
        /\ h = Rest(s, m, n, Len(m)) /\ Lost(s, m, n, o)
        /\ h \in Seq(Msg) /\ Len(h) = Len(m) - n
        /\ \A i \in 1..Len(h) : h[i] = IF i <= Len(s) THEN s[i] ELSE m[i + n]
  BY <1>2, <1>3, <1>4, RemainsProperties
<1>6. n = Len(m) - Len(s) - 1
  <2>1. PICK a \in Nat, b \in Nat : a = Len(m) /\ b = Len(s)
    BY <1>3
  <2>2. PICK c \in Nat : c = n
    BY <1>3
  <2>3. Len(h) = Len(s) + 1 /\ Len(h) = Len(m) - n
    BY <1>2, <1>5
  <2>4. b + 1 = a - c
    BY <2>1, <2>2, <2>3
  <2>5. c = a - b - 1
    BY <2>4
  <2> QED
    BY <2>1, <2>2, <2>5
<1>7. h = Append(s, Last(m))
  BY <1>2, <1>3, <1>4, <1>5, <1>6, RestOfOne
<1> QED
  BY <1>1, <1>7

\* The prompt is consumed, or it is longer than the context.
LEMMA PrefillKeeps ==
  ASSUME ChatInv, Prefill
  PROVE  ChatInv'
<1>0. /\ Types /\ Modes /\ Fresh /\ Roles /\ Kept /\ Truncating
      /\ Turn /\ Failed /\ Answer /\ Printed
  BY DEF ChatInv
<1>s. System' = System
  BY SystemSame DEF Prefill
<1>n. opts.n_predict \in Nat /\ max_ctx \in Nat /\ Len(tokens) \in Nat
  <2>1. tokens \in Seq(Sym)
    BY <1>0 DEF Types
  <2> QED
    BY <1>0, <2>1, OptionTypes, LenProperties
<1>types. Types'
  BY <1>0 DEF Prefill, Types
<1>modes. Modes'
  BY <1>0 DEF Prefill, Modes
<1>fresh. Fresh'
  BY <1>0 DEF Prefill, Fresh
<1>roles. Roles'
  BY <1>0, <1>s DEF Prefill, Roles
<1>kept. Kept'
  BY <1>0, <1>s DEF Prefill, Kept
<1>truncating. Truncating'
  BY <1>0, <1>s DEF Prefill, Truncating
<1>turn. Turn'
  BY <1>0, <1>s DEF Prefill, Turn, HasRoom
<1>failed. Failed'
  <2>1. SUFFICES ASSUME pc' = "error"
                 PROVE  /\ ~HasRoom(tokens)'
                        /\ opts.chat_mode => history = Append(System, Last(said))
    BY <1>s DEF Failed, Prefill
  <2>2. pc = "prefill" /\ Len(tokens) > max_ctx /\ UNCHANGED <<opts, tokens, history, said>>
    <3>1. pc = "prefill" /\ ~(Len(tokens) <= max_ctx) /\ UNCHANGED <<opts, tokens, history, said>>
      BY <2>1 DEF Prefill
    <3> QED
      BY <1>n, <3>1
  <2>3. ~HasRoom(tokens)
    BY <1>n, <2>2 DEF HasRoom
  <2>4. opts.chat_mode => history = Append(System, Last(said))
    BY <1>0, <2>2, <2>3, QuestionAlone
  <2> QED
    BY <2>2, <2>3, <2>4 DEF HasRoom
<1>answer. Answer'
  <2>1. gen = <<>> /\ gen' = gen /\ opts' = opts /\ tokens' = tokens
    BY <1>0 DEF Fresh, Prefill
  <2>2. Len(gen) = 0 /\ DOMAIN gen = {}
    BY <2>1, EmptySeq
  <2>3. pc' = "decode" => Len(tokens) <= max_ctx
    BY DEF Prefill
  <2>4. pc' = "decode" => Len(tokens) + Len(gen) <= max_ctx
    BY <1>n, <2>2, <2>3
  <2> QED
    BY <1>n, <2>1, <2>2, <2>4 DEF Answer
<1>printed. Printed'
  BY <1>0 DEF Prefill, Printed
<1> QED
  BY <1>types, <1>modes, <1>fresh, <1>roles, <1>kept, <1>truncating,
     <1>turn, <1>failed, <1>answer, <1>printed DEF ChatInv

\* The chat begins with its system message.
LEMMA StartChatKeeps ==
  ASSUME ChatInv, StartChat
  PROVE  ChatInv'
<1>0. /\ Types /\ Modes /\ Fresh /\ Roles /\ Kept /\ Truncating
      /\ Turn /\ Failed /\ Answer /\ Printed
  BY DEF ChatInv
<1>s. System' = System
  BY SystemSame DEF StartChat
<1>types. Types'
  BY <1>0, <1>s, SystemProperties DEF StartChat, Types
<1>modes. Modes'
  BY <1>0 DEF StartChat, Modes
<1>fresh. Fresh'
  BY <1>0 DEF StartChat, Fresh
<1>roles. Roles'
  <2>1. Len(System) \in Nat /\ DOMAIN System = 1..Len(System)
    BY <1>0, SystemProperties, LenProperties
  <2>2. \A i \in DOMAIN System : ~(i > Len(System))
    BY <2>1
  <2>3. said' = System /\ Len(System) >= Len(System)
    BY <2>1 DEF StartChat
  <2> QED
    BY <1>s, <2>2, <2>3 DEF Roles
<1>kept. Kept'
  <2>1. PICK s, o : s = System /\ o = opts
    OBVIOUS
  <2>2. Remains(s, s, s, o)
    BY <1>0, <2>1, SystemProperties, RemainsAll
  <2>3. history' = s /\ said' = s /\ System' = s /\ opts' = o
    BY <1>s, <2>1 DEF StartChat
  <2> QED
    BY <2>2, <2>3 DEF Kept
<1>truncating. Truncating'
  BY <1>0, <1>s DEF StartChat, Truncating
<1>turn. Turn'
  BY <1>0, <1>s DEF StartChat, Turn
<1>failed. Failed'
  BY <1>0, <1>s DEF StartChat, Failed
<1>answer. Answer'
  BY <1>0 DEF StartChat, Answer
<1>printed. Printed'
  BY <1>0 DEF StartChat, Printed
<1> QED
  BY <1>types, <1>modes, <1>fresh, <1>roles, <1>kept, <1>truncating,
     <1>turn, <1>failed, <1>answer, <1>printed DEF ChatInv

\* A single completion has its prompt as it is.
LEMMA StartCompletionKeeps ==
  ASSUME ChatInv, NEW prompt \in Prompts, StartCompletion(prompt)
  PROVE  ChatInv'
<1>0. /\ Types /\ Modes /\ Fresh /\ Roles /\ Kept /\ Truncating
      /\ Turn /\ Failed /\ Answer /\ Printed
  BY DEF ChatInv
<1>s. System' = System
  BY SystemSame DEF StartCompletion
<1>types. Types'
  <2>1. prompt \in Seq(Sym) /\ "hi" \in Sym /\ "lo" \in Sym
    <3>1. Char \subseteq Sym
      BY DEF Sym
    <3>2. Seq(Char) \subseteq Seq(Sym)
      BY <3>1, SeqMonotonic
    <3> QED
      BY <3>2, TextAssumption DEF Sym
  <2>2. Encode(prompt) \in Seq(Sym)
    BY <2>1, EncodeType
  <2> QED
    BY <1>0, <2>2 DEF StartCompletion, Types
<1>modes. Modes'
  BY <1>0 DEF StartCompletion, Modes
<1>fresh. Fresh'
  BY <1>0 DEF StartCompletion, Fresh
<1>roles. Roles'
  BY <1>0, <1>s DEF StartCompletion, Roles
<1>kept. Kept'
  BY <1>0, <1>s DEF StartCompletion, Kept
<1>truncating. Truncating'
  BY <1>0, <1>s DEF StartCompletion, Truncating
<1>turn. Turn'
  BY <1>0, <1>s DEF StartCompletion, Turn
<1>failed. Failed'
  BY <1>0, <1>s DEF StartCompletion, Failed
<1>answer. Answer'
  BY <1>0 DEF StartCompletion, Answer
<1>printed. Printed'
  BY <1>0 DEF StartCompletion, Printed
<1> QED
  BY <1>types, <1>modes, <1>fresh, <1>roles, <1>kept, <1>truncating,
     <1>turn, <1>failed, <1>answer, <1>printed DEF ChatInv

\* A question joins the conversation, and its copy.
LEMMA SayKeeps ==
  ASSUME ChatInv, NEW line \in Lines, Say(line)
  PROVE  ChatInv'
<1>0. /\ Types /\ Modes /\ Fresh /\ Roles /\ Kept /\ Truncating
      /\ Turn /\ Failed /\ Answer /\ Printed
  BY DEF ChatInv
<1>s. System' = System
  BY SystemSame DEF Say
<1>u. /\ pc = "read" /\ opts.chat_mode /\ Message("user", line) \in Msg
      /\ history' = Append(history, Message("user", line))
      /\ said' = Append(said, Message("user", line))
      /\ msgs' = history' /\ opts' = opts
  <2>1. line \in Seq(Sym)
    <3>1. Char \subseteq Sym
      BY DEF Sym
    <3>2. Seq(Char) \subseteq Seq(Sym)
      BY <3>1, SeqMonotonic
    <3> QED
      BY <3>2, TextAssumption
  <2> QED
    BY <1>0, <2>1 DEF Say, Modes, Msg, Message
<1>m. /\ System \in Seq(Msg) /\ said \in Seq(Msg) /\ history \in Seq(Msg)
      /\ Len(System) \in Nat /\ Len(said) \in Nat /\ Len(history) \in Nat
      /\ Len(said) >= Len(System) /\ Remains(System, history, said, opts)
  BY <1>0, <1>u, SystemProperties, LenProperties DEF Types, Roles, Kept
<1>r. Remains(System, history', said', opts)
  <2>1. PICK s, h, m, o, x : s = System /\ h = history /\ m = said /\ o = opts
                               /\ x = Message("user", line)
    OBVIOUS
  <2>2. s \in Seq(Msg) /\ m \in Seq(Msg) /\ x \in Msg /\ Remains(s, h, m, o) /\ Len(s) <= Len(m)
    BY <1>m, <1>u, <2>1
  <2>3. Remains(s, Append(h, x), Append(m, x), o)
    BY <2>2, RemainsAppend
  <2> QED
    BY <1>u, <2>1, <2>3
<1>v. /\ Len(said') = Len(said) + 1 /\ said'[Len(said')].role = "user"
      /\ Len(said') > Len(System) /\ Len(said') >= Len(System)
      /\ \A i \in DOMAIN said' : i > Len(System) => said'[i].role # "system"
  <2>1. PICK m, x : m = Append(said, x) /\ x = Message("user", line)
    OBVIOUS
  <2>2. /\ m \in Seq(Msg) /\ Len(m) = Len(said) + 1 /\ m[Len(said) + 1] = x
        /\ \A i \in 1..Len(said) : m[i] = said[i]
    BY <1>m, <1>u, <2>1, AppendProperties
  <2>3. x.role = "user" /\ said' = m
    BY <1>u, <2>1 DEF Message
  <2>4. \A i \in 1..Len(said) : i > Len(System) => said[i].role # "system"
    BY <1>0, <1>m, <1>u, LenProperties DEF Roles
  <2>5. DOMAIN m = 1..(Len(said) + 1)
    BY <2>2, LenProperties
  <2>6. ASSUME NEW i \in DOMAIN m, i > Len(System)
        PROVE  m[i].role # "system"
    <3>1. CASE i = Len(said) + 1
      BY <2>2, <2>3, <3>1
    <3>2. CASE i # Len(said) + 1
      <4>1. i \in 1..Len(said)
        BY <1>m, <2>5, <3>2
      <4> QED
        BY <2>2, <2>4, <2>6, <4>1
    <3> QED
      BY <3>1, <3>2
  <2> QED
    BY <1>m, <2>2, <2>3, <2>6
<1>w. Len(history') > Len(System)
  <2>1. Len(history') = Len(history) + 1
    BY <1>m, <1>u, AppendProperties
  <2>2. Len(history) >= Len(System)
    <3>1. PICK s, h, m, o : s = System /\ h = history /\ m = said /\ o = opts
      OBVIOUS
    <3>2. s \in Seq(Msg) /\ m \in Seq(Msg) /\ Remains(s, h, m, o) /\ Len(s) <= Len(m)
      BY <1>m, <3>1
    <3>3. PICK n \in 0..(Len(m) - Len(s)) :
            /\ h = Rest(s, m, n, Len(m)) /\ Lost(s, m, n, o)
            /\ h \in Seq(Msg) /\ Len(h) = Len(m) - n
            /\ \A i \in 1..Len(h) : h[i] = IF i <= Len(s) THEN s[i] ELSE m[i + n]
      BY <3>2, RemainsProperties
    <3> QED
      BY <1>m, <3>1, <3>3
  <2> QED
    BY <1>m, <2>1, <2>2
<1>types. Types'
  <2>1. history' \in Seq(Msg) /\ said' \in Seq(Msg)
    BY <1>0, <1>u, AppendProperties DEF Types
  <2> QED
    BY <1>0, <1>u, <2>1 DEF Types, Say
<1>modes. Modes'
  <2>1. PICK s, h, m, o : s = System /\ h = history' /\ m = said' /\ o = opts
    OBVIOUS
  <2>2. /\ s \in Seq(Msg) /\ m \in Seq(Msg) /\ Remains(s, h, m, o) /\ Len(s) <= Len(m)
        /\ Len(s) \in {0, 1} /\ \A i \in DOMAIN m : i > Len(s) => m[i].role # "system"
    BY <1>r, <1>types, <1>v, <2>1, SystemProperties, <1>0 DEF Types
  <2>3. \A i \in DOMAIN h : h[i].role = "system" => i = 1
    BY <2>2, RemainsRoles
  <2>4. msgs' = h /\ pc' = "truncate" /\ opts.chat_mode /\ opts' = opts
    BY <1>0, <1>u, <2>1 DEF Say, Modes
  <2> QED
    BY <2>3, <2>4 DEF Modes
<1>fresh. Fresh'
  BY <1>0 DEF Say, Fresh
<1>roles. Roles'
  BY <1>s, <1>v DEF Roles
<1>kept. Kept'
  BY DEF Kept, Say
<1>truncating. Truncating'
  <2>1. msgs' = history' /\ opts' = opts
    BY <1>u
  <2>2. Remains(System, msgs, said, opts)'
    BY <1>r, <1>s, <2>1
  <2>3. Asked(System, said)' /\ Len(msgs') > Len(System)
    BY <1>v, <1>w, <1>s, <2>1 DEF Asked
  <2> QED
    BY <1>s, <2>2, <2>3 DEF Truncating
<1>turn. Turn'
  BY <1>0, <1>s DEF Say, Turn
<1>failed. Failed'
  BY <1>0, <1>s DEF Say, Failed
<1>answer. Answer'
  BY <1>0 DEF Say, Answer
<1>printed. Printed'
  BY <1>0 DEF Say, Printed
<1> QED
  BY <1>types, <1>modes, <1>fresh, <1>roles, <1>kept, <1>truncating,
     <1>turn, <1>failed, <1>answer, <1>printed DEF ChatInv

\* Starting over with the system message.
LEMMA ResetKeeps ==
  ASSUME ChatInv, Reset
  PROVE  ChatInv'
<1>0. /\ Types /\ Modes /\ Fresh /\ Roles /\ Kept /\ Truncating
      /\ Turn /\ Failed /\ Answer /\ Printed
  BY DEF ChatInv
<1>s. System' = System
  BY SystemSame DEF Reset
<1>types. Types'
  BY <1>0, <1>s, SystemProperties DEF Reset, Types
<1>modes. Modes'
  BY <1>0 DEF Reset, Modes
<1>fresh. Fresh'
  BY <1>0 DEF Reset, Fresh
<1>roles. Roles'
  <2>1. Len(System) \in Nat /\ DOMAIN System = 1..Len(System)
    BY <1>0, SystemProperties, LenProperties
  <2>2. \A i \in DOMAIN System : ~(i > Len(System))
    BY <2>1
  <2>3. said' = System /\ Len(System) >= Len(System)
    BY <2>1 DEF Reset
  <2> QED
    BY <1>s, <2>2, <2>3 DEF Roles
<1>kept. Kept'
  <2>1. PICK s, o : s = System /\ o = opts
    OBVIOUS
  <2>2. Remains(s, s, s, o)
    BY <1>0, <2>1, SystemProperties, RemainsAll
  <2>3. history' = s /\ said' = s /\ System' = s /\ opts' = o
    BY <1>s, <2>1 DEF Reset
  <2> QED
    BY <2>2, <2>3 DEF Kept
<1>truncating. Truncating'
  BY <1>0, <1>s DEF Reset, Truncating
<1>turn. Turn'
  BY <1>0, <1>s DEF Reset, Turn
<1>failed. Failed'
  BY <1>0, <1>s DEF Reset, Failed
<1>answer. Answer'
  BY <1>0 DEF Reset, Answer
<1>printed. Printed'
  BY <1>0 DEF Reset, Printed
<1> QED
  BY <1>types, <1>modes, <1>fresh, <1>roles, <1>kept, <1>truncating,
     <1>turn, <1>failed, <1>answer, <1>printed DEF ChatInv

\* The context is full before the answer is complete.
LEMMA ContextFullKeeps ==
  ASSUME ChatInv, ContextFull
  PROVE  ChatInv'
<1>0. /\ Types /\ Modes /\ Fresh /\ Roles /\ Kept /\ Truncating
      /\ Turn /\ Failed /\ Answer /\ Printed
  BY DEF ChatInv
<1>s. System' = System
  BY SystemSame DEF ContextFull
<1>n. /\ opts.n_predict \in Nat /\ max_ctx \in Nat
      /\ Len(tokens) \in Nat /\ Len(gen) \in Nat
  <2>1. tokens \in Seq(Sym) /\ gen \in Seq(Token)
    BY <1>0 DEF Types
  <2> QED
    BY <1>0, <2>1, OptionTypes, LenProperties
<1>types. Types'
  BY <1>0 DEF ContextFull, Types
<1>modes. Modes'
  BY <1>0 DEF ContextFull, Modes
<1>fresh. Fresh'
  BY <1>0 DEF ContextFull, Fresh
<1>roles. Roles'
  BY <1>0, <1>s DEF ContextFull, Roles
<1>kept. Kept'
  BY <1>0, <1>s DEF ContextFull, Kept
<1>truncating. Truncating'
  BY <1>0, <1>s DEF ContextFull, Truncating
<1>turn. Turn'
  BY <1>0, <1>s DEF ContextFull, Turn
<1>failed. Failed'
  <2>1. pc = "decode" /\ Len(gen) < opts.n_predict /\ Len(tokens) + Len(gen) >= max_ctx
    BY DEF ContextFull
  <2>2. ~(Len(tokens) + opts.n_predict <= max_ctx)
    BY <1>n, <2>1
  <2>3. ~HasRoom(tokens)
    BY <2>2 DEF HasRoom
  <2>4. opts.chat_mode => history = Append(System, Last(said))
    BY <1>0, <2>1, <2>3, QuestionAlone
  <2>5. ~HasRoom(tokens)'
    BY <2>3 DEF HasRoom, ContextFull
  <2> QED
    BY <1>s, <2>4, <2>5 DEF Failed, ContextFull
<1>answer. Answer'
  BY <1>0 DEF ContextFull, Answer
<1>printed. Printed'
  BY <1>0 DEF ContextFull, Printed
<1> QED
  BY <1>types, <1>modes, <1>fresh, <1>roles, <1>kept, <1>truncating,
     <1>turn, <1>failed, <1>answer, <1>printed DEF ChatInv

\* One turn of the loop of encode_with_truncation.
LEMMA DropOldestKeeps ==
  ASSUME ChatInv, DropOldest
  PROVE  ChatInv'
<1>0. /\ Types /\ Modes /\ Fresh /\ Roles /\ Kept /\ Truncating
      /\ Turn /\ Failed /\ Answer /\ Printed
  BY DEF ChatInv
<1>s. System' = System
  BY SystemSame DEF DropOldest
<1>d. /\ Remains(System, msgs', said, opts) /\ Len(msgs') > Len(System)
      /\ msgs' \in Seq(Msg)
      /\ \A i \in DOMAIN msgs' : msgs'[i].role = "system" => i = 1
  <2>1. PICK s, l, m, o : s = System /\ l = msgs /\ m = said /\ o = opts
    OBVIOUS
  <2>2. pc = "truncate" /\ ~Enough(msgs) /\ msgs' = RemoveAt(msgs, SystemCount(msgs) + 1)
    BY DEF DropOldest
  <2>3. /\ SystemCount(msgs) = Len(System) /\ msgs \in Seq(Msg)
        /\ ~HasRoom(PromptOf(msgs, opts.enable_thinking)) /\ Len(msgs) # Len(System) + 1
    BY <2>2, TruncateFacts
  <2>4. /\ Remains(s, l, m, o) /\ Asked(s, m) /\ Len(l) > Len(s)
        /\ s \in Seq(Msg) /\ Len(s) \in {0, 1} /\ m \in Seq(Msg)
    BY <1>0, <2>1, <2>2, SystemProperties DEF Truncating, Types
  <2>5. Len(l) > Len(s) + 1
    <3>1. Len(l) \in Nat /\ Len(s) \in Nat /\ Len(l) # Len(s) + 1
      BY <2>1, <2>3, <2>4, LenProperties
    <3> QED
      BY <2>4, <3>1
  <2>6. Len(PromptOf(l, o.enable_thinking)) + o.n_predict > max_ctx
    <3>1. ~(Len(PromptOf(l, o.enable_thinking)) + o.n_predict <= max_ctx)
      BY <2>1, <2>3 DEF HasRoom
    <3>2. PromptOf(l, o.enable_thinking) \in Seq(Sym)
      BY <2>1, <2>3, PromptSplits
    <3>3. o.n_predict \in Nat /\ max_ctx \in Nat /\ Len(PromptOf(l, o.enable_thinking)) \in Nat
      BY <1>0, <2>1, <3>2, OptionTypes, LenProperties
    <3> QED
      BY <3>1, <3>3
  <2>7. PICK r : r = RemoveAt(l, Len(s) + 1)
    OBVIOUS
  <2>8. Remains(s, r, m, o) /\ Len(r) > Len(s)
    BY <2>4, <2>5, <2>6, <2>7, RemainsDrop
  <2>9. Len(s) <= Len(m) /\ \A i \in DOMAIN m : i > Len(s) => m[i].role # "system"
    <3>1. /\ Len(m) >= Len(s)
          /\ \A i \in DOMAIN m : i > Len(s) => m[i].role # "system"
      BY <1>0, <2>1, <2>2 DEF Roles, Modes
    <3>2. Len(s) \in Nat /\ Len(m) \in Nat
      BY <2>4, LenProperties
    <3> QED
      BY <3>1, <3>2
  <2>10. r \in Seq(Msg) /\ \A i \in DOMAIN r : r[i].role = "system" => i = 1
    BY <2>4, <2>8, <2>9, RemainsRoles
  <2>11. msgs' = r
    BY <2>1, <2>2, <2>3, <2>7
  <2> QED
    BY <2>1, <2>8, <2>10, <2>11
<1>types. Types'
  BY <1>0, <1>d DEF DropOldest, Types
<1>modes. Modes'
  <2>1. \A i \in DOMAIN msgs' : msgs'[i].role = "system" => i = 1
    BY <1>d
  <2> QED
    BY <1>0, <2>1 DEF DropOldest, Modes
<1>fresh. Fresh'
  BY <1>0 DEF DropOldest, Fresh
<1>roles. Roles'
  BY <1>0, <1>s DEF DropOldest, Roles
<1>kept. Kept'
  BY <1>0, <1>s DEF DropOldest, Kept
<1>truncating. Truncating'
  <2>1. Asked(System, said)
    BY <1>0 DEF Truncating, DropOldest
  <2>2. opts' = opts /\ said' = said
    BY DEF DropOldest
  <2> QED
    BY <1>s, <1>d, <2>1, <2>2 DEF Truncating
<1>turn. Turn'
  BY <1>0, <1>s DEF DropOldest, Turn
<1>failed. Failed'
  BY <1>0, <1>s DEF DropOldest, Failed
<1>answer. Answer'
  BY <1>0 DEF DropOldest, Answer
<1>printed. Printed'
  BY <1>0 DEF DropOldest, Printed
<1> QED
  BY <1>types, <1>modes, <1>fresh, <1>roles, <1>kept, <1>truncating,
     <1>turn, <1>failed, <1>answer, <1>printed DEF ChatInv

\* The prompt is what fits, or the question alone.
LEMMA TruncatedKeeps ==
  ASSUME ChatInv, Truncated
  PROVE  ChatInv'
<1>0. /\ Types /\ Modes /\ Fresh /\ Roles /\ Kept /\ Truncating
      /\ Turn /\ Failed /\ Answer /\ Printed
  BY DEF ChatInv
<1>s. System' = System
  BY SystemSame DEF Truncated
<1>t. /\ pc = "truncate" /\ pc' = "prefill" /\ history' = msgs /\ msgs \in Seq(Msg)
      /\ tokens' = PromptOf(msgs, opts.enable_thinking)
      /\ HasRoom(PromptOf(msgs, opts.enable_thinking)) \/ Len(msgs) = Len(System) + 1
      /\ opts' = opts /\ msgs' = msgs /\ gen' = gen /\ printed' = printed /\ said' = said
  <2>1. pc = "truncate" /\ (Renders(msgs) => Enough(msgs))
    BY DEF Truncated
  <2>2. /\ Renders(msgs) /\ msgs \in Seq(Msg)
        /\ Encode(Render(msgs)) = PromptOf(msgs, opts.enable_thinking)
        /\ Enough(msgs) <=> HasRoom(PromptOf(msgs, opts.enable_thinking))
                               \/ Len(msgs) = Len(System) + 1
    BY <2>1, TruncateFacts
  <2> QED
    BY <2>1, <2>2 DEF Truncated
<1>types. Types'
  <2>1. tokens' \in Seq(Sym)
    BY <1>t, PromptSplits
  <2> QED
    BY <1>0, <1>t, <2>1 DEF Types
<1>modes. Modes'
  BY <1>0, <1>s, <1>t DEF Modes
<1>fresh. Fresh'
  BY <1>0, <1>s, <1>t DEF Fresh
<1>roles. Roles'
  BY <1>0, <1>s, <1>t DEF Roles
<1>kept. Kept'
  <2>1. Remains(System, msgs, said, opts)
    BY <1>0, <1>t DEF Truncating
  <2> QED
    BY <1>s, <1>t, <2>1 DEF Kept
<1>truncating. Truncating'
  BY <1>t DEF Truncating
<1>turn. Turn'
  <2>1. Asked(System, said) /\ Len(msgs) > Len(System)
    BY <1>0, <1>t DEF Truncating
  <2>2. HasRoom(tokens)' \/ Len(msgs) = Len(System) + 1
    BY <1>t DEF HasRoom
  <2> QED
    BY <1>s, <1>t, <2>1, <2>2 DEF Turn
<1>failed. Failed'
  BY <1>t DEF Failed
<1>answer. Answer'
  BY <1>0, <1>s, <1>t DEF Answer
<1>printed. Printed'
  BY <1>0, <1>s, <1>t DEF Printed
<1> QED
  BY <1>types, <1>modes, <1>fresh, <1>roles, <1>kept, <1>truncating,
     <1>turn, <1>failed, <1>answer, <1>printed DEF ChatInv

\* A token joins the answer and what is printed of it.
LEMMA GenerateKeeps ==
  ASSUME ChatInv, NEW token \in Token, Generate(token)
  PROVE  ChatInv'
<1>0. /\ Types /\ Modes /\ Fresh /\ Roles /\ Kept /\ Truncating
      /\ Turn /\ Failed /\ Answer /\ Printed
  BY DEF ChatInv
<1>s. System' = System
  BY SystemSame DEF Generate
<1>n. /\ opts.n_predict \in Nat /\ max_ctx \in Nat /\ Len(tokens) \in Nat
      /\ Len(gen) \in Nat /\ gen \in Seq(Token) /\ DOMAIN gen = 1..Len(gen)
  <2>1. tokens \in Seq(Sym) /\ gen \in Seq(Token)
    BY <1>0 DEF Types
  <2> QED
    BY <1>0, <2>1, OptionTypes, LenProperties
<1>c. pc = "decode" /\ pc' \in {"answer", "decode"}
  BY DEF Generate
<1>g. /\ gen' \in Seq(Token) /\ Len(gen') = Len(gen) + 1 /\ gen'[Len(gen) + 1] = token
      /\ \A i \in 1..Len(gen) : gen'[i] = gen[i]
      /\ DOMAIN gen' = 1..(Len(gen) + 1)
      /\ printed' \in Seq(Sym)
  <2>1. PICK g : g = Append(gen, token)
    OBVIOUS
  <2>2. /\ g \in Seq(Token) /\ Len(g) = Len(gen) + 1 /\ g[Len(gen) + 1] = token
        /\ \A i \in 1..Len(gen) : g[i] = gen[i]
    BY <1>n, <2>1, AppendProperties
  <2>3. gen' = g /\ printed' = Push(g, printed)
    BY <2>1 DEF Generate
  <2>4. DOMAIN g = 1..(Len(gen) + 1)
    BY <2>2, LenProperties
  <2>5. Push(g, printed) \in Seq(Sym)
    <3>1. PICK f : f = Decode(gen)
      OBVIOUS
    <3>2. printed = SubSeq(f, 1, Available(f))
      BY <1>0, <3>1 DEF Printed
    <3>3. Push(g, SubSeq(f, 1, Available(f))) = SubSeq(Decode(g), 1, Available(Decode(g)))
      BY <1>n, <2>1, <3>1, PushStep
    <3>4. PICK n : n = Decode(g)
      OBVIOUS
    <3>5. n \in Seq(Sym) /\ Available(n) \in 0..Len(n)
      BY <2>2, <3>4, DecodeType, AvailableBounds
    <3>6. SubSeq(n, 1, Available(n)) \in Seq(Sym)
      BY <3>5, FrontPiece
    <3> QED
      BY <3>2, <3>3, <3>4, <3>6
  <2> QED
    BY <2>2, <2>3, <2>4, <2>5
<1>types. Types'
  <2>1. gen' \in Seq(Token) /\ printed' \in Seq(Sym)
    BY <1>g
  <2> QED
    BY <1>0, <1>c, <2>1 DEF Generate, Types
<1>modes. Modes'
  BY <1>0, <1>c DEF Generate, Modes
<1>fresh. Fresh'
  BY <1>c DEF Fresh
<1>roles. Roles'
  BY <1>0, <1>c, <1>s DEF Roles, Generate
<1>kept. Kept'
  BY <1>0, <1>c, <1>s DEF Kept, Generate
<1>truncating. Truncating'
  BY <1>c DEF Truncating
<1>turn. Turn'
  <2>1. opts' = opts /\ said' = said /\ history' = history /\ tokens' = tokens
    BY DEF Generate
  <2> QED
    BY <1>0, <1>c, <1>s, <2>1 DEF Turn, HasRoom
<1>failed. Failed'
  BY <1>c DEF Failed
<1>answer. Answer'
  <2>1. Len(gen') <= opts'.n_predict
    BY <1>c, <1>g, <1>n DEF Generate
  <2>2. \A i \in DOMAIN gen : gen[i] \notin stop_ids
    BY <1>0, <1>c DEF Answer
  <2>3. ASSUME NEW i \in DOMAIN gen', gen'[i] \in stop_ids
        PROVE  i = Len(gen') /\ token \in stop_ids
    <3>1. i \in 1..(Len(gen) + 1)
      BY <1>g
    <3>2. CASE i = Len(gen) + 1
      BY <1>g, <2>3, <3>2
    <3>3. CASE i # Len(gen) + 1
      <4>1. i \in 1..Len(gen) /\ DOMAIN gen = 1..Len(gen)
        BY <1>g, <1>n, <3>1, <3>3
      <4>2. gen'[i] = gen[i]
        BY <1>g, <4>1
      <4> QED
        BY <2>2, <2>3, <4>1, <4>2
    <3> QED
      BY <3>2, <3>3
  <2>4. Len(tokens') + Len(gen') <= max_ctx
    BY <1>g, <1>n DEF Generate
  <2>5. pc' = "decode" => token \notin stop_ids
    BY DEF Generate
  <2> QED
    BY <2>1, <2>3, <2>4, <2>5 DEF Answer
<1>printed. Printed'
  <2>1. PICK g, f : g = Append(gen, token) /\ f = Decode(gen)
    OBVIOUS
  <2>2. printed = SubSeq(f, 1, Available(f))
    BY <1>0, <2>1 DEF Printed
  <2>3. Push(g, SubSeq(f, 1, Available(f))) = SubSeq(Decode(g), 1, Available(Decode(g)))
    BY <1>n, <2>1, PushStep
  <2>4. printed' = Push(g, printed) /\ gen' = g
    BY <2>1 DEF Generate
  <2>5. printed' = SubSeq(Decode(g), 1, Available(Decode(g)))
    BY <2>2, <2>3, <2>4
  <2> QED
    BY <2>4, <2>5 DEF Printed
<1> QED
  BY <1>types, <1>modes, <1>fresh, <1>roles, <1>kept, <1>truncating,
     <1>turn, <1>failed, <1>answer, <1>printed DEF ChatInv

\* Nothing is shown of an answer that has no token.
LEMMA ShownOfNothing ==
  SubSeq(Decode(<<>>), 1, Available(Decode(<<>>))) = <<>>
<1>1. <<>> \in Seq(Token) /\ Len(<<>>) = 0 /\ <<>> \in Seq(Sym)
  BY EmptySeq
<1>2. Decode(<<>>) \in Seq(Sym) /\ Len(Decode(<<>>)) = 0
  <2>1. Decode(<<>>) = Marked(Text(<<>>))
    BY DEF Decode, Marked
  <2> QED
    BY <1>1, <2>1, TextEmpty, MarkedProperties
<1>3. Decode(<<>>) = <<>>
  BY <1>2, EmptySeq
<1>4. Available(<<>>) = 0
  BY <1>1 DEF Available
<1>5. SubSeq(<<>>, 1, 0) = <<>>
  BY SubSeqEmpty
<1> QED
  BY <1>3, <1>4, <1>5

\* The answer joins the conversation, which the prompt did not lengthen.
LEMMA EndTurnKeeps ==
  ASSUME ChatInv, EndTurn
  PROVE  ChatInv'
<1>0. /\ Types /\ Modes /\ Fresh /\ Roles /\ Kept /\ Truncating
      /\ Turn /\ Failed /\ Answer /\ Printed
  BY DEF ChatInv
<1>s. System' = System
  BY SystemSame DEF EndTurn
<1>u. /\ opts.chat_mode /\ pc \in {"answer", "decode"} /\ pc' = "read"
      /\ history' = Append(history, Message("assistant", Decode(gen)))
      /\ said' = Append(said, Message("assistant", Decode(gen)))
      /\ msgs' = <<>> /\ tokens' = <<>> /\ gen' = <<>> /\ printed' = <<>> /\ opts' = opts
      /\ Message("assistant", Decode(gen)) \in Msg
  <2>1. gen \in Seq(Token)
    BY <1>0 DEF Types
  <2>2. Decode(gen) \in Seq(Sym)
    BY <2>1, DecodeType
  <2>3. Message("assistant", Decode(gen)) \in Msg
    BY <2>2 DEF Message, Msg
  <2> QED
    BY <2>3 DEF EndTurn, Answered
<1>m. /\ System \in Seq(Msg) /\ said \in Seq(Msg) /\ history \in Seq(Msg)
      /\ Len(System) \in Nat /\ Len(said) \in Nat
      /\ Len(said) >= Len(System) /\ Remains(System, history, said, opts)
  BY <1>0, <1>u, SystemProperties, LenProperties DEF Types, Roles, Kept
<1>r. Remains(System, history', said', opts)
  <2>1. PICK s, h, m, o, x : s = System /\ h = history /\ m = said /\ o = opts
                               /\ x = Message("assistant", Decode(gen))
    OBVIOUS
  <2>2. s \in Seq(Msg) /\ m \in Seq(Msg) /\ x \in Msg /\ Remains(s, h, m, o) /\ Len(s) <= Len(m)
    BY <1>m, <1>u, <2>1
  <2>3. Remains(s, Append(h, x), Append(m, x), o)
    BY <2>2, RemainsAppend
  <2> QED
    BY <1>u, <2>1, <2>3
<1>v. /\ Len(said') >= Len(System)
      /\ \A i \in DOMAIN said' : i > Len(System) => said'[i].role # "system"
  <2>1. PICK x, m : x = Message("assistant", Decode(gen)) /\ m = Append(said, x)
    OBVIOUS
  <2>2. /\ m \in Seq(Msg) /\ Len(m) = Len(said) + 1 /\ m[Len(said) + 1] = x
        /\ \A i \in 1..Len(said) : m[i] = said[i]
    BY <1>m, <1>u, <2>1, AppendProperties
  <2>3. x.role = "assistant" /\ said' = m
    BY <1>u, <2>1 DEF Message
  <2>4. \A i \in 1..Len(said) : i > Len(System) => said[i].role # "system"
    BY <1>0, <1>m, <1>u, LenProperties DEF Roles
  <2>5. DOMAIN m = 1..(Len(said) + 1)
    BY <2>2, LenProperties
  <2>6. ASSUME NEW i \in DOMAIN m, i > Len(System)
        PROVE  m[i].role # "system"
    <3>1. CASE i = Len(said) + 1
      BY <2>2, <2>3, <3>1
    <3>2. CASE i # Len(said) + 1
      <4>1. i \in 1..Len(said)
        BY <1>m, <2>5, <3>2
      <4> QED
        BY <2>2, <2>4, <2>6, <4>1
    <3> QED
      BY <3>1, <3>2
  <2> QED
    BY <1>m, <2>2, <2>3, <2>6
<1>types. Types'
  <2>1. history' \in Seq(Msg) /\ said' \in Seq(Msg) /\ <<>> \in Seq(Msg) /\ <<>> \in Seq(Sym)
        /\ <<>> \in Seq(Token)
    BY <1>m, <1>u, AppendProperties, EmptySeq
  <2> QED
    BY <1>0, <1>u, <2>1 DEF Types
<1>modes. Modes'
  <2>1. DOMAIN msgs' = {}
    BY <1>u, EmptySeq
  <2> QED
    BY <1>u, <2>1 DEF Modes
<1>fresh. Fresh'
  BY <1>u DEF Fresh
<1>roles. Roles'
  BY <1>s, <1>v DEF Roles
<1>kept. Kept'
  BY <1>r, <1>s, <1>u DEF Kept
<1>truncating. Truncating'
  BY <1>u DEF Truncating
<1>turn. Turn'
  BY <1>u DEF Turn
<1>failed. Failed'
  BY <1>u DEF Failed
<1>answer. Answer'
  <2>1. Len(gen') = 0 /\ DOMAIN gen' = {}
    BY <1>u, EmptySeq
  <2>2. opts'.n_predict \in Nat
    BY <1>0, <1>u, OptionTypes
  <2> QED
    BY <1>u, <2>1, <2>2 DEF Answer
<1>printed. Printed'
  <2>1. SubSeq(Decode(<<>>), 1, Available(Decode(<<>>))) = <<>>
    BY ShownOfNothing
  <2> QED
    BY <1>u, <2>1 DEF Printed
<1> QED
  BY <1>types, <1>modes, <1>fresh, <1>roles, <1>kept, <1>truncating,
     <1>turn, <1>failed, <1>answer, <1>printed DEF ChatInv

\* The completion is done.
LEMMA EndCompletionKeeps ==
  ASSUME ChatInv, EndCompletion
  PROVE  ChatInv'
<1>0. /\ Types /\ Modes /\ Fresh /\ Roles /\ Kept /\ Truncating
      /\ Turn /\ Failed /\ Answer /\ Printed
  BY DEF ChatInv
<1>s. System' = System
  BY SystemSame DEF EndCompletion
<1>types. Types'
  BY <1>0 DEF EndCompletion, Answered, Types
<1>modes. Modes'
  BY <1>0 DEF EndCompletion, Answered, Modes
<1>fresh. Fresh'
  BY <1>0 DEF EndCompletion, Answered, Fresh
<1>roles. Roles'
  BY <1>0, <1>s DEF EndCompletion, Answered, Roles
<1>kept. Kept'
  BY <1>0, <1>s DEF EndCompletion, Answered, Kept
<1>truncating. Truncating'
  BY <1>0, <1>s DEF EndCompletion, Answered, Truncating
<1>turn. Turn'
  BY <1>0, <1>s DEF EndCompletion, Answered, Turn
<1>failed. Failed'
  BY <1>0, <1>s DEF EndCompletion, Answered, Failed
<1>answer. Answer'
  BY <1>0 DEF EndCompletion, Answered, Answer
<1>printed. Printed'
  BY <1>0 DEF EndCompletion, Answered, Printed
<1> QED
  BY <1>types, <1>modes, <1>fresh, <1>roles, <1>kept, <1>truncating,
     <1>turn, <1>failed, <1>answer, <1>printed DEF ChatInv

\* Nothing happens.
LEMMA StutterKeeps ==
  ASSUME ChatInv, UNCHANGED vars
  PROVE  ChatInv'
<1>0. /\ Types /\ Modes /\ Fresh /\ Roles /\ Kept /\ Truncating
      /\ Turn /\ Failed /\ Answer /\ Printed
  BY DEF ChatInv
<1>s. System' = System
  BY SystemSame DEF vars
<1>types. Types'
  BY <1>0, <1>s DEF vars, Types
<1>modes. Modes'
  BY <1>0, <1>s DEF vars, Modes
<1>fresh. Fresh'
  BY <1>0, <1>s DEF vars, Fresh
<1>roles. Roles'
  BY <1>0, <1>s DEF vars, Roles
<1>kept. Kept'
  BY <1>0, <1>s DEF vars, Kept
<1>truncating. Truncating'
  BY <1>0, <1>s DEF vars, Truncating
<1>turn. Turn'
  BY <1>0, <1>s DEF vars, Turn, HasRoom
<1>failed. Failed'
  BY <1>0, <1>s DEF vars, Failed, HasRoom
<1>answer. Answer'
  BY <1>0, <1>s DEF vars, Answer
<1>printed. Printed'
  BY <1>0, <1>s DEF vars, Printed
<1> QED
  BY <1>types, <1>modes, <1>fresh, <1>roles, <1>kept, <1>truncating,
     <1>turn, <1>failed, <1>answer, <1>printed DEF ChatInv

-----------------------------------------------------------------------------
(* The theorems.                                                           *)

LEMMA ChatInit ==
  ASSUME Init
  PROVE  ChatInv
<1>0. /\ pc = "start" /\ history = <<>> /\ msgs = <<>> /\ tokens = <<>>
      /\ gen = <<>> /\ printed = <<>> /\ said = <<>>
      /\ opts \in [chat_mode : BOOLEAN, system : SystemPrompts,
                   enable_thinking : BOOLEAN, n_predict : NPredict]
  BY DEF Init
<1>1. Types
  <2>1. /\ history \in Seq(Msg) /\ msgs \in Seq(Msg) /\ said \in Seq(Msg)
        /\ tokens \in Seq(Sym) /\ gen \in Seq(Token) /\ printed \in Seq(Sym)
    BY <1>0, EmptySeq
  <2> QED
    BY <1>0, <2>1 DEF Types
<1>2. Modes /\ Fresh
  BY <1>0, EmptySeq DEF Modes, Fresh
<1>3. Roles /\ Kept /\ Truncating /\ Turn /\ Failed
  BY <1>0 DEF Roles, Kept, Truncating, Turn, Failed
<1>4. Answer
  BY <1>0, <1>1, OptionTypes, EmptySeq DEF Answer
<1>5. Printed
  BY <1>0, ShownOfNothing DEF Printed
<1> QED
  BY <1>1, <1>2, <1>3, <1>4, <1>5 DEF ChatInv

LEMMA ChatStepKeeps ==
  ASSUME ChatInv, [Next]_vars
  PROVE  ChatInv'
<1>1. CASE StartChat
  BY <1>1, StartChatKeeps
<1>2. CASE \E prompt \in Prompts : StartCompletion(prompt)
  BY <1>2, StartCompletionKeeps
<1>3. CASE \E line \in Lines : Say(line)
  BY <1>3, SayKeeps
<1>4. CASE Reset
  BY <1>4, ResetKeeps
<1>5. CASE Quit \/ ReadFails
  BY <1>5, QuitKeeps
<1>6. CASE DropOldest
  BY <1>6, DropOldestKeeps
<1>7. CASE Truncated
  BY <1>7, TruncatedKeeps
<1>8. CASE PrefillTurn \/ PrefillCompletion
  BY <1>8, PrefillKeeps DEF PrefillTurn, PrefillCompletion
<1>9. CASE \E token \in Token : ChatStep(token) \/ CompletionStep(token)
  BY <1>9, GenerateKeeps DEF ChatStep, CompletionStep
<1>10. CASE ContextFull
  BY <1>10, ContextFullKeeps
<1>11. CASE EndTurn
  BY <1>11, EndTurnKeeps
<1>12. CASE EndCompletion
  BY <1>12, EndCompletionKeeps
<1>13. CASE UNCHANGED vars
  BY <1>13, StutterKeeps
<1> QED
  BY <1>1, <1>2, <1>3, <1>4, <1>5, <1>6, <1>7, <1>8, <1>9, <1>10, <1>11, <1>12, <1>13 DEF Next

\* The inductive invariant of the program run: what is kept of a conversation
\* is an end of it behind the system message, and every message that is lost
\* was lost because a prompt that began with it left no room for an answer.
THEOREM ChatInvariant == Spec => []ChatInv
<1>1. Init => ChatInv
  BY ChatInit
<1>2. ChatInv /\ [Next]_vars => ChatInv'
  BY ChatStepKeeps
<1> QED
  BY <1>1, <1>2, PTL DEF Spec

\* A conversation that is being truncated is still headed by its system message.
Headed == pc = "truncate" => \A i \in DOMAIN history : history[i].role = "system" => i = 1

\* The system message is the first of what is kept and of all that was said.
LEMMA SystemIsFirst ==
  ASSUME ChatInv, Headed
  PROVE  \A ms \in {history, msgs, said} : \A i \in DOMAIN ms : ms[i].role = "system" => i = 1
<1>0. Types /\ Modes /\ Roles /\ Kept
  BY DEF ChatInv
<1>1. PICK s, h, m, o : s = System /\ h = history /\ m = said /\ o = opts
  OBVIOUS
<1>2. s \in Seq(Msg) /\ Len(s) \in {0, 1} /\ m \in Seq(Msg) /\ DOMAIN m = 1..Len(m) /\ Len(m) \in Nat
  BY <1>0, <1>1, SystemProperties, LenProperties DEF Types
<1>3. \A i \in DOMAIN msgs : msgs[i].role = "system" => i = 1
  BY <1>0 DEF Modes
<1>4. CASE pc = "start" \/ ~opts.chat_mode
  <2>1. history = <<>> /\ said = <<>>
    BY <1>0, <1>4 DEF Modes
  <2> QED
    BY <1>3, <2>1, EmptySeq
<1>5. CASE pc # "start" /\ opts.chat_mode
  <2>1. Len(m) >= Len(s) /\ \A i \in DOMAIN m : i > Len(s) => m[i].role # "system"
    BY <1>0, <1>1, <1>5 DEF Roles
  <2>2. ASSUME NEW i \in DOMAIN m, m[i].role = "system"
        PROVE  i = 1
    <3>1. PICK b \in {0, 1} : b = Len(s)
      BY <1>2
    <3>2. ~(i > b)
      BY <2>1, <2>2, <3>1
    <3>3. i \in Nat /\ i >= 1
      BY <1>2, <2>2
    <3> QED
      BY <3>2, <3>3
  <2>3. \A i \in DOMAIN h : h[i].role = "system" => i = 1
    <3>1. CASE pc = "truncate"
      BY <1>1, <3>1 DEF Headed
    <3>2. CASE pc # "truncate"
      <4>1. pc \in {"read", "prefill", "decode", "answer", "done", "unread", "error"}
        BY <1>0, <1>5, <3>2 DEF Types
      <4>2. Remains(s, h, m, o)
        BY <1>0, <1>1, <1>5, <4>1 DEF Kept
      <4>3. Len(s) <= Len(m)
        BY <1>2, <2>1
      <4> QED
        BY <1>2, <2>1, <4>2, <4>3, RemainsRoles
    <3> QED
      BY <3>1, <3>2
  <2> QED
    BY <1>1, <1>3, <2>2, <2>3
<1> QED
  BY <1>4, <1>5

LEMMA HeadedKept ==
  ASSUME ChatInv, Headed, [Next]_vars
  PROVE  Headed'
<1>0. history \in Seq(Msg)
  BY DEF ChatInv, Types
<1>1. SUFFICES ASSUME pc' = "truncate"
               PROVE  \A i \in DOMAIN history' : history'[i].role = "system" => i = 1
  BY DEF Headed
<1>2. CASE \E line \in Lines : Say(line)
  <2>1. PICK line \in Lines : Say(line)
    BY <1>2
  <2>2. PICK h, x, more : h = history /\ x = Message("user", line) /\ more = Append(h, x)
    OBVIOUS
  <2>3. history' = more /\ x.role = "user" /\ h \in Seq(Msg)
    BY <1>0, <2>1, <2>2 DEF Say, Message
  <2>4. \A i \in DOMAIN h : h[i].role = "system" => i = 1
    BY <2>2, SystemIsFirst
  <2>5. line \in Seq(Sym)
    <3>1. line \in Seq(Char)
      BY TextAssumption
    <3>2. Char \subseteq Sym
      BY DEF Sym
    <3> QED
      BY <3>1, <3>2, SeqMonotonic
  <2>6. x \in Msg
    BY <2>2, <2>5 DEF Message, Msg
  <2>7. /\ DOMAIN h = 1..Len(h) /\ Len(h) \in Nat
        /\ DOMAIN more = 1..(Len(h) + 1) /\ more[Len(h) + 1] = x
        /\ \A i \in 1..Len(h) : more[i] = h[i]
    <3>1. more \in Seq(Msg) /\ Len(more) = Len(h) + 1
      BY <2>2, <2>3, <2>6, AppendProperties
    <3> QED
      BY <2>2, <2>3, <2>6, <3>1, LenProperties, AppendProperties
  <2> QED
    BY <2>3, <2>4, <2>7
<1>3. CASE DropOldest \/ UNCHANGED vars
  <2>1. pc' = pc /\ history' = history
    BY <1>3 DEF DropOldest, vars
  <2> QED
    BY <1>1, <2>1 DEF Headed
<1>4. CASE ~(DropOldest \/ UNCHANGED vars) /\ ~\E line \in Lines : Say(line)
  <2>1. CASE Reset \/ PrefillTurn \/ PrefillCompletion
    BY <1>1, <2>1 DEF Reset, PrefillTurn, PrefillCompletion, Prefill
  <2>2. CASE StartChat \/ Quit \/ ReadFails \/ ContextFull \/ EndTurn \/ EndCompletion
    BY <1>1, <2>2 DEF StartChat, Quit, ReadFails, ContextFull, EndTurn, EndCompletion
  <2>3. CASE \E prompt \in Prompts : StartCompletion(prompt)
    BY <1>1, <2>3 DEF StartCompletion
  <2>4. CASE \E token \in Token : ChatStep(token) \/ CompletionStep(token)
    BY <1>1, <2>4 DEF ChatStep, CompletionStep, Generate
  <2>5. CASE Truncated
    BY <1>1, <2>5 DEF Truncated
  <2> QED
    BY <1>4, <2>1, <2>2, <2>3, <2>4, <2>5 DEF Next
<1> QED
  BY <1>2, <1>3, <1>4

\* The shape of every turn (TypeOK): an answer is no longer than was asked for
\* and only its end is a stop token, no state consumes more than the context
\* length, and a conversation has no system message but its first.
THEOREM ChatTypeOK == Spec => []TypeOK
<1>1. Init => Headed
  BY DEF Init, Headed
<1>2. ChatInv /\ Headed /\ [Next]_vars => Headed'
  BY HeadedKept
<1>3. ChatInv /\ Headed => TypeOK
  BY SystemIsFirst DEF ChatInv, Types, Answer, TypeOK
<1> QED
  BY <1>1, <1>2, <1>3, ChatInvariant, PTL DEF Spec

LEMMA KeptIsLongest ==
  ASSUME ChatInv
  PROVE  LongestEndThatFits
<1>0. Types /\ Kept /\ Turn /\ Roles
  BY DEF ChatInv
<1>1. SUFFICES ASSUME opts.chat_mode, InTurn
               PROVE  LET sys == Len(System)
                          dropped == Len(said) - Len(history)
                          End(n) == System \o SubSeq(said, sys + n + 1, Len(said))
                      IN /\ dropped \in 0..(Len(said) - sys - 1)
                         /\ history = End(dropped)
                         /\ tokens = Encode(Render(history))
                         /\ HasRoom(tokens) \/ Len(history) = sys + 1
                         /\ dropped > 0 => ~HasRoom(Encode(Render(End(dropped - 1))))
  BY DEF LongestEndThatFits
<1>2. PICK s, h, m, o : s = System /\ h = history /\ m = said /\ o = opts
  OBVIOUS
<1>3. /\ pc \in {"prefill", "decode", "answer"} /\ Remains(s, h, m, o)
      /\ Asked(s, m) /\ Len(h) > Len(s)
      /\ tokens = PromptOf(h, o.enable_thinking)
      /\ HasRoom(tokens) \/ Len(h) = Len(s) + 1
  BY <1>0, <1>1, <1>2 DEF InTurn, Turn, Kept
<1>4. s \in Seq(Msg) /\ m \in Seq(Msg) /\ h \in Seq(Msg)
  BY <1>0, <1>2, SystemProperties DEF Types
<1>5. PICK l \in Nat, a \in Nat : l = Len(m) /\ a = Len(s)
  BY <1>4, LenProperties
<1>6. l > a /\ m[l].role = "user"
  BY <1>3, <1>5 DEF Asked
<1>7. PICK n \in 0..(l - a) :
        /\ h = Rest(s, m, n, l) /\ Lost(s, m, n, o) /\ Len(h) = l - n
        /\ \A i \in 1..Len(h) : h[i] = IF i <= Len(s) THEN s[i] ELSE m[i + n]
  <2>1. Len(s) <= Len(m)
    BY <1>5, <1>6
  <2>2. PICK n \in 0..(Len(m) - Len(s)) :
           /\ h = Rest(s, m, n, Len(m)) /\ Lost(s, m, n, o)
           /\ h \in Seq(Msg) /\ Len(h) = Len(m) - n
           /\ \A i \in 1..Len(h) : h[i] = IF i <= Len(s) THEN s[i] ELSE m[i + n]
    BY <1>3, <1>4, <2>1, RemainsProperties
  <2> QED
    BY <1>5, <2>2
<1>8. n \in Nat /\ n <= l - a - 1 /\ n = l - (l - n) /\ l - n \in Nat /\ l - n > a
  <2>1. l - n > a
    BY <1>3, <1>5, <1>7
  <2> QED
    BY <1>7, <2>1
<1>9. \A q \in 0..n : Encode(Render(Rest(s, m, q, l))) = PromptOf(Rest(s, m, q, l), o.enable_thinking)
  <2>1. SUFFICES ASSUME NEW q \in 0..n
                 PROVE  Encode(Render(Rest(s, m, q, l))) = PromptOf(Rest(s, m, q, l), o.enable_thinking)
    OBVIOUS
  <2>2. PICK ms : ms = Rest(s, m, q, l)
    OBVIOUS
  <2>3. q \in Nat /\ a + q <= l /\ l \in 0..l /\ l - q > a /\ l - q \in 1..(l - q) /\ (l - q) + q = l
    BY <1>8
  <2>4. /\ ms \in Seq(Msg) /\ Len(ms) = l - q
        /\ \A i \in 1..(l - q) : ms[i] = IF i <= Len(s) THEN s[i] ELSE m[i + q]
    <3>1. l \in 0..Len(m) /\ Len(s) + q <= l
      BY <1>5, <2>3
    <3> QED
      BY <1>4, <2>2, <2>3, <3>1, RestProperties
  <2>5. ms[l - q] = m[l]
    <3>1. ~(l - q <= Len(s))
      BY <1>5, <2>3
    <3> QED
      BY <2>3, <2>4, <3>1
  <2>6. Len(ms) > 0 /\ ms[Len(ms)].role = "user"
    BY <1>6, <2>3, <2>4, <2>5
  <2> QED
    BY <1>2, <2>2, <2>4, <2>6, RenderIsPrompt
<1>10. ASSUME n > 0
       PROVE  ~HasRoom(PromptOf(Rest(s, m, n - 1, l), o.enable_thinking))
  <2>1. PICK k \in (Len(s) + n + 1)..Len(m) :
               /\ m[k].role = "user"
               /\ Len(PromptOf(Rest(s, m, n - 1, k), o.enable_thinking)) + o.n_predict > max_ctx
    BY <1>7, <1>10 DEF Lost
  <2>2. PICK q : q = n - 1
    OBVIOUS
  <2>3. q \in Nat /\ k \in 0..l /\ a + q <= k
    BY <1>5, <1>8, <1>10, <2>1, <2>2
  <2>4. PICK more \in Seq(Msg) : Rest(s, m, q, l) = Rest(s, m, q, k) \o more
    BY <1>4, <1>5, <2>3, RestLonger
  <2>5. Rest(s, m, q, k) \in Seq(Msg)
    BY <1>4, <1>5, <2>3, RestProperties
  <2>6. Len(PromptOf(Rest(s, m, q, k), o.enable_thinking)) <= Len(PromptOf(Rest(s, m, q, l), o.enable_thinking))
    BY <2>4, <2>5, PromptGrows
  <2>7. /\ Len(PromptOf(Rest(s, m, q, k), o.enable_thinking)) \in Nat
        /\ Len(PromptOf(Rest(s, m, q, l), o.enable_thinking)) \in Nat
    <3>1. Rest(s, m, q, l) \in Seq(Msg)
      BY <2>4, <2>5, ConcatProperties
    <3> QED
      BY <2>5, <3>1, PromptSplits, LenProperties
  <2>8. max_ctx \in Nat /\ o.n_predict \in Nat
    BY <1>0, <1>2, OptionTypes
  <2>9. Len(PromptOf(Rest(s, m, q, l), o.enable_thinking)) + o.n_predict > max_ctx
    <3>1. PICK x \in Nat, y \in Nat, p \in Nat, c \in Nat :
            /\ x = Len(PromptOf(Rest(s, m, q, k), o.enable_thinking))
            /\ y = Len(PromptOf(Rest(s, m, q, l), o.enable_thinking))
            /\ p = o.n_predict /\ c = max_ctx
      BY <2>7, <2>8
    <3>2. x <= y /\ x + p > c
      BY <2>1, <2>2, <2>6, <3>1
    <3>3. y + p > c
      BY <3>2
    <3> QED
      BY <3>1, <3>3
  <2> QED
    BY <1>2, <2>2, <2>7, <2>8, <2>9 DEF HasRoom
<1>11. Len(m) - Len(h) = n
  BY <1>5, <1>7, <1>8
<1> DEFINE E(i) == s \o SubSeq(m, a + i + 1, l)
<1>12. \A i : E(i) = Rest(s, m, i, l)
  BY <1>5 DEF Rest
<1>13. /\ n \in 0..(l - a - 1) /\ h = E(n)
       /\ tokens = Encode(Render(h))
       /\ HasRoom(tokens) \/ Len(h) = a + 1
       /\ n > 0 => ~HasRoom(Encode(Render(E(n - 1))))
  <2>1. n \in 0..(l - a - 1)
    BY <1>8
  <2>2. tokens = Encode(Render(h))
    <3>1. n \in 0..n
      BY <1>8
    <3> QED
      BY <1>3, <1>7, <1>9, <3>1
  <2>3. n > 0 => n - 1 \in 0..n
    BY <1>8
  <2> HIDE DEF E
  <2>4. n > 0 => ~HasRoom(Encode(Render(E(n - 1))))
    BY <1>9, <1>10, <1>12, <2>3
  <2> QED
    BY <1>3, <1>5, <1>7, <1>12, <2>1, <2>2, <2>4
<1> QED
  BY <1>2, <1>5, <1>11, <1>13

\* Truncation over any number of turns (LongestEndThatFits): what a turn asks
\* the model is the longest end of all that was said that leaves room for an
\* answer, behind the system message, or the question alone.
THEOREM ChatLongestEndThatFits == Spec => []LongestEndThatFits
<1>1. ChatInv => LongestEndThatFits
  BY KeptIsLongest
<1> QED
  BY <1>1, ChatInvariant, PTL

\* The program ends with an error only if one message, or the prompt of a
\* completion, leaves no room for its answer (FailsOnlyWithoutRoom): the
\* conversation never grows into an error.
THEOREM ChatFailsOnlyWithoutRoom == Spec => []FailsOnlyWithoutRoom
<1>1. ChatInv => FailsOnlyWithoutRoom
  BY DEF ChatInv, Failed, FailsOnlyWithoutRoom
<1> QED
  BY <1>1, ChatInvariant, PTL
LEMMA PrintedIsPrefix ==
  ASSUME ChatInv
  PROVE  Streamed
<1>1. PICK full : full = Decode(gen)
  OBVIOUS
<1>2. full \in Seq(Sym) /\ printed = SubSeq(full, 1, Available(full))
  BY <1>1, DecodeType DEF ChatInv, Types, Printed
<1>3. PICK l \in Nat, n \in Nat : l = Len(full) /\ n = Available(full) /\ n <= l /\ l - 1 <= n
  BY <1>2, LenProperties, AvailableBounds
<1>4. n < l => full[l] = FFFD
  BY <1>2, <1>3, AvailableBounds
<1>5. /\ printed \in Seq(Sym) /\ Len(printed) = n
      /\ \A i \in 1..n : printed[i] = full[i]
  <2>1. n \in 0..Len(full)
    BY <1>3
  <2> QED
    BY <1>2, <1>3, <2>1, FrontPiece
<1>6. IsPrefix(printed, full)
  <2>1. SubSeq(printed, 1, n) = printed
    BY <1>5, SubSeqFull
  <2> QED
    BY <1>2, <1>3, <1>5, <2>1 DEF IsPrefix
<1>7. CASE n = l
  <2>1. printed = full
    BY <1>2, <1>3, <1>7, SubSeqFull
  <2> QED
    BY <1>1, <1>6, <2>1 DEF Streamed
<1>8. CASE n # l
  <2>1. n + 1 = l /\ n < l
    BY <1>3, <1>8
  <2>2. FFFD \in Sym
    BY DEF Sym
  <2>3. PICK w : w = Append(printed, FFFD)
    OBVIOUS
  <2>4. /\ w \in Seq(Sym) /\ Len(w) = l /\ w[l] = FFFD
        /\ \A i \in 1..n : w[i] = printed[i]
    BY <1>5, <2>1, <2>2, <2>3, AppendProperties
  <2>5. \A i \in 1..l : i \in 1..n \/ i = l
    BY <2>1
  <2>6. \A i \in 1..l : w[i] = full[i]
    BY <1>4, <1>5, <2>1, <2>4, <2>5
  <2>7. w = full
    BY <1>2, <1>3, <2>4, <2>6, SeqEqual
  <2> QED
    BY <1>1, <1>6, <2>3, <2>7 DEF Streamed
<1> QED
  BY <1>7, <1>8

\* What stdout has shown of an answer is its beginning, and lacks at most a
\* last character whose bytes are not complete (Streamed), for any tokens and
\* however the bytes of characters follow each other.
THEOREM ChatStreamed == Spec => []Streamed
<1>1. ChatInv => Streamed
  BY PrintedIsPrefix
<1> QED
  BY <1>1, ChatInvariant, PTL

\* The texts that ReasoningDropped puts in place of the messages are those
\* that render_chat shows.
LEMMA PromptShows ==
  ASSUME ChatInv
  PROVE  ReasoningDropped
<1>1. SUFFICES ASSUME opts.chat_mode, InTurn
               PROVE  tokens = Showing([i \in DOMAIN history |->
                                 IF history[i].role = "assistant" THEN Behind(history[i].content)
                                 ELSE history[i].content])
  BY DEF ReasoningDropped
<1>2. PICK t : t = opts.enable_thinking
  OBVIOUS
<1>3. tokens = PromptOf(history, t) /\ history \in Seq(Msg)
  BY <1>1, <1>2 DEF ChatInv, InTurn, Turn, Types
<1> DEFINE text(i) == IF history[i].role = "assistant" THEN Behind(history[i].content)
                      ELSE history[i].content
           texts == [i \in DOMAIN history |-> text(i)]
           marked(i) == <<history[i].role>> \o texts[i] \o <<"<|im_end|>">>
<1>4. ASSUME NEW i \in DOMAIN history
      PROVE  marked(i) = Shown(history[i])
  <2>1. history[i].content \in Seq(Sym)
    <3>1. i \in 1..Len(history)
      BY <1>3, LenProperties
    <3> QED
      BY <1>3, <3>1, Contents
  <2>2. Body(history[i].content) = Behind(history[i].content)
    BY <2>1, BodyIsBehind
  <2>3. texts[i] = IF history[i].role # "assistant" THEN history[i].content
                   ELSE Body(history[i].content)
    BY <2>2
  <2> QED
    BY <2>3 DEF Shown
<1>5. [i \in DOMAIN texts |-> marked(i)] = ShownAll(history)
  <2>1. DOMAIN texts = DOMAIN history
    OBVIOUS
  <2> HIDE DEF marked, texts
  <2> QED
    BY <1>4, <2>1 DEF ShownAll
<1>6. Showing(texts) = Encode((FlattenSeq([i \in DOMAIN texts |-> marked(i)])
                                 \o <<"assistant", "<think>">>)
                                \o (IF t THEN <<>> ELSE <<"</think>">>))
  BY <1>2 DEF Showing
<1>7. Showing(texts) = PromptOf(history, t)
  <2> HIDE DEF marked, texts
  <2> QED
    BY <1>3, <1>5, <1>6, PromptEnds
<1> QED
  BY <1>3, <1>7

\* A prompt shows every message in its place, whole but for what an earlier
\* answer said up to its last </think> (ReasoningDropped), for conversations
\* of any length whose texts hold the mark anywhere, any number of times or
\* not at all.
THEOREM ChatReasoningDropped == Spec => []ReasoningDropped
<1>1. ChatInv => ReasoningDropped
  BY PromptShows
<1> QED
  BY <1>1, ChatInvariant, PTL
=============================================================================
