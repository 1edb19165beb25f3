------------------------ MODULE GenerationStateProofs ------------------------
(***************************************************************************)
(* For every vocabulary, model shape and context length: the inductive     *)
(* invariant IInv, and from it type correctness, the alignment of the      *)
(* caches, the exactness of the state, and the refinement of TokenContext. *)
(*                                                                         *)
(* The order is bottom-up: sequences of tokens; what one layer does to     *)
(* reference activations (AbsorbExact, AttendExact); one lemma per action  *)
(* of Next, with what the action changes stated apart (...Frame, ...Rows,  *)
(* ...Facts) from what that preserves; the theorems.                       *)
(***************************************************************************)
EXTENDS GenerationStateInv, SequenceTheorems, TLAPS

-----------------------------------------------------------------------------
(* Sequences of tokens.                                                    *)

LEMMA PrefixType ==
  ASSUME NEW s \in Contexts, NEW k \in 0..Len(s)
  PROVE  /\ SubSeq(s, 1, k) \in Contexts
         /\ Len(SubSeq(s, 1, k)) = k
         /\ \A i \in 1..k : SubSeq(s, 1, k)[i] = s[i]
<1>1. \A i \in 1..k : s[i] \in Token
  BY DEF Contexts
<1>2. k \in Int /\ 1 \in Int /\ k - 1 + 1 = k
  BY DEF Contexts
<1> QED
  BY <1>1, <1>2, SubSeqProperties DEF Contexts

LEMMA ConcatType ==
  ASSUME NEW a \in Contexts, NEW b \in Contexts
  PROVE  /\ a \o b \in Contexts
         /\ Len(a \o b) = Len(a) + Len(b)
         /\ Len(a) \in Nat /\ Len(b) \in Nat
         /\ \A i \in 1..Len(a) : (a \o b)[i] = a[i]
         /\ \A i \in 1..Len(b) : (a \o b)[Len(a) + i] = b[i]
BY ConcatProperties DEF Contexts

\* A prefix of a prefix, and a prefix of the first of two sequences.
LEMMA PrefixOfConcat ==
  ASSUME NEW a \in Contexts, NEW b \in Contexts, NEW k \in 0..Len(a)
  PROVE  SubSeq(a \o b, 1, k) = SubSeq(a, 1, k)
<1>1. k \in 0..Len(a \o b)
  BY ConcatType
<1> DEFINE x == SubSeq(a \o b, 1, k)
           y == SubSeq(a, 1, k)
<1>2. x \in Contexts /\ Len(x) = k /\ \A i \in 1..k : x[i] = (a \o b)[i]
  BY <1>1, PrefixType, ConcatType
<1>3. y \in Contexts /\ Len(y) = k /\ \A i \in 1..k : y[i] = a[i]
  BY PrefixType
<1>4. \A i \in 1..k : (a \o b)[i] = a[i]
  BY ConcatType
<1>5. \A i \in 1..Len(x) : x[i] = y[i]
  BY <1>2, <1>3, <1>4
<1> HIDE DEF x, y
<1>6. x = y
  BY <1>2, <1>3, <1>5, SeqEqual DEF Contexts
<1> QED
  BY <1>6 DEF x, y

LEMMA PrefixOfPrefix ==
  ASSUME NEW s \in Contexts, NEW n \in 0..Len(s), NEW k \in 0..n
  PROVE  SubSeq(SubSeq(s, 1, n), 1, k) = SubSeq(s, 1, k)
<1> DEFINE a == SubSeq(s, 1, n)
           x == SubSeq(a, 1, k)
           y == SubSeq(s, 1, k)
<1>1. a \in Contexts /\ Len(a) = n /\ \A i \in 1..n : a[i] = s[i]
  BY PrefixType
<1>2. k \in 0..Len(s) /\ n \in Nat
  BY DEF Contexts
<1>3. y \in Contexts /\ Len(y) = k /\ \A i \in 1..k : y[i] = s[i]
  BY <1>2, PrefixType
<1> HIDE DEF a
<1>4. x \in Contexts /\ Len(x) = k /\ \A i \in 1..k : x[i] = a[i]
  BY <1>1, PrefixType
<1> HIDE DEF x, y
<1>5. \A i \in 1..Len(x) : x[i] = y[i]
  BY <1>1, <1>2, <1>3, <1>4
<1>6. x = y
  BY <1>3, <1>4, <1>5, SeqEqual DEF Contexts
<1> QED
  BY <1>6 DEF a, x, y

LEMMA PrefixFull ==
  ASSUME NEW s \in Contexts
  PROVE  SubSeq(s, 1, Len(s)) = s
BY SubSeqFull DEF Contexts

LEMMA PrefixAppend ==
  ASSUME NEW s \in Contexts, NEW k \in Nat, k < Len(s)
  PROVE  Append(SubSeq(s, 1, k), s[k + 1]) = SubSeq(s, 1, k + 1)
<1> DEFINE x == SubSeq(s, 1, k)
           y == SubSeq(s, 1, k + 1)
<1>0. Len(s) \in Nat /\ k \in 0..Len(s) /\ k + 1 \in 0..Len(s) /\ s[k + 1] \in Token
  BY DEF Contexts
<1>1. x \in Contexts /\ Len(x) = k /\ \A i \in 1..k : x[i] = s[i]
  BY <1>0, PrefixType
<1>2. y \in Contexts /\ Len(y) = k + 1 /\ \A i \in 1..(k + 1) : y[i] = s[i]
  BY <1>0, PrefixType
<1> HIDE DEF x, y
<1> DEFINE z == Append(x, s[k + 1])
<1>3. z \in Contexts /\ Len(z) = k + 1 /\ (\A i \in 1..k : z[i] = s[i]) /\ z[k + 1] = s[k + 1]
  BY <1>0, <1>1, AppendProperties DEF Contexts
<1>4. \A i \in 1..Len(z) : z[i] = y[i]
  BY <1>2, <1>3
<1> HIDE DEF z
<1>5. z = y
  BY <1>2, <1>3, <1>4, SeqEqual DEF Contexts
<1> QED
  BY <1>5 DEF x, y, z

LEMMA SubSeqType ==
  ASSUME NEW s \in Contexts, NEW m \in 1..(Len(s) + 1), NEW n \in 0..Len(s)
  PROVE  /\ SubSeq(s, m, n) \in Contexts
         /\ Len(SubSeq(s, m, n)) = IF m <= n THEN n - m + 1 ELSE 0
<1>1. \A i \in m..n : s[i] \in Token
  BY DEF Contexts
<1>2. m \in Int /\ n \in Int
  BY DEF Contexts
<1> QED
  BY <1>1, <1>2, SubSeqProperties DEF Contexts

-----------------------------------------------------------------------------
(* Layers over a context: what reads the reference writes the reference.   *)

LEMMA InputType ==
  ASSUME NEW l \in Nat, NEW s \in Contexts, NEW i \in 1..Len(s)
  PROVE  /\ Input(l, s, i) \in Contexts
         /\ Len(Input(l, s, i)) \in Nat \ {0}
         /\ LastTok(Input(l, s, i)) = s[i]
<1>1. s[i] \in Token /\ i \in 0..Len(s) /\ i \in 1..i /\ i \in Nat
  BY DEF Contexts
<1>2. CASE l = 0
  BY <1>1, <1>2 DEF Input, LastTok, Contexts
<1>3. CASE l # 0
  <2>1. Input(l, s, i) = SubSeq(s, 1, i)
    BY <1>3 DEF Input
  <2> QED
    BY <2>1, <1>1, PrefixType DEF LastTok
<1> QED
  BY <1>2, <1>3

LEMMA InputPrefix ==
  ASSUME NEW l \in Nat, NEW a \in Contexts, NEW b \in Contexts, NEW i \in 1..Len(a)
  PROVE  /\ Input(l, a \o b, i) = Input(l, a, i)
         /\ RefRow(l, a \o b, i) = RefRow(l, a, i)
<1>1. (a \o b)[i] = a[i]
  BY ConcatType
<1>2. i \in 0..Len(a)
  BY DEF Contexts
<1>3. SubSeq(a \o b, 1, i) = SubSeq(a, 1, i)
  BY <1>2, PrefixOfConcat
<1> QED
  BY <1>1, <1>3 DEF Input, RefRow

LEMMA InputOfPrefix ==
  ASSUME NEW l \in Nat, NEW s \in Contexts, NEW k \in 1..Len(s), NEW i \in 1..k
  PROVE  /\ Input(l, SubSeq(s, 1, k), i) = Input(l, s, i)
         /\ RefRow(l, SubSeq(s, 1, k), i) = RefRow(l, s, i)
<1>1. Len(s) \in Nat /\ k \in 0..Len(s) /\ k + 1 \in 1..(Len(s) + 1) /\ Len(s) \in 0..Len(s)
  BY DEF Contexts
<1> DEFINE a == SubSeq(s, 1, k)
           b == SubSeq(s, k + 1, Len(s))
<1>2. a \in Contexts /\ Len(a) = k
  BY <1>1, PrefixType
<1>3. b \in Contexts
  BY <1>1, SubSeqType
<1>4. a \o b = s
  <2>1. SubSeq(s, 1, k) \o SubSeq(s, k + 1, Len(s)) = SubSeq(s, 1, Len(s))
    <3>1. 1 \in 1..(Len(s) + 1) /\ k \in (1 - 1)..Len(s) /\ Len(s) \in k..Len(s)
      BY <1>1
    <3> QED
      BY <3>1, ConcatAdjacentSubSeq DEF Contexts
  <2> QED
    BY <2>1, PrefixFull
<1> HIDE DEF a, b
<1>5. i \in 1..Len(a)
  BY <1>2
<1>6. Input(l, a \o b, i) = Input(l, a, i) /\ RefRow(l, a \o b, i) = RefRow(l, a, i)
  BY <1>2, <1>3, <1>5, InputPrefix
<1> QED
  BY <1>4, <1>6 DEF a

LEMMA AbsorbExact ==
  ASSUME NEW l \in Nat, NEW s \in Contexts, NEW k \in Nat, k < Len(s)
  PROVE  Absorb(l, SubSeq(s, 1, k), Input(l, s, k + 1)) = SubSeq(s, 1, k + 1)
<1>0. Len(s) \in Nat /\ k + 1 \in 1..Len(s) /\ k + 1 \in 1..(k + 1) /\ k + 1 \in 0..Len(s)
         /\ k \in 0..Len(s)
  BY DEF Contexts
<1> DEFINE c == SubSeq(s, 1, k)
           x == Input(l, s, k + 1)
           z == SubSeq(s, 1, k + 1)
<1>1. c \in Contexts /\ x \in Contexts /\ LastTok(x) = s[k + 1]
  BY <1>0, PrefixType, InputType
<1>2. c # Wrong /\ x # Wrong
  BY <1>1, WrongAssumption
<1>3. Append(c, LastTok(x)) = z
  BY <1>1, PrefixAppend
<1>4. z \in Contexts /\ Len(z) = k + 1
  BY <1>0, PrefixType
<1>5. Input(l, z, k + 1) = x
  BY <1>0, InputOfPrefix
<1> HIDE DEF c, x, z
<1>6. Absorb(l, c, x) = z
  BY <1>2, <1>3, <1>4, <1>5 DEF Absorb
<1> QED
  BY <1>6 DEF c, x, z

LEMMA AbsorbType ==
  ASSUME NEW l \in Nat, NEW c \in Value, NEW x \in Value
  PROVE  Absorb(l, c, x) \in Value
<1>1. CASE c = Wrong \/ x = Wrong
  BY <1>1 DEF Absorb, Value
<1>2. CASE c # Wrong /\ x # Wrong
  <2>1. c \in Contexts /\ x \in Contexts
    BY <1>2 DEF Value
  <2> DEFINE s == Append(c, LastTok(x))
  <2>2. CASE x # Input(l, s, Len(s))
    BY <1>2, <2>2 DEF Absorb, Value
  <2>3. CASE x = Input(l, s, Len(s))
    <3>0. c \in Seq(Token \cup {LastTok(x)}) /\ LastTok(x) \in Token \cup {LastTok(x)}
      BY <2>1, SeqMonotonic DEF Contexts
    <3>1. s \in Seq(Token \cup {LastTok(x)}) /\ Len(s) = Len(c) + 1 /\ Len(c) \in Nat
      BY <3>0, <2>1, AppendProperties DEF Contexts
    <3> HIDE DEF s
    <3>2. Len(x) \in Nat \ {0}
      <4>1. CASE l = 0
        BY <4>1, <2>3 DEF Input
      <4>2. CASE l # 0
        <5>1. x = SubSeq(s, 1, Len(s))
          BY <4>2, <2>3 DEF Input
        <5>2. SubSeq(s, 1, Len(s)) = s
          BY <3>1, SubSeqFull
        <5> QED
          BY <5>1, <5>2, <3>1
      <4> QED
        BY <4>1, <4>2
    <3>3. LastTok(x) \in Token
      BY <2>1, <3>2 DEF LastTok, Contexts
    <3>4. s \in Contexts
      BY <2>1, <3>3, AppendProperties DEF s, Contexts
    <3>5. Absorb(l, c, x) = s
      BY <1>2, <2>3 DEF Absorb, s
    <3> QED
      BY <3>4, <3>5 DEF Value
  <2> QED
    BY <2>2, <2>3
<1> QED
  BY <1>1, <1>2

LEMMA AttendExact ==
  ASSUME NEW l \in Nat, NEW s \in Contexts, NEW m \in 1..Len(s), NEW rws,
         \A i \in 1..m : rws[i] = RefRow(l, s, i)
  PROVE  Attend(l, Input(l, s, m), m - 1, rws, m) = SubSeq(s, 1, m)
<1>0. Len(s) \in Nat /\ m \in Nat /\ m \in 0..Len(s) /\ m \in 1..m /\ m - 1 + 1 = m
  BY DEF Contexts
<1> DEFINE x == Input(l, s, m)
           z == SubSeq(s, 1, m)
           w == [i \in 1..m |-> LastTok(rws[i].val)]
<1>1. \A i \in 1..m : rws[i].val \in Contexts /\ LastTok(rws[i].val) = s[i]
  <2> SUFFICES ASSUME NEW i \in 1..m
               PROVE  rws[i].val \in Contexts /\ LastTok(rws[i].val) = s[i]
    OBVIOUS
  <2> HIDE DEF x, z, w
  <2>1. rws[i] = RefRow(l, s, i)
    OBVIOUS
  <2>2. rws[i].val = Input(l, s, i)
    BY <2>1 DEF RefRow, KvRow
  <2>3. i \in 1..Len(s)
    BY <1>0
  <2> QED
    BY <2>2, <2>3, InputType
<1>2. z \in Contexts /\ Len(z) = m /\ \A i \in 1..m : z[i] = s[i]
  BY <1>0, PrefixType
<1>3. w = z
  <2>1. w \in Contexts /\ Len(w) = m
    <3>1. \A i \in 1..m : LastTok(rws[i].val) \in Token
      BY <1>0, <1>1 DEF Contexts
    <3> QED
      BY <1>0, <3>1 DEF Contexts
  <2>2. \A i \in 1..m : w[i] = z[i]
    BY <1>1, <1>2
  <2> HIDE DEF w, z
  <2> QED
    BY <1>2, <2>1, <2>2, SeqEqual DEF Contexts
<1>4. x \in Contexts
  BY InputType
<1>5. x = Input(l, z, m)
  BY <1>0, InputOfPrefix
<1>6. \A i \in 1..m : rws[i] = RefRow(l, z, i)
  BY <1>0, InputOfPrefix
<1>7. x # Wrong /\ ~(\E i \in 1..m : rws[i].val = Wrong)
  BY <1>1, <1>4, WrongAssumption
<1> HIDE DEF x, z
<1>8. Attend(l, x, m - 1, rws, m) = z
  BY <1>0, <1>3, <1>5, <1>6, <1>7 DEF Attend
<1> QED
  BY <1>8 DEF x, z

LEMMA AttendType ==
  ASSUME NEW l \in Nat, NEW x \in Value, NEW p \in Nat, NEW m \in Nat,
         NEW rws, \A i \in 1..m : rws[i] \in Row
  PROVE  Attend(l, x, p, rws, m) \in Value
<1> DEFINE s == [i \in 1..m |-> LastTok(rws[i].val)]
<1>1. CASE x = Wrong \/ m # p + 1 \/ \E i \in 1..m : rws[i].val = Wrong
  BY <1>1 DEF Attend, Value
<1>2. CASE /\ x # Wrong /\ m = p + 1 /\ \A i \in 1..m : rws[i].val # Wrong
           /\ \A i \in 1..m : rws[i] = RefRow(l, s, i)
  <2>0. s \in Seq({s[i] : i \in 1..m}) /\ Len(s) = m
    OBVIOUS
  <2>1. \A i \in 1..m : s[i] \in Token
    <3> SUFFICES ASSUME NEW i \in 1..m
                 PROVE  s[i] \in Token
      OBVIOUS
    <3>0. s[i] = LastTok(rws[i].val)
      OBVIOUS
    <3> HIDE DEF s
    <3>1. rws[i].val \in Contexts /\ rws[i].val = Input(l, s, i)
      <4>1. rws[i] = RefRow(l, s, i) /\ rws[i].val # Wrong
        BY <1>2
      <4>2. rws[i] \in Row
        OBVIOUS
      <4> QED
        BY <4>1, <4>2 DEF RefRow, KvRow, Row, Value
    <3>2. Len(Input(l, s, i)) \in Nat \ {0}
      <4>1. CASE l = 0
        BY <4>1 DEF Input
      <4>2. CASE l # 0
        <5>1. Input(l, s, i) = SubSeq(s, 1, i)
          BY <4>2 DEF Input
        <5>2. Len(SubSeq(s, 1, i)) = i
          BY <2>0, SubSeqProperties
        <5> QED
          BY <5>1, <5>2
      <4> QED
        BY <4>1, <4>2
    <3> QED
      BY <3>0, <3>1, <3>2 DEF LastTok, Contexts
  <2>2. s \in Contexts
    BY <2>1 DEF Contexts
  <2>3. Attend(l, x, p, rws, m) \in {s, Wrong}
    BY DEF Attend
  <2> QED
    BY <2>2, <2>3 DEF Value
<1>3. CASE /\ x # Wrong /\ m = p + 1 /\ \A i \in 1..m : rws[i].val # Wrong
           /\ ~(\A i \in 1..m : rws[i] = RefRow(l, s, i))
  BY <1>3 DEF Attend, Value
<1> QED
  BY <1>1, <1>2, <1>3

LEMMA CapacitiesBound ==
  ASSUME NEW cap \in Nat, NEW tokens \in Nat \ {0}, NEW c \in Capacities(cap, tokens)
  PROVE  /\ c \in Nat /\ c >= tokens /\ c >= cap
         /\ c = cap \/ c < 2 * tokens
<1>1. CASE tokens <= cap
  BY <1>1 DEF Capacities
<1>2. CASE tokens > cap
  BY <1>2 DEF Capacities, Doublings
<1> QED
  BY <1>1, <1>2

LEMMA WriteRowsType ==
  ASSUME NEW rws \in Seq(Row), NEW nc \in Nat, NEW p \in Nat, NEW cap \in Nat,
         NEW vals \in Seq(Value)
  PROVE  /\ WriteRows(rws, cap, nc, vals, p) \in Seq(Row)
         /\ Len(WriteRows(rws, cap, nc, vals, p)) = cap
<1> DEFINE new == WriteRows(rws, cap, nc, vals, p)
<1>0. Len(rws) \in Nat /\ Len(vals) \in Nat
  OBVIOUS
<1>1. \A i \in 1..cap : new[i] =
        IF i > nc /\ i <= nc + Len(vals)
        THEN KvRow(vals[i - nc], p + (i - nc) - 1)
        ELSE IF i <= Len(rws) THEN rws[i] ELSE ZeroRow
  BY DEF WriteRows
<1>2. new \in [1..cap -> {new[i] : i \in 1..cap}]
  BY DEF WriteRows
<1> HIDE DEF new
<1>3. \A i \in 1..cap : new[i] \in Row
  <2> SUFFICES ASSUME NEW i \in 1..cap
               PROVE  new[i] \in Row
    OBVIOUS
  <2>1. CASE i > nc /\ i <= nc + Len(vals)
    <3>1. i - nc \in 1..Len(vals) /\ p + (i - nc) - 1 \in Nat
      BY <1>0, <2>1
    <3>2. vals[i - nc] \in Value
      BY <3>1
    <3>3. new[i] = KvRow(vals[i - nc], p + (i - nc) - 1)
      BY <1>1, <2>1
    <3> QED
      BY <3>1, <3>2, <3>3 DEF KvRow, Row
  <2>2. CASE ~(i > nc /\ i <= nc + Len(vals)) /\ i <= Len(rws)
    <3>1. new[i] = rws[i]
      BY <1>1, <2>2
    <3>2. i \in 1..Len(rws)
      BY <1>0, <2>2
    <3> QED
      BY <3>1, <3>2
  <2>3. CASE ~(i > nc /\ i <= nc + Len(vals)) /\ ~(i <= Len(rws))
    <3>1. new[i] = ZeroRow
      BY <1>1, <2>3
    <3> QED
      BY <3>1 DEF ZeroRow, KvRow, Row, Value
  <2> QED
    BY <1>0, <2>1, <2>2, <2>3
<1>4. new \in [1..cap -> Row]
  BY <1>2, <1>3
<1>5. new \in Seq(Row) /\ Len(new) = cap
  BY <1>4
<1> QED
  BY <1>5 DEF new

LEMMA WriteRowsOld ==
  ASSUME NEW rws \in Seq(Row), NEW nc \in Nat, NEW p, NEW cap \in Nat,
         NEW vals \in Seq(Value), nc <= Len(rws), nc <= cap, NEW i \in 1..nc
  PROVE  WriteRows(rws, cap, nc, vals, p)[i] = rws[i]
<1>1. Len(rws) \in Nat /\ i \in 1..cap /\ ~(i > nc) /\ i <= Len(rws)
  OBVIOUS
<1> QED
  BY <1>1 DEF WriteRows

LEMMA WriteRowsNew ==
  ASSUME NEW rws \in Seq(Row), NEW nc \in Nat, NEW p \in Nat, NEW cap \in Nat,
         NEW vals \in Seq(Value), nc + Len(vals) <= cap, NEW i \in 1..Len(vals)
  PROVE  WriteRows(rws, cap, nc, vals, p)[nc + i] = KvRow(vals[i], p + i - 1)
<1>1. /\ nc + i \in 1..cap /\ nc + i > nc /\ nc + i <= nc + Len(vals) /\ (nc + i) - nc = i
      /\ p + ((nc + i) - nc) - 1 = p + i - 1
  OBVIOUS
<1> QED
  BY <1>1 DEF WriteRows

-----------------------------------------------------------------------------
(* The initial state, and the start of a pass.                             *)

LEMMA LayerFacts ==
  /\ BlockCount \in Nat \ {0} /\ NCtx \in Nat \ {0}
  /\ DeltaLayers \subseteq Layers /\ FullLayers \subseteq Layers
  /\ \A l \in Layers : l \in Nat /\ l < BlockCount
  /\ \A l \in DeltaLayers : l \in Nat /\ l < BlockCount /\ l \notin FullLayers
  /\ \A l \in FullLayers : l \in Nat /\ l < BlockCount /\ l \notin DeltaLayers
  /\ \A l \in MoeLayers : l \in Layers
  /\ \A l \in 0..BlockCount : l # BlockCount => l \in DeltaLayers \/ l \in FullLayers
BY BlockCountAssumption, NCtxAssumption, MoeLayersAssumption DEF Layers, DeltaLayers, FullLayers

LEMMA EmptyContext == <<>> \in Contexts /\ Len(<<>>) = 0
BY DEF Contexts

LEMMA InitInv == Init => IInv
<1> SUFFICES ASSUME Init PROVE IInv
  OBVIOUS
<1> USE DEF Init
<1>0. DeltaLayers \subseteq Layers /\ FullLayers \subseteq Layers
  BY LayerFacts
<1>1. TypeOK
  <2>1. n_used \in [FullLayers -> 0..NCtx]
    BY NCtxAssumption
  <2>2. rows \in [FullLayers -> Seq(Row)]
    <3>1. (IF InitCapacity < NCtx THEN InitCapacity ELSE NCtx) \in Nat
      BY NCtxAssumption, InitCapacityAssumption
    <3>2. ZeroRow \in Row
      BY DEF ZeroRow, KvRow, Row, Value
    <3> QED
      BY <3>1, <3>2
  <2>3. ZeroState \in [DeltaLayers -> Value]
    BY EmptyContext DEF ZeroState, Value
  <2>4. snap \in SnapshotType
    BY <2>3, EmptyContext, NCtxAssumption DEF NoSnapshot, SnapshotType
  <2>5. reply \in ReplyType
    BY EmptyContext DEF NoReply, ReplyType
  <2>6. hidden \in Seq(Value)
    OBVIOUS
  <2>7. layer \in 0..BlockCount /\ pos \in 0..NCtx
    BY NCtxAssumption, BlockCountAssumption
  <2>8. conv = ZeroState /\ ssm = ZeroState /\ moe_cache = {} /\ pc = "idle" /\ op = "none"
        /\ pass = <<>> /\ todo = <<>> /\ draft = <<>> /\ chunk = 0 /\ t = 1 /\ fed = <<>> /\ clean
    OBVIOUS
  <2> HIDE DEF Init
  <2> QED
    BY <2>1, <2>2, <2>3, <2>4, <2>5, <2>6, <2>7, <2>8, EmptyContext DEF TypeOK
<1>2. Aligned
  <2>1. (IF InitCapacity < NCtx THEN InitCapacity ELSE NCtx) \in Nat
        /\ (IF InitCapacity < NCtx THEN InitCapacity ELSE NCtx) < 2 * NCtx
    BY NCtxAssumption, InitCapacityAssumption
  <2>2. \A l \in FullLayers : n_used[l] = 0 /\ Len(rows[l]) \in Nat /\ Len(rows[l]) < 2 * NCtx
    BY <2>1
  <2>3. \A l \in MoeLayers : ~(fed # <<>> \/ l < layer)
    BY LayerFacts
  <2>4. pos = 0 /\ fed = <<>> /\ pc = "idle" /\ todo = <<>>
    OBVIOUS
  <2> HIDE DEF Init
  <2> QED
    BY <2>2, <2>3, <2>4, EmptyContext, NCtxAssumption DEF Aligned
<1>3. CallShape /\ PassShape /\ SnapShape
  BY DEF CallShape, PassShape, SnapShape, Speculating
<1>4. RestExact
  BY DEF RestExact, Exact, ZeroState
<1>5. PassExact /\ SnapExact /\ JudgeExact /\ AcceptedExact
  BY DEF PassExact, SnapExact, JudgeExact, AcceptedExact, Speculating
<1> QED
  BY <1>1, <1>2, <1>3, <1>4, <1>5 DEF IInv

LEMMA BeginType ==
  ASSUME NEW ts \in Contexts, ts # <<>>, BeginPass(ts)
  PROVE  /\ pc' = "layers" /\ pass' = ts /\ layer' = 0 /\ t' = 1
         /\ hidden' \in Seq(Value) /\ Len(hidden') = Len(ts)
         /\ Len(ts) \in Nat \ {0}
         /\ \A q \in 1..Len(ts) : hidden'[q] = <<ts[q]>>
<1>1. Len(ts) \in Nat \ {0}
  BY EmptySeq DEF Contexts
<1>2. \A q \in 1..Len(ts) : <<ts[q]>> \in Value
  BY DEF Contexts, Value
<1>3. hidden' = [q \in 1..Len(ts) |-> <<ts[q]>>]
  BY DEF BeginPass
<1>4. hidden' \in Seq(Value) /\ Len(hidden') = Len(ts)
  BY <1>1, <1>2, <1>3
<1> QED
  BY <1>1, <1>3, <1>4 DEF BeginPass

\* A pass that begins on an exact state begins exact.
LEMMA BeginExact ==
  ASSUME NEW ts \in Contexts, ts # <<>>, BeginPass(ts),
         fed' \in Contexts, pos' = Len(fed'),
         \A l \in FullLayers : n_used'[l] = pos',
         clean' => Exact'
  PROVE  PassExact'
<1> SUFFICES ASSUME clean'
             PROVE  /\ \A l \in DeltaLayers :
                         /\ conv'[l] = SubSeq(fed' \o pass', 1, DeltaCount(l)')
                         /\ ssm'[l] = SubSeq(fed' \o pass', 1, DeltaCount(l)')
                    /\ \A l \in FullLayers : \A i \in 1..n_used'[l] :
                         rows'[l][i] = RefRow(l, fed' \o pass', i)
                    /\ \A q \in 1..Len(pass') :
                         hidden'[q] = Input(IF q < t' THEN layer' + 1 ELSE layer',
                                            fed' \o pass', pos' + q)
  BY DEF PassExact, CleanPass, Sequence
<1>1. pass' = ts /\ layer' = 0 /\ t' = 1 /\ \A q \in 1..Len(ts) : hidden'[q] = <<ts[q]>>
  BY BeginType
<1>2. Len(fed') \in Nat /\ Len(ts) \in Nat
  BY ConcatType
<1>3. ASSUME NEW l \in DeltaLayers
      PROVE  /\ conv'[l] = SubSeq(fed' \o pass', 1, DeltaCount(l)')
             /\ ssm'[l] = SubSeq(fed' \o pass', 1, DeltaCount(l)')
  <2>1. DeltaCount(l)' = Len(fed')
    BY <1>1, <1>2, LayerFacts DEF DeltaCount
  <2>2. SubSeq(fed' \o ts, 1, Len(fed')) = fed'
    BY <1>2, PrefixOfConcat, PrefixFull
  <2>3. conv'[l] = fed' /\ ssm'[l] = fed'
    BY DEF Exact
  <2> QED
    BY <1>1, <2>1, <2>2, <2>3
<1>4. ASSUME NEW l \in FullLayers, NEW i \in 1..n_used'[l]
      PROVE  rows'[l][i] = RefRow(l, fed' \o pass', i)
  <2>1. rows'[l][i] = RefRow(l, fed', i)
    BY DEF Exact
  <2>2. i \in 1..Len(fed') /\ l \in Nat
    BY LayerFacts
  <2> QED
    BY <1>1, <2>1, <2>2, InputPrefix
<1>5. ASSUME NEW q \in 1..Len(pass')
      PROVE  hidden'[q] = Input(IF q < t' THEN layer' + 1 ELSE layer', fed' \o pass', pos' + q)
  <2>1. (fed' \o ts)[Len(fed') + q] = ts[q]
    BY <1>1, ConcatType
  <2>2. ~(q < t')
    BY <1>1, <1>2
  <2> QED
    BY <1>1, <2>1, <2>2 DEF Input
<1> QED
  BY <1>3, <1>4, <1>5

-----------------------------------------------------------------------------
(* Calls.                                                                  *)

LEMMA RefuseInv ==
  ASSUME IInv, NEW n \in Nat, Refuse(n)
  PROVE  IInv'
<1>0. /\ reply' = ErrReply /\ pc = "idle" /\ op = "none"
      /\ UNCHANGED <<state, pc, op, locals, fed, clean>>
  BY DEF Refuse, IInv, CallShape
<1>1. TypeOK'
  <2>1. reply' \in ReplyType
    BY <1>0, EmptyContext DEF ErrReply, NoReply, ReplyType
  <2> QED
    BY <1>0, <2>1 DEF IInv, TypeOK, state, locals
<1>2. Aligned'
  BY <1>0 DEF IInv, Aligned, state, locals
<1>3. CallShape' /\ PassShape' /\ SnapShape'
  BY <1>0 DEF IInv, CallShape, PassShape, SnapShape, Speculating, state, locals
<1>4. RestExact'
  BY <1>0 DEF IInv, RestExact, Exact, state, locals
<1>5. PassExact' /\ SnapExact' /\ JudgeExact' /\ AcceptedExact'
  BY <1>0 DEF PassExact, SnapExact, JudgeExact, AcceptedExact, Speculating
<1> QED
  BY <1>1, <1>2, <1>3, <1>4, <1>5 DEF IInv

LEMMA WarmMoeCacheInv ==
  ASSUME IInv, WarmMoeCache
  PROVE  IInv'
<1>0. /\ moe_cache' = moe_cache \cup MoeLayers /\ pc = "idle" /\ op = "none"
      /\ UNCHANGED <<n_used, rows, conv, ssm, pos, pc, op, locals, reply, fed, clean>>
  BY DEF WarmMoeCache, IInv, CallShape
<1>1. TypeOK'
  BY <1>0 DEF IInv, TypeOK, locals
<1>2. Aligned'
  BY <1>0 DEF IInv, Aligned, locals
<1>3. CallShape' /\ PassShape' /\ SnapShape'
  BY <1>0 DEF IInv, CallShape, PassShape, SnapShape, Speculating, locals
<1>4. RestExact'
  BY <1>0 DEF IInv, RestExact, Exact, locals
<1>5. PassExact' /\ SnapExact' /\ JudgeExact' /\ AcceptedExact'
  BY <1>0 DEF PassExact, SnapExact, JudgeExact, AcceptedExact, Speculating
<1> QED
  BY <1>1, <1>2, <1>3, <1>4, <1>5 DEF IInv

\* Every call that is not refused.
LEMMA EnterInv ==
  ASSUME IInv,
         NEW name \in {"prefill", "chunked", "generate", "verify"},
         NEW n \in Nat, NEW ts \in Contexts, ts # <<>>,
         Enter(name, n, ts),
         todo' \in Contexts, Len(ts) + Len(todo') = n, chunk' \in Nat, draft' \in Contexts,
         IF name = "chunked" THEN chunk' > 0 ELSE todo' = <<>>,
         name = "generate" => Len(ts) = 1,
         IF name = "verify"
         THEN snap' = Snapshot /\ Len(ts) = 1 + Len(draft') /\ Tail(ts) = draft'
         ELSE snap' = snap
  PROVE  IInv'
<1>0. /\ pc = "idle" /\ op = "none" /\ op' = name /\ reply' = NoReply /\ BeginPass(ts)
      /\ pos + n <= NCtx
      /\ UNCHANGED <<n_used, rows, conv, ssm, pos, moe_cache, fed, clean>>
  BY DEF Enter, Fits, IInv, CallShape, state
<1>1. /\ pc' = "layers" /\ pass' = ts /\ layer' = 0 /\ t' = 1
      /\ hidden' \in Seq(Value) /\ Len(hidden') = Len(ts) /\ Len(ts) \in Nat \ {0}
  BY <1>0, BeginType
<1>2. TypeOK /\ Aligned /\ (clean => Exact)
  BY <1>0 DEF IInv, RestExact
<1>3. TypeOK'
  <2>1. snap' \in SnapshotType
    BY <1>2 DEF TypeOK, Snapshot, SnapshotType
  <2>2. reply' \in ReplyType
    BY <1>0, EmptyContext DEF NoReply, ReplyType
  <2>3. layer' \in 0..BlockCount
    BY <1>1, LayerFacts
  <2> QED
    BY <1>0, <1>1, <1>2, <2>1, <2>2, <2>3 DEF TypeOK
<1>4. Aligned'
  <2>1. \A l \in FullLayers : l \in Nat
    BY LayerFacts
  <2>2. \A l \in FullLayers :
          /\ n_used'[l] = pos' + (IF pc' = "layers" /\ l < layer' THEN Len(pass') ELSE 0)
          /\ n_used'[l] <= Len(rows'[l])
          /\ Len(rows'[l]) < 2 * NCtx
    BY <1>0, <1>1, <1>2, <2>1 DEF Aligned, TypeOK
  <2>3. pos' + Len(pass') + Len(todo') <= NCtx
    <3>1. pos \in Nat /\ Len(todo') \in Nat /\ NCtx \in Nat
      BY <1>2, LayerFacts DEF TypeOK, Contexts
    <3> QED
      BY <1>0, <1>1, <3>1
  <2>4. \A l \in MoeLayers : fed' # <<>> \/ l < layer' => l \in moe_cache'
    <3>1. \A l \in MoeLayers : ~(l < layer')
      BY <1>1, LayerFacts
    <3> QED
      BY <1>0, <1>2, <3>1 DEF Aligned
  <2>5. pos' = Len(fed')
    BY <1>0, <1>2 DEF Aligned
  <2> QED
    BY <1>1, <2>2, <2>3, <2>4, <2>5 DEF Aligned
<1>5. CallShape'
  BY <1>0, <1>1 DEF CallShape
<1>6. PassShape'
  BY <1>0, <1>1 DEF PassShape
<1>7. SnapShape'
  <2>1. \A l \in FullLayers : n_used[l] = pos
    BY <1>0, <1>2, LayerFacts DEF Aligned, TypeOK
  <2>2. CASE name = "verify"
    BY <1>0, <1>1, <1>2, <2>1, <2>2 DEF SnapShape, Speculating, Snapshot, Aligned
  <2>3. CASE name # "verify"
    BY <1>0, <2>3 DEF SnapShape, Speculating
  <2> QED
    BY <2>2, <2>3
<1>8. RestExact' /\ JudgeExact' /\ AcceptedExact'
  BY <1>0, <1>1 DEF RestExact, JudgeExact, AcceptedExact
<1>9. PassExact'
  <2>1. clean' => Exact'
    BY <1>0, <1>2 DEF Exact
  <2>2. fed' \in Contexts /\ pos' = Len(fed') /\ \A l \in FullLayers : n_used'[l] = pos'
    BY <1>0, <1>2, LayerFacts DEF Aligned, TypeOK
  <2> QED
    BY <1>0, <2>1, <2>2, BeginExact
<1>10. SnapExact'
  <2>1. \A l \in FullLayers : n_used[l] = pos
    BY <1>0, <1>2, LayerFacts DEF Aligned, TypeOK
  <2>2. CASE name = "verify"
    BY <1>0, <1>2, <2>1, <2>2 DEF SnapExact, Speculating, Snapshot, Exact
  <2>3. CASE name # "verify"
    BY <1>0, <2>3 DEF SnapExact, Speculating
  <2> QED
    BY <2>2, <2>3
<1> QED
  BY <1>3, <1>4, <1>5, <1>6, <1>7, <1>8, <1>9, <1>10 DEF IInv

LEMMA ChunkFacts ==
  ASSUME NEW ts \in Contexts, ts # <<>>, NEW c \in Nat \ {0}
  PROVE  /\ Chunk(ts, c) \in Contexts /\ Chunk(ts, c) # <<>>
         /\ Rest(ts, c) \in Contexts
         /\ Len(Chunk(ts, c)) + Len(Rest(ts, c)) = Len(ts)
         /\ Len(ts) \in Nat
<1>1. Len(ts) \in Nat \ {0}
  BY EmptySeq DEF Contexts
<1>2. ChunkLen(ts, c) \in 1..Len(ts)
  BY <1>1 DEF ChunkLen
<1>3. Chunk(ts, c) \in Contexts /\ Len(Chunk(ts, c)) = ChunkLen(ts, c)
  <2>1. ChunkLen(ts, c) \in 0..Len(ts)
    BY <1>1, <1>2
  <2> QED
    BY <2>1, PrefixType DEF Chunk
<1>4. Rest(ts, c) \in Contexts
      /\ Len(Rest(ts, c)) = IF ChunkLen(ts, c) + 1 <= Len(ts)
                            THEN Len(ts) - (ChunkLen(ts, c) + 1) + 1 ELSE 0
  <2>1. ChunkLen(ts, c) + 1 \in 1..(Len(ts) + 1) /\ Len(ts) \in 0..Len(ts)
    BY <1>1, <1>2
  <2> QED
    BY <2>1, SubSeqType DEF Rest
<1>5. Chunk(ts, c) # <<>>
  BY <1>2, <1>3, EmptyContext
<1> QED
  BY <1>1, <1>2, <1>3, <1>4, <1>5

LEMMA FeedFacts ==
  /\ \A ts \in Feeds : ts \in Contexts /\ ts # <<>> /\ Len(ts) \in Nat
  /\ \A ds \in Drafts : ds \in Contexts /\ ds # <<>> /\ Len(ds) \in Nat
BY BoundsAssumption DEF Feeds, Drafts, Contexts

LEMMA CallInv ==
  ASSUME IInv, Call
  PROVE  IInv'
<1>0. pc = "idle" => todo = <<>> /\ TypeOK
  BY DEF IInv, CallShape
<1>1. ASSUME NEW ts \in Feeds, Prefill(ts)
      PROVE  IInv'
  <2>1. CASE Refuse(Len(ts))
    BY <2>1, FeedFacts, RefuseInv
  <2>2. CASE Enter("prefill", Len(ts), ts) /\ UNCHANGED <<todo, chunk, draft, snap>>
    <3>1. pc = "idle" /\ todo = <<>> /\ TypeOK
      BY <1>0, <2>2 DEF Enter
    <3>2. Len(ts) + Len(<<>>) = Len(ts)
      BY FeedFacts, EmptyContext
    <3>3. todo' = <<>> /\ chunk' \in Nat /\ draft' \in Contexts /\ snap' = snap
      BY <2>2, <3>1 DEF TypeOK
    <3> QED
      BY <2>2, <3>2, <3>3, FeedFacts, EmptyContext, EnterInv
  <2> QED
    BY <1>1, <2>1, <2>2 DEF Prefill
<1>2. ASSUME NEW ts \in Feeds, NEW c \in 1..MaxFeed, PrefillChunked(ts, c)
      PROVE  IInv'
  <2>1. CASE Refuse(Len(ts))
    BY <2>1, FeedFacts, RefuseInv
  <2>2. CASE /\ Enter("chunked", Len(ts), Chunk(ts, c))
             /\ todo' = Rest(ts, c)
             /\ chunk' = c
             /\ UNCHANGED <<draft, snap>>
    <3>1. TypeOK
      BY <1>0, <2>2 DEF Enter
    <3>2. c \in Nat \ {0} /\ c > 0
      BY BoundsAssumption
    <3>3. /\ Chunk(ts, c) \in Contexts /\ Chunk(ts, c) # <<>>
          /\ todo' \in Contexts /\ Len(Chunk(ts, c)) + Len(todo') = Len(ts) /\ Len(ts) \in Nat
      BY <2>2, <3>2, FeedFacts, ChunkFacts
    <3>4. chunk' \in Nat /\ chunk' > 0 /\ draft' \in Contexts /\ snap' = snap
      BY <2>2, <3>1, <3>2 DEF TypeOK
    <3> QED
      BY <2>2, <3>3, <3>4, EnterInv
  <2> QED
    BY <1>2, <2>1, <2>2 DEF PrefillChunked
<1>3. ASSUME NEW tok \in Token, GenerateToken(tok)
      PROVE  IInv'
  <2>1. CASE Refuse(1)
    BY <2>1, RefuseInv
  <2>2. CASE Enter("generate", 1, <<tok>>) /\ UNCHANGED <<todo, chunk, draft, snap>>
    <3>1. pc = "idle" /\ todo = <<>> /\ TypeOK
      BY <1>0, <2>2 DEF Enter
    <3>2. <<tok>> \in Contexts /\ <<tok>> # <<>> /\ Len(<<tok>>) = 1 /\ 1 + Len(<<>>) = 1
      BY EmptyContext DEF Contexts
    <3>3. todo' = <<>> /\ chunk' \in Nat /\ draft' \in Contexts /\ snap' = snap
      BY <2>2, <3>1 DEF TypeOK
    <3> QED
      BY <2>2, <3>2, <3>3, EmptyContext, EnterInv
  <2> QED
    BY <1>3, <2>1, <2>2 DEF GenerateToken
<1>4. ASSUME NEW tok \in Token, NEW ds \in Drafts, VerifyDraft(tok, ds)
      PROVE  IInv'
  <2>0. 1 + Len(ds) \in Nat
    BY FeedFacts
  <2>1. CASE Refuse(1 + Len(ds))
    BY <2>0, <2>1, RefuseInv
  <2>2. CASE /\ Enter("verify", 1 + Len(ds), <<tok>> \o ds)
             /\ draft' = ds
             /\ snap' = Snapshot
             /\ UNCHANGED <<todo, chunk>>
    <3>1. pc = "idle" /\ todo = <<>> /\ TypeOK
      BY <1>0, <2>2 DEF Enter
    <3> DEFINE ts == <<tok>> \o ds
    <3>2. <<tok>> \in Contexts /\ Len(<<tok>>) = 1 /\ ds \in Contexts /\ Len(ds) \in Nat
      BY FeedFacts DEF Contexts
    <3>3. ts \in Contexts /\ Len(ts) = 1 + Len(ds)
      BY <3>2, ConcatType
    <3>4. ts # <<>>
      BY <3>2, <3>3, EmptyContext
    <3>5. Tail(ts) = ds
      <4>1. Tail(ts) \in Contexts /\ Len(Tail(ts)) = Len(ds)
            /\ \A i \in 1..Len(ds) : Tail(ts)[i] = ts[i + 1]
        BY <3>2, <3>3, <3>4, HeadTailProperties DEF Contexts
      <4>2. \A i \in 1..Len(ds) : ts[1 + i] = ds[i]
        BY <3>2, ConcatType
      <4>3. \A i \in 1..Len(ds) : i + 1 = 1 + i
        BY <3>2
      <4> HIDE DEF ts
      <4>4. \A i \in 1..Len(ds) : Tail(ts)[i] = ds[i]
        BY <4>1, <4>2, <4>3
      <4> QED
        BY <3>2, <4>1, <4>4, SeqEqual DEF Contexts
    <3>6. todo' = <<>> /\ chunk' \in Nat /\ draft' = ds /\ snap' = Snapshot
      BY <2>2, <3>1 DEF TypeOK
    <3>7. Enter("verify", 1 + Len(ds), ts)
      BY <2>2
    <3>8. Len(ts) + Len(todo') = 1 + Len(ds)
      BY <3>2, <3>3, <3>6, EmptyContext
    <3> HIDE DEF ts
    <3> QED
      BY <2>0, <3>2, <3>3, <3>4, <3>5, <3>6, <3>7, <3>8, EmptyContext, EnterInv
  <2> QED
    BY <1>4, <2>1, <2>2 DEF VerifyDraft
<1> QED
  BY <1>1, <1>2, <1>3, <1>4, WarmMoeCacheInv DEF Call

-----------------------------------------------------------------------------
(* Steps of a pass.                                                        *)

LEMMA SequenceFacts ==
  ASSUME TypeOK, Aligned
  PROVE  /\ Sequence \in Contexts /\ Len(Sequence) = pos + Len(pass)
         /\ pos = Len(fed) /\ pos \in Nat /\ Len(pass) \in Nat
         /\ \A l \in FullLayers, i \in 1..pos : RefRow(l, Sequence, i) = RefRow(l, fed, i)
<1>1. fed \in Contexts /\ pass \in Contexts /\ pos = Len(fed)
  BY DEF TypeOK, Aligned
<1> QED
  BY <1>1, ConcatType, InputPrefix, LayerFacts DEF Sequence

LEMMA DeltaTokenExact ==
  ASSUME IInv, DeltaToken, CleanPass
  PROVE  /\ conv'[layer] = SubSeq(Sequence, 1, pos + t)
         /\ ssm'[layer] = SubSeq(Sequence, 1, pos + t)
         /\ hidden'[t] = SubSeq(Sequence, 1, pos + t)
<1>1. /\ pc = "layers" /\ layer \in DeltaLayers /\ layer \in Nat
      /\ t \in 1..Len(pass) /\ Len(hidden) = Len(pass)
  BY LayerFacts DEF DeltaToken, IInv, PassShape
<1>2. Sequence \in Contexts /\ Len(Sequence) = pos + Len(pass) /\ pos \in Nat /\ Len(pass) \in Nat
  BY SequenceFacts DEF IInv
<1>3. conv[layer] = SubSeq(Sequence, 1, pos + t - 1) /\ ssm[layer] = conv[layer]
  <2>1. DeltaCount(layer) = pos + t - 1
    BY <1>1 DEF DeltaCount
  <2> QED
    BY <1>1, <2>1 DEF IInv, PassExact
<1>4. hidden[t] = Input(layer, Sequence, pos + t)
  <2>1. ~(t < t)
    BY <1>1
  <2> QED
    BY <1>1, <2>1 DEF IInv, PassExact
<1>5. Absorb(layer, conv[layer], hidden[t]) = SubSeq(Sequence, 1, pos + t)
  <2> DEFINE k == pos + t - 1
  <2>1. k \in Nat /\ k < Len(Sequence) /\ k + 1 = pos + t
    BY <1>1, <1>2
  <2>2. Absorb(layer, SubSeq(Sequence, 1, k), Input(layer, Sequence, k + 1)) = SubSeq(Sequence, 1, k + 1)
    BY <1>1, <1>2, <2>1, AbsorbExact
  <2> QED
    BY <1>3, <1>4, <2>1, <2>2
<1>6. layer \in DOMAIN conv /\ layer \in DOMAIN ssm /\ t \in DOMAIN hidden
  <2>1. conv \in [DeltaLayers -> Value] /\ ssm \in [DeltaLayers -> Value] /\ hidden \in Seq(Value)
    BY DEF IInv, TypeOK
  <2> QED
    BY <1>1, <2>1
<1>7. /\ conv'[layer] = Absorb(layer, conv[layer], hidden[t])
      /\ ssm'[layer] = Absorb(layer, ssm[layer], hidden[t])
      /\ hidden'[t] = Absorb(layer, ssm[layer], hidden[t])
  BY <1>3, <1>6 DEF DeltaToken
<1> QED
  BY <1>3, <1>5, <1>7

LEMMA DeltaTokenFrame ==
  ASSUME IInv, DeltaToken
  PROVE  /\ pc = "layers" /\ layer \in DeltaLayers /\ layer \in Nat /\ layer < BlockCount
         /\ t \in 1..Len(pass) /\ Len(hidden) = Len(pass) /\ Len(pass) \in Nat
         /\ \A l \in DeltaLayers : l # layer => conv'[l] = conv[l] /\ ssm'[l] = ssm[l]
         /\ \A q \in 1..Len(pass) : q # t => hidden'[q] = hidden[q]
         /\ IF t < Len(pass) THEN t' = t + 1 /\ layer' = layer ELSE t' = 1 /\ layer' = layer + 1
         /\ moe_cache' = moe_cache \cup ({layer} \cap MoeLayers)
         /\ UNCHANGED <<n_used, rows, pos, pc, op, pass, todo, chunk, draft, snap, reply, fed, clean>>
         /\ TypeOK /\ Aligned
<1>1. TypeOK /\ Aligned /\ PassShape
  BY DEF IInv
<1>2. /\ pc = "layers" /\ layer \in DeltaLayers /\ layer \in Nat /\ layer < BlockCount
      /\ t \in 1..Len(pass) /\ Len(hidden) = Len(pass) /\ Len(pass) \in Nat
  BY <1>1, LayerFacts DEF DeltaToken, PassShape, TypeOK, Contexts
<1>3. conv \in [DeltaLayers -> Value] /\ ssm \in [DeltaLayers -> Value] /\ hidden \in Seq(Value)
  BY <1>1 DEF TypeOK
<1>4. \A l \in DeltaLayers : l # layer => conv'[l] = conv[l] /\ ssm'[l] = ssm[l]
  BY <1>3 DEF DeltaToken
<1>5. \A q \in 1..Len(pass) : q # t => hidden'[q] = hidden[q]
  BY <1>2, <1>3 DEF DeltaToken
<1>6. IF t < Len(pass) THEN t' = t + 1 /\ layer' = layer ELSE t' = 1 /\ layer' = layer + 1
  BY DEF DeltaToken, NextLayer
<1>7. moe_cache' = moe_cache \cup ({layer} \cap MoeLayers)
  BY DEF DeltaToken, MoeFieldsCached
<1>8. UNCHANGED <<n_used, rows, pos, pc, op, pass, todo, chunk, draft, snap, reply, fed, clean>>
  BY DEF DeltaToken
<1> QED
  BY <1>1, <1>2, <1>4, <1>5, <1>6, <1>7, <1>8

LEMMA DeltaTokenInv ==
  ASSUME IInv, DeltaToken
  PROVE  IInv'
<1>1. TypeOK'
  <2>1. conv \in [DeltaLayers -> Value] /\ ssm \in [DeltaLayers -> Value] /\ hidden \in Seq(Value)
    BY DEF IInv, TypeOK
  <2>2. hidden[t] \in Value /\ conv[layer] \in Value /\ ssm[layer] \in Value
    BY <2>1, DeltaTokenFrame
  <2> DEFINE out == IF conv[layer] = ssm[layer] THEN Absorb(layer, ssm[layer], hidden[t]) ELSE Wrong
  <2>3. out \in Value /\ Absorb(layer, conv[layer], hidden[t]) \in Value
    BY <2>2, DeltaTokenFrame, AbsorbType DEF Value
  <2>4. /\ conv' = [conv EXCEPT ![layer] = Absorb(layer, conv[layer], hidden[t])]
        /\ ssm' = [ssm EXCEPT ![layer] = out]
        /\ hidden' = [hidden EXCEPT ![t] = out]
    BY DEF DeltaToken
  <2> HIDE DEF out
  <2>5. conv' \in [DeltaLayers -> Value] /\ ssm' \in [DeltaLayers -> Value]
    BY <2>1, <2>3, <2>4
  <2>6. hidden' \in Seq(Value)
    BY <2>1, <2>3, <2>4, DeltaTokenFrame, ExceptSeq
  <2>7. layer' \in 0..BlockCount /\ t' \in Nat \ {0}
    BY DeltaTokenFrame, LayerFacts
  <2>8. moe_cache' \subseteq MoeLayers
    BY DeltaTokenFrame DEF TypeOK
  <2> QED
    BY <2>5, <2>6, <2>7, <2>8, DeltaTokenFrame DEF TypeOK
<1>2. Aligned'
  <2>1. \A l \in FullLayers : l < layer' <=> l < layer
    BY DeltaTokenFrame, LayerFacts
  <2>2. \A l \in MoeLayers : fed' # <<>> \/ l < layer' => l \in moe_cache'
    <3> SUFFICES ASSUME NEW l \in MoeLayers, fed' # <<>> \/ l < layer'
                 PROVE  l \in moe_cache'
      OBVIOUS
    <3>1. l \in Nat
      BY LayerFacts
    <3>2. fed # <<>> \/ l < layer \/ l = layer
      BY <3>1, DeltaTokenFrame
    <3> QED
      BY <3>2, DeltaTokenFrame DEF Aligned
  <2> QED
    BY <2>1, <2>2, DeltaTokenFrame DEF Aligned
<1>3. CallShape'
  BY DeltaTokenFrame DEF CallShape, IInv
<1>4. PassShape'
  <2>1. Len(hidden') = Len(hidden)
    <3>1. hidden \in Seq(Value) /\ t \in 1..Len(hidden)
      BY DeltaTokenFrame DEF TypeOK
    <3> QED
      BY <3>1 DEF DeltaToken
  <2>2. t' \in 1..Len(pass) /\ (layer' \notin DeltaLayers => t' = 1)
    BY DeltaTokenFrame
  <2> QED
    BY <2>1, <2>2, DeltaTokenFrame DEF PassShape, IInv
<1>5. SnapShape'
  BY DeltaTokenFrame DEF SnapShape, Speculating, IInv
<1>6. RestExact' /\ JudgeExact'
  BY DeltaTokenFrame DEF RestExact, JudgeExact
<1>7. SnapExact' /\ AcceptedExact'
  BY DeltaTokenFrame DEF SnapExact, Speculating, AcceptedExact, IInv
<1>8. PassExact'
  <2> SUFFICES ASSUME CleanPass
               PROVE  /\ \A l \in DeltaLayers :
                           /\ conv'[l] = SubSeq(Sequence, 1, DeltaCount(l)')
                           /\ ssm'[l] = SubSeq(Sequence, 1, DeltaCount(l)')
                      /\ \A l \in FullLayers : \A i \in 1..n_used[l] :
                           rows[l][i] = RefRow(l, Sequence, i)
                      /\ \A q \in 1..Len(pass) :
                           hidden'[q] = Input(IF q < t' THEN layer' + 1 ELSE layer', Sequence, pos + q)
    BY DeltaTokenFrame DEF PassExact, CleanPass, Sequence
  <2>0. pos \in Nat /\ Len(Sequence) = pos + Len(pass)
    BY DeltaTokenFrame, SequenceFacts
  <2>1. PassExact /\ pc = "layers"
    BY DeltaTokenFrame DEF IInv
  <2>2. ASSUME NEW l \in DeltaLayers
        PROVE  /\ conv'[l] = SubSeq(Sequence, 1, DeltaCount(l)')
               /\ ssm'[l] = SubSeq(Sequence, 1, DeltaCount(l)')
    <3>0. l \in Nat
      BY LayerFacts
    <3>1. CASE l = layer
      <4>1. DeltaCount(l)' = pos + t
        BY <2>0, <3>0, <3>1, DeltaTokenFrame DEF DeltaCount, Sequence
      <4> QED
        BY <3>1, <4>1, DeltaTokenExact
    <3>2. CASE l # layer
      <4>1. DeltaCount(l)' = DeltaCount(l)
        BY <2>0, <3>0, <3>2, DeltaTokenFrame DEF DeltaCount, Sequence
      <4> QED
        BY <2>1, <3>2, <4>1, DeltaTokenFrame DEF PassExact
    <3> QED
      BY <3>1, <3>2
  <2>3. \A l \in FullLayers : \A i \in 1..n_used[l] : rows[l][i] = RefRow(l, Sequence, i)
    BY <2>1 DEF PassExact
  <2>4. ASSUME NEW q \in 1..Len(pass)
        PROVE  hidden'[q] = Input(IF q < t' THEN layer' + 1 ELSE layer', Sequence, pos + q)
    <3>1. CASE q = t
      <4>1. (IF q < t' THEN layer' + 1 ELSE layer') = layer + 1
        BY <3>1, DeltaTokenFrame
      <4>2. layer + 1 # 0
        BY DeltaTokenFrame
      <4>3. Input(layer + 1, Sequence, pos + t) = SubSeq(Sequence, 1, pos + t)
        BY <4>2 DEF Input
      <4> QED
        BY <3>1, <4>1, <4>3, DeltaTokenExact
    <3>2. CASE q # t
      <4>1. (IF q < t' THEN layer' + 1 ELSE layer') = (IF q < t THEN layer + 1 ELSE layer)
        BY <3>2, DeltaTokenFrame
      <4> QED
        BY <2>1, <3>2, <4>1, DeltaTokenFrame DEF PassExact
    <3> QED
      BY <3>1, <3>2
  <2> QED
    BY <2>2, <2>3, <2>4
<1> QED
  BY <1>1, <1>2, <1>3, <1>4, <1>5, <1>6, <1>7, <1>8 DEF IInv

LEMMA VisibleRowsFacts ==
  ASSUME NEW n \in Nat, NEW q \in 1..n, NEW nc \in Nat
  PROVE  /\ VisibleRows(q, n, nc + n) \in 1..(nc + n)
         /\ n = 1 \/ nc = 0 => VisibleRows(q, n, nc + n) = nc + q
BY DEF VisibleRows

\* What the rows and the counters are after an attention layer.
LEMMA AttentionLayerRows ==
  ASSUME IInv, AttentionLayer
  PROVE  /\ pc = "layers" /\ layer \in FullLayers /\ layer \in Nat /\ layer < BlockCount
         /\ TypeOK /\ Aligned /\ Len(hidden) = Len(pass) /\ Len(pass) \in Nat \ {0} /\ t = 1
         /\ n_used[layer] = pos /\ pos \in Nat /\ pos + Len(pass) <= NCtx
         /\ rows'[layer] \in Seq(Row)
         /\ Len(rows'[layer]) \in Nat /\ Len(rows'[layer]) >= pos + Len(pass) /\ Len(rows'[layer]) < 2 * NCtx
         /\ \A i \in 1..pos : rows'[layer][i] = rows[layer][i]
         /\ \A i \in 1..Len(pass) :
              rows'[layer][pos + i] = KvRow(hidden[i], pos + i - 1)
         /\ \A l \in FullLayers : l # layer => rows'[l] = rows[l] /\ n_used'[l] = n_used[l]
         /\ n_used'[layer] = pos + Len(pass)
         /\ rows' \in [FullLayers -> Seq(Row)]
         /\ n_used' \in [FullLayers -> 0..NCtx]
         /\ hidden' = [q \in 1..Len(pass) |->
              Attend(layer, hidden[q], pos + q - 1, rows'[layer],
                     VisibleRows(q, Len(pass), pos + Len(pass)))]
         /\ moe_cache' = moe_cache \cup ({layer} \cap MoeLayers)
         /\ layer' = layer + 1 /\ t' = 1
         /\ UNCHANGED <<conv, ssm, pos, pc, op, pass, todo, chunk, draft, snap, reply, fed, clean>>
<1>1. TypeOK /\ Aligned /\ PassShape
  BY DEF IInv
<1>2. /\ pc = "layers" /\ layer \in FullLayers /\ layer \in Nat /\ layer < BlockCount
      /\ layer \notin DeltaLayers
  BY LayerFacts DEF AttentionLayer
<1>3. Len(hidden) = Len(pass) /\ Len(pass) \in Nat \ {0} /\ t = 1
  BY <1>1, <1>2, EmptySeq DEF PassShape, TypeOK, Contexts
<1>4. n_used[layer] = pos /\ pos \in Nat
  BY <1>1, <1>2 DEF Aligned, TypeOK
<1>5. pos + Len(pass) <= NCtx /\ NCtx \in Nat
  <2>1. Len(todo) \in Nat /\ pos + Len(pass) + Len(todo) <= NCtx
    BY <1>1, <1>2 DEF Aligned, TypeOK, Contexts
  <2> QED
    BY <1>3, <1>4, <2>1, LayerFacts
<1>6. PICK cap \in Capacities(Len(rows[layer]), pos + Len(pass)) :
        /\ rows' = [rows EXCEPT ![layer] = WriteRows(rows[layer], cap, pos, hidden, pos)]
        /\ n_used' = [n_used EXCEPT ![layer] = pos + Len(pass)]
        /\ hidden' = [q \in 1..Len(pass) |->
             Attend(layer, hidden[q], pos + q - 1, WriteRows(rows[layer], cap, pos, hidden, pos),
                    VisibleRows(q, Len(pass), pos + Len(pass)))]
  BY <1>4 DEF AttentionLayer
<1>7. rows[layer] \in Seq(Row) /\ Len(rows[layer]) \in Nat /\ hidden \in Seq(Value)
      /\ rows \in [FullLayers -> Seq(Row)] /\ n_used \in [FullLayers -> 0..NCtx]
  BY <1>1, <1>2 DEF TypeOK
<1>8. /\ cap \in Nat /\ cap >= pos + Len(pass)
      /\ cap = Len(rows[layer]) \/ cap < 2 * (pos + Len(pass))
  <2>1. pos + Len(pass) \in Nat \ {0}
    BY <1>3, <1>4
  <2> QED
    BY <1>7, <2>1, CapacitiesBound
<1>9. cap < 2 * NCtx
  <2>1. Len(rows[layer]) < 2 * NCtx
    BY <1>1, <1>2 DEF Aligned
  <2> QED
    BY <1>3, <1>4, <1>5, <1>7, <1>8, <2>1
<1> DEFINE new == WriteRows(rows[layer], cap, pos, hidden, pos)
<1>10. /\ new \in Seq(Row) /\ Len(new) = cap
       /\ \A i \in 1..pos : new[i] = rows[layer][i]
       /\ \A i \in 1..Len(pass) : new[pos + i] = KvRow(hidden[i], pos + i - 1)
  <2>1. pos <= Len(rows[layer]) /\ pos + Len(hidden) <= cap
    BY <1>1, <1>2, <1>3, <1>4, <1>8 DEF Aligned
  <2>2. new \in Seq(Row) /\ Len(new) = cap
    BY <1>4, <1>7, <1>8, WriteRowsType
  <2>3. \A i \in 1..pos : new[i] = rows[layer][i]
    <3> SUFFICES ASSUME NEW i \in 1..pos
                 PROVE  new[i] = rows[layer][i]
      OBVIOUS
    <3>1. pos <= cap /\ pos <= Len(rows[layer]) /\ pos \in Nat /\ cap \in Nat
          /\ rows[layer] \in Seq(Row) /\ hidden \in Seq(Value)
      BY <1>3, <1>4, <1>7, <1>8, <2>1
    <3>2. WriteRows(rows[layer], cap, pos, hidden, pos)[i] = rows[layer][i]
      BY ONLY <3>1, i \in 1..pos, WriteRowsOld
    <3> QED
      BY <3>2
  <2>4. \A i \in 1..Len(hidden) : new[pos + i] = KvRow(hidden[i], pos + i - 1)
    BY <1>4, <1>7, <1>8, <2>1, WriteRowsNew
  <2> QED
    BY <1>3, <2>2, <2>3, <2>4
<1> HIDE DEF new
<1>11. rows' = [rows EXCEPT ![layer] = new]
  BY <1>6 DEF new
<1>12. rows'[layer] = new /\ \A l \in FullLayers : l # layer => rows'[l] = rows[l]
  BY <1>2, <1>7, <1>11
<1>13. n_used'[layer] = pos + Len(pass) /\ \A l \in FullLayers : l # layer => n_used'[l] = n_used[l]
  BY <1>2, <1>6, <1>7
<1>14. rows' \in [FullLayers -> Seq(Row)]
  BY <1>7, <1>10, <1>11
<1>15. n_used' \in [FullLayers -> 0..NCtx]
  <2>1. pos + Len(pass) \in 0..NCtx
    BY <1>3, <1>4, <1>5
  <2> QED
    BY <1>6, <1>7, <2>1
<1>16. hidden' = [q \in 1..Len(pass) |->
         Attend(layer, hidden[q], pos + q - 1, rows'[layer],
                VisibleRows(q, Len(pass), pos + Len(pass)))]
  BY <1>6, <1>12 DEF new
<1>17. /\ moe_cache' = moe_cache \cup ({layer} \cap MoeLayers)
       /\ layer' = layer + 1 /\ t' = 1
       /\ UNCHANGED <<conv, ssm, pos, pc, op, pass, todo, chunk, draft, snap, reply, fed, clean>>
  BY DEF AttentionLayer, MoeFieldsCached, NextLayer
<1>18. Len(rows'[layer]) \in Nat /\ Len(rows'[layer]) >= pos + Len(pass) /\ Len(rows'[layer]) < 2 * NCtx
  BY <1>8, <1>9, <1>10, <1>12
<1>19. /\ rows'[layer] \in Seq(Row)
       /\ \A i \in 1..pos : rows'[layer][i] = rows[layer][i]
       /\ \A i \in 1..Len(pass) :
            rows'[layer][pos + i] = KvRow(hidden[i], pos + i - 1)
  BY <1>10, <1>12
<1> QED
  BY <1>1, <1>2, <1>3, <1>4, <1>5, <1>12, <1>13, <1>14, <1>15, <1>16, <1>17, <1>18, <1>19

LEMMA AttentionLayerExact ==
  ASSUME IInv, AttentionLayer, CleanPass
  PROVE  /\ \A i \in 1..(pos + Len(pass)) : rows'[layer][i] = RefRow(layer, Sequence, i)
         /\ \A q \in 1..Len(pass) : hidden'[q] = SubSeq(Sequence, 1, pos + q)
<1>1. /\ Sequence \in Contexts /\ Len(Sequence) = pos + Len(pass)
      /\ pos \in Nat /\ Len(pass) \in Nat \ {0} /\ layer \in Nat
  BY AttentionLayerRows, SequenceFacts
<1>2. PassExact /\ pc = "layers" /\ CleanPass
  BY AttentionLayerRows DEF IInv
<1>3. \A q \in 1..Len(pass) : hidden[q] = Input(layer, Sequence, pos + q)
  <2>1. \A q \in 1..Len(pass) : ~(q < t)
    BY <1>1, AttentionLayerRows
  <2> QED
    BY <1>2, <2>1 DEF PassExact
<1>4. ASSUME NEW i \in 1..(pos + Len(pass))
      PROVE  rows'[layer][i] = RefRow(layer, Sequence, i)
  <2>1. CASE i <= pos
    <3>1. i \in 1..pos /\ i \in 1..n_used[layer] /\ layer \in FullLayers
      BY <1>1, <2>1, AttentionLayerRows
    <3>2. rows[layer][i] = RefRow(layer, Sequence, i)
      BY <1>2, <3>1 DEF PassExact
    <3>3. rows'[layer][i] = rows[layer][i]
      BY <3>1, AttentionLayerRows
    <3> QED
      BY <3>2, <3>3
  <2>2. CASE i > pos
    <3> DEFINE q == i - pos
    <3>1. q \in 1..Len(pass) /\ pos + q = i /\ pos + q - 1 = i - 1
      BY <1>1, <2>2
    <3>2. rows'[layer][pos + q] = KvRow(hidden[q], pos + q - 1)
      BY <3>1, AttentionLayerRows
    <3>3. hidden[q] = Input(layer, Sequence, pos + q)
      BY <1>3, <3>1
    <3> QED
      BY <3>1, <3>2, <3>3 DEF RefRow
  <2> QED
    BY <1>1, <2>1, <2>2
<1>5. ASSUME NEW q \in 1..Len(pass)
      PROVE  hidden'[q] = SubSeq(Sequence, 1, pos + q)
  <2>1. Len(pass) = 1 \/ pos = 0
    BY <1>2 DEF CleanPass
  <2>2. VisibleRows(q, Len(pass), pos + Len(pass)) = pos + q
    BY <1>1, <2>1, VisibleRowsFacts
  <2>3. hidden'[q] = Attend(layer, hidden[q], pos + q - 1, rows'[layer], pos + q)
    BY <2>2, AttentionLayerRows
  <2> DEFINE m == pos + q
  <2>4. m \in 1..Len(Sequence) /\ \A i \in 1..m : rows'[layer][i] = RefRow(layer, Sequence, i)
    BY <1>1, <1>4
  <2>5. Attend(layer, Input(layer, Sequence, m), m - 1, rows'[layer], m) = SubSeq(Sequence, 1, m)
    BY <1>1, <2>4, AttendExact
  <2>6. hidden[q] = Input(layer, Sequence, m) /\ m - 1 = pos + q - 1 /\ m = pos + q
    BY <1>1, <1>3
  <2> HIDE DEF m
  <2>7. hidden'[q] = Attend(layer, Input(layer, Sequence, m), m - 1, rows'[layer], m)
    BY <2>3, <2>6
  <2> QED
    BY <2>5, <2>6, <2>7
<1> QED
  BY <1>4, <1>5

LEMMA AttentionLayerInv ==
  ASSUME IInv, AttentionLayer
  PROVE  IInv'
<1>1. TypeOK'
  <2>1. hidden \in Seq(Value) /\ layer \in Nat
    BY AttentionLayerRows DEF TypeOK
  <2>2. \A q \in 1..Len(pass) : hidden'[q] \in Value
    <3> SUFFICES ASSUME NEW q \in 1..Len(pass)
                 PROVE  hidden'[q] \in Value
      OBVIOUS
    <3> DEFINE m == VisibleRows(q, Len(pass), pos + Len(pass))
    <3>1. m \in 1..(pos + Len(pass))
      BY AttentionLayerRows, VisibleRowsFacts
    <3>2. \A i \in 1..m : rows'[layer][i] \in Row
      <4>1. rows'[layer] \in Seq(Row) /\ m \in Nat /\ m <= Len(rows'[layer])
            /\ Len(rows'[layer]) \in Nat
        BY <3>1, AttentionLayerRows
      <4> HIDE DEF m
      <4> QED
        BY <4>1
    <3>3. hidden'[q] = Attend(layer, hidden[q], pos + q - 1, rows'[layer], m)
      BY AttentionLayerRows
    <3>4. hidden[q] \in Value /\ pos + q - 1 \in Nat
      BY <2>1, AttentionLayerRows
    <3> HIDE DEF m
    <3>5. m \in Nat
      BY <3>1
    <3> QED
      BY <2>1, <3>2, <3>3, <3>4, <3>5, AttendType
  <2>3. hidden' \in [1..Len(pass) -> Value]
    BY <2>2, AttentionLayerRows
  <2>4. hidden' \in Seq(Value)
    <3>1. Len(pass) \in Nat
      BY AttentionLayerRows
    <3> QED
      BY <2>3, <3>1
  <2>5. layer' \in 0..BlockCount
    BY AttentionLayerRows, LayerFacts
  <2>6. moe_cache' \subseteq MoeLayers
    BY AttentionLayerRows DEF TypeOK
  <2> QED
    BY <2>4, <2>5, <2>6, AttentionLayerRows DEF TypeOK
<1>2. Aligned'
  <2>1. ASSUME NEW l \in FullLayers
        PROVE  /\ n_used'[l] = pos' + (IF pc' = "layers" /\ l < layer' THEN Len(pass') ELSE 0)
               /\ n_used'[l] <= Len(rows'[l])
               /\ Len(rows'[l]) < 2 * NCtx
    <3>0. l \in Nat
      BY LayerFacts
    <3>1. CASE l = layer
      BY <3>0, <3>1, AttentionLayerRows
    <3>2. CASE l # layer
      <4>1. l < layer' <=> l < layer
        BY <3>0, <3>2, AttentionLayerRows
      <4> QED
        BY <3>2, <4>1, AttentionLayerRows DEF Aligned
    <3> QED
      BY <3>1, <3>2
  <2>2. \A l \in MoeLayers : fed' # <<>> \/ l < layer' => l \in moe_cache'
    <3> SUFFICES ASSUME NEW l \in MoeLayers, fed' # <<>> \/ l < layer'
                 PROVE  l \in moe_cache'
      OBVIOUS
    <3>1. l \in Nat
      BY LayerFacts
    <3>2. fed # <<>> \/ l < layer \/ l = layer
      BY <3>1, AttentionLayerRows
    <3> QED
      BY <3>2, AttentionLayerRows DEF Aligned
  <2> QED
    BY <2>1, <2>2, AttentionLayerRows DEF Aligned
<1>3. CallShape'
  BY AttentionLayerRows DEF CallShape, IInv
<1>4. PassShape'
  <2>1. Len(hidden') = Len(pass)
    BY AttentionLayerRows
  <2>2. t' \in 1..Len(pass)
    BY AttentionLayerRows
  <2> QED
    BY <2>1, <2>2, AttentionLayerRows DEF PassShape, IInv
<1>5. SnapShape'
  BY AttentionLayerRows DEF SnapShape, Speculating, IInv
<1>6. RestExact' /\ JudgeExact' /\ AcceptedExact'
  BY AttentionLayerRows DEF RestExact, JudgeExact, AcceptedExact, IInv
<1>7. SnapExact'
  <2> SUFFICES ASSUME Speculating, snap.clean
               PROVE  /\ \A l \in DeltaLayers : snap.conv[l] = snap.fed /\ snap.ssm[l] = snap.fed
                      /\ \A l \in FullLayers : \A i \in 1..snap.pos :
                           rows'[l][i] = RefRow(l, snap.fed, i)
    BY AttentionLayerRows DEF SnapExact, Speculating
  <2>1. SnapExact /\ SnapShape
    BY DEF IInv
  <2>2. snap.pos = pos
    BY <2>1, AttentionLayerRows DEF SnapShape, Aligned
  <2>3. ASSUME NEW l \in FullLayers, NEW i \in 1..snap.pos
        PROVE  rows'[l][i] = rows[l][i]
    BY <2>2, AttentionLayerRows
  <2> QED
    BY <2>1, <2>3 DEF SnapExact
<1>8. PassExact'
  <2> SUFFICES ASSUME CleanPass
               PROVE  /\ \A l \in DeltaLayers :
                           /\ conv[l] = SubSeq(Sequence, 1, DeltaCount(l)')
                           /\ ssm[l] = SubSeq(Sequence, 1, DeltaCount(l)')
                      /\ \A l \in FullLayers : \A i \in 1..n_used'[l] :
                           rows'[l][i] = RefRow(l, Sequence, i)
                      /\ \A q \in 1..Len(pass) :
                           hidden'[q] = Input(IF q < t' THEN layer' + 1 ELSE layer', Sequence, pos + q)
    BY AttentionLayerRows DEF PassExact, CleanPass, Sequence
  <2>1. PassExact /\ pc = "layers"
    BY AttentionLayerRows DEF IInv
  <2>2. ASSUME NEW l \in DeltaLayers
        PROVE  DeltaCount(l)' = DeltaCount(l)
    <3>1. l \in Nat /\ l # layer
      BY AttentionLayerRows, LayerFacts
    <3> QED
      BY <3>1, AttentionLayerRows DEF DeltaCount, Sequence
  <2>3. ASSUME NEW l \in FullLayers, NEW i \in 1..n_used'[l]
        PROVE  rows'[l][i] = RefRow(l, Sequence, i)
    <3>1. CASE l = layer
      BY <3>1, AttentionLayerRows, AttentionLayerExact
    <3>2. CASE l # layer
      BY <2>1, <3>2, AttentionLayerRows DEF PassExact
    <3> QED
      BY <3>1, <3>2
  <2>4. ASSUME NEW q \in 1..Len(pass)
        PROVE  hidden'[q] = Input(IF q < t' THEN layer' + 1 ELSE layer', Sequence, pos + q)
    <3>1. ~(q < t') /\ layer' # 0
      BY AttentionLayerRows
    <3>2. Input(layer', Sequence, pos + q) = SubSeq(Sequence, 1, pos + q)
      BY <3>1 DEF Input
    <3> QED
      BY <3>1, <3>2, AttentionLayerExact
  <2> QED
    BY <2>1, <2>2, <2>3, <2>4 DEF PassExact
<1> QED
  BY <1>1, <1>2, <1>3, <1>4, <1>5, <1>6, <1>7, <1>8 DEF IInv

\* The end of a pass.
LEMMA CommitExact ==
  ASSUME IInv, CommitPass
  PROVE  /\ pc = "layers" /\ layer = BlockCount /\ TypeOK /\ Aligned
         /\ pos' = pos + Len(pass) /\ fed' = Sequence /\ clean' = CleanPass
         /\ UNCHANGED <<n_used, rows, conv, ssm, moe_cache>>
         /\ Len(pass) \in Nat \ {0} /\ Len(hidden) = Len(pass) /\ pos \in Nat
         /\ fed' \in Contexts /\ fed' # <<>> /\ pos' = Len(fed') /\ pos' \in 0..NCtx
         /\ pos' + Len(todo) <= NCtx
         /\ \A l \in FullLayers : n_used'[l] = pos'
         /\ clean' => Exact'
         /\ clean' => \A q \in 1..Len(pass) : hidden[q] = SubSeq(fed', 1, pos + q)
<1>1. TypeOK /\ Aligned /\ PassShape
  BY DEF IInv
<1>2. /\ pc = "layers" /\ layer = BlockCount
      /\ pos' = pos + Len(pass) /\ fed' = Sequence /\ clean' = CleanPass
      /\ UNCHANGED <<n_used, rows, conv, ssm, moe_cache>>
  BY DEF CommitPass, Sequence
<1>3. layer \notin DeltaLayers
  BY <1>2, LayerFacts
<1>4. Len(pass) \in Nat \ {0} /\ Len(hidden) = Len(pass) /\ t = 1
  BY <1>1, <1>2, <1>3, EmptySeq DEF PassShape, TypeOK, Contexts
<1>5. /\ Sequence \in Contexts /\ Len(Sequence) = pos + Len(pass) /\ pos \in Nat
  BY <1>1, SequenceFacts
<1>6. pos' = Len(fed') /\ fed' \in Contexts /\ fed' # <<>>
  BY <1>2, <1>4, <1>5, EmptyContext
<1>7. \A l \in FullLayers : l < layer
  BY <1>2, LayerFacts
<1>8. \A l \in FullLayers : n_used'[l] = pos'
  BY <1>1, <1>2, <1>7 DEF Aligned
<1>9. pos' \in 0..NCtx /\ pos' + Len(todo) <= NCtx
  <2>1. Len(todo) \in Nat /\ NCtx \in Nat
    BY <1>1, LayerFacts DEF TypeOK, Contexts
  <2>2. pos + Len(pass) + Len(todo) <= NCtx
    BY <1>1, <1>2 DEF Aligned
  <2> QED
    BY <1>2, <1>4, <1>5, <2>1, <2>2
<1>10. ASSUME clean'
       PROVE  Exact' /\ \A q \in 1..Len(pass) : hidden[q] = SubSeq(fed', 1, pos + q)
  <2>1. PassExact /\ pc = "layers" /\ CleanPass
    BY <1>2, <1>10 DEF IInv
  <2>2. ASSUME NEW l \in DeltaLayers
        PROVE  conv'[l] = fed' /\ ssm'[l] = fed'
    <3>1. DeltaCount(l) = Len(Sequence)
      BY <1>2, LayerFacts DEF DeltaCount
    <3>2. SubSeq(Sequence, 1, Len(Sequence)) = Sequence
      BY <1>5, PrefixFull
    <3> QED
      BY <1>2, <2>1, <3>1, <3>2 DEF PassExact
  <2>3. ASSUME NEW l \in FullLayers, NEW i \in 1..n_used'[l]
        PROVE  rows'[l][i] = RefRow(l, fed', i)
    BY <1>2, <2>1 DEF PassExact
  <2>4. ASSUME NEW q \in 1..Len(pass)
        PROVE  hidden[q] = SubSeq(fed', 1, pos + q)
    <3>1. ~(q < t) /\ layer # 0
      BY <1>2, <1>4, LayerFacts
    <3>2. Input(layer, Sequence, pos + q) = SubSeq(Sequence, 1, pos + q)
      BY <3>1 DEF Input
    <3> QED
      BY <1>2, <2>1, <3>1, <3>2 DEF PassExact
  <2> QED
    BY <2>2, <2>3, <2>4 DEF Exact
<1> QED
  BY <1>1, <1>2, <1>4, <1>5, <1>6, <1>8, <1>9, <1>10

\* The counters after it.
LEMMA CommitAligned ==
  ASSUME IInv, CommitPass, pc' # "layers", todo' \in Contexts, Len(todo') <= Len(todo),
         pc' = "judge" => snap'.pos + Len(pass') = pos'
  PROVE  Aligned'
<1>1. \A l \in FullLayers : /\ n_used'[l] = pos' /\ pos' \in Nat /\ n_used'[l] <= Len(rows'[l])
                            /\ Len(rows'[l]) < 2 * NCtx
  BY CommitExact DEF Aligned
<1>2. pos' + Len(todo') <= NCtx
  <2>1. Len(todo') \in Nat /\ Len(todo) \in Nat /\ NCtx \in Nat /\ pos' \in Nat
    BY CommitExact, LayerFacts DEF TypeOK, Contexts
  <2> QED
    BY <2>1, CommitExact
<1>3. \A l \in MoeLayers : l \in moe_cache'
  <2>1. \A l \in MoeLayers : l < layer
    BY CommitExact, LayerFacts
  <2> QED
    BY <2>1, CommitExact DEF Aligned
<1>4. pos' = Len(fed') /\ pos' + 0 = pos'
  BY CommitExact
<1> QED
  BY <1>1, <1>2, <1>3, <1>4 DEF Aligned

LEMMA EndPassInv ==
  ASSUME IInv, EndPass
  PROVE  IInv'
<1>0. /\ CommitPass /\ UNCHANGED <<op, pass, todo, chunk, layer, t, hidden, draft, snap, reply>>
      /\ \/ op = "verify" /\ pc' = "judge"
         \/ op # "verify" /\ todo # <<>> /\ pc' = "chunk"
      /\ pc = "layers"
  BY DEF EndPass, MoreToDo, CommitPass, locals
<1>1. CallShape /\ PassShape /\ SnapShape /\ SnapExact /\ AcceptedExact
  BY DEF IInv
<1>2. op = "verify" => /\ fed = snap.fed /\ clean = snap.clean /\ snap.pos = pos
                       /\ snap.pos = Len(snap.fed)
  BY <1>0, <1>1, CommitExact DEF SnapShape, Speculating, Aligned
<1>3. TypeOK'
  <2>1. TypeOK
    BY DEF IInv
  <2>2. clean' \in BOOLEAN
    BY <1>0, <2>1, CommitExact DEF CleanPass, TypeOK
  <2> QED
    BY <1>0, <2>1, <2>2, CommitExact DEF TypeOK
<1>4. Aligned'
  <2>1. pc' = "judge" => snap'.pos + Len(pass') = pos'
    BY <1>0, <1>2, CommitExact
  <2>2. todo' \in Contexts /\ Len(todo') <= Len(todo) /\ pc' # "layers"
    BY <1>0, CommitExact DEF TypeOK, Contexts
  <2> QED
    BY <1>0, <2>1, <2>2, CommitAligned
<1>5. CallShape' /\ PassShape'
  BY <1>0, <1>1 DEF CallShape, PassShape
<1>6. SnapShape'
  <2> SUFFICES ASSUME Speculating
               PROVE  /\ snap.pos = Len(snap.fed)
                      /\ \A l \in FullLayers : snap.n_used[l] = snap.pos
                      /\ pc' = "judge" =>
                           /\ fed' = snap.fed \o pass
                           /\ clean' = (snap.clean /\ (Len(pass) = 1 \/ snap.pos = 0))
    BY <1>0 DEF SnapShape, Speculating
  <2>1. snap.pos = Len(snap.fed) /\ \A l \in FullLayers : snap.n_used[l] = snap.pos
    BY <1>1 DEF SnapShape
  <2>2. pc' = "judge" => op = "verify"
    BY <1>0
  <2>3. pc' = "judge" => fed' = snap.fed \o pass
    BY <1>0, <1>2, <2>2, CommitExact DEF Sequence
  <2>4. pc' = "judge" => clean' = (snap.clean /\ (Len(pass) = 1 \/ snap.pos = 0))
    <3>1. pc' = "judge" => /\ clean' = CleanPass /\ clean = snap.clean /\ pos = snap.pos
      BY <1>0, <1>2, <2>2, CommitExact
    <3>2. pc' = "judge" => clean' = (clean /\ (Len(pass) = 1 \/ pos = 0))
      BY <3>1 DEF CleanPass
    <3> QED
      BY <3>1, <3>2
  <2> QED
    BY <2>1, <2>3, <2>4
<1>7. RestExact'
  BY <1>0, CommitExact DEF RestExact
<1>8. PassExact'
  BY <1>0 DEF PassExact
<1>9. SnapExact' /\ AcceptedExact'
  BY <1>0, <1>1, CommitExact DEF SnapExact, Speculating, AcceptedExact
<1>10. JudgeExact'
  BY <1>0, <1>2, CommitExact DEF JudgeExact
<1> QED
  BY <1>3, <1>4, <1>5, <1>6, <1>7, <1>8, <1>9, <1>10 DEF IInv

\* What a call says at its end.
LEMMA ReturnReply ==
  ASSUME IInv, Return
  PROVE  /\ op \in {"prefill", "chunked", "generate", "refeed"} /\ todo = <<>>
         /\ reply' \in ReplyType
         /\ op \in {"prefill", "chunked"} => reply'.token = NoToken
         /\ op \in {"generate", "refeed"} =>
              reply'.token \in Token /\ (clean' => reply'.token = Greedy(fed'))
<1>0. CommitPass /\ ~MoreToDo /\ reply' \in Replies /\ pc = "layers"
  BY DEF Return, CommitPass
<1>1. TypeOK /\ CallShape
  BY DEF IInv
<1>2. op \in {"prefill", "chunked", "generate", "refeed"} /\ todo = <<>>
  BY <1>0, <1>1 DEF MoreToDo, CallShape, TypeOK
<1>3. CASE op \in {"prefill", "chunked"}
  <2>1. reply' = [NoReply EXCEPT !.kind = "ok"]
    BY <1>0, <1>3 DEF Replies
  <2>2. reply' \in ReplyType /\ reply'.token = NoToken
    BY <2>1, EmptyContext DEF NoReply, ReplyType
  <2> QED
    BY <1>2, <1>3, <2>2
<1>4. CASE op \in {"generate", "refeed"}
  <2>1. PICK tok \in Argmax(hidden[Len(pass)]) :
          reply' = [kind |-> op, accepted |-> Tail(pass), token |-> tok]
    BY <1>0, <1>4 DEF Replies
  <2>2. tok \in Token
    BY <2>1 DEF Argmax
  <2>3. Tail(pass) \in Contexts
    <3>1. pass \in Seq(Token) /\ pass # <<>>
      BY <1>0, <1>1, CommitExact, EmptyContext DEF TypeOK, Contexts
    <3> QED
      BY <3>1, HeadTailProperties DEF Contexts
  <2>4. reply' \in ReplyType /\ reply'.token = tok
    BY <1>4, <2>1, <2>2, <2>3 DEF ReplyType
  <2>5. ASSUME clean'
        PROVE  tok = Greedy(fed')
    <3>1. /\ Len(pass) \in 1..Len(pass) /\ Len(fed') = pos + Len(pass) /\ fed' \in Contexts
      BY <1>0, CommitExact
    <3>2. hidden[Len(pass)] = fed'
      <4>1. hidden[Len(pass)] = SubSeq(fed', 1, pos + Len(pass))
        BY <1>0, <2>5, <3>1, CommitExact
      <4> QED
        BY <3>1, <4>1, PrefixFull
    <3>3. hidden[Len(pass)] # Wrong
      BY <3>1, <3>2, WrongAssumption
    <3> QED
      BY <2>1, <3>2, <3>3 DEF Argmax
  <2> QED
    BY <1>2, <1>4, <2>2, <2>4, <2>5
<1> QED
  BY <1>2, <1>3, <1>4

LEMMA ReturnInv ==
  ASSUME IInv, Return
  PROVE  IInv'
<1>0. /\ CommitPass /\ pc' = "idle" /\ op' = "none"
      /\ pass' = <<>> /\ todo' = <<>> /\ chunk' = 0 /\ layer' = 0 /\ t' = 1
      /\ hidden' = <<>> /\ draft' = <<>> /\ snap' = NoSnapshot
  BY DEF Return
<1>1. TypeOK'
  <2>1. ZeroState \in [DeltaLayers -> Value]
    BY EmptyContext DEF ZeroState, Value
  <2>2. snap' \in SnapshotType
    BY <1>0, <2>1, EmptyContext, LayerFacts DEF NoSnapshot, SnapshotType
  <2>3. layer' \in 0..BlockCount
    BY <1>0, LayerFacts
  <2>4. clean' \in BOOLEAN
    BY <1>0, CommitExact DEF CleanPass, TypeOK
  <2>5. hidden' \in Seq(Value)
    BY <1>0
  <2>6. /\ n_used' \in [FullLayers -> 0..NCtx] /\ rows' \in [FullLayers -> Seq(Row)]
        /\ conv' \in [DeltaLayers -> Value] /\ ssm' \in [DeltaLayers -> Value]
        /\ pos' \in 0..NCtx /\ moe_cache' \subseteq MoeLayers /\ fed' \in Contexts
    BY <1>0, CommitExact DEF TypeOK
  <2> QED
    BY <1>0, <2>2, <2>3, <2>4, <2>5, <2>6, EmptyContext, ReturnReply DEF TypeOK
<1>2. Aligned'
  <2>1. todo' \in Contexts /\ Len(todo') <= Len(todo)
    BY <1>0, EmptyContext, CommitExact DEF TypeOK, Contexts
  <2>2. pc' # "layers" /\ pc' # "judge"
    BY <1>0
  <2> QED
    BY <1>0, <2>1, <2>2, CommitAligned
<1>3. CallShape' /\ PassShape' /\ SnapShape'
  BY <1>0 DEF CallShape, PassShape, SnapShape, Speculating
<1>4. RestExact'
  BY <1>0, CommitExact DEF RestExact
<1>5. PassExact' /\ SnapExact' /\ JudgeExact' /\ AcceptedExact'
  BY <1>0 DEF PassExact, SnapExact, Speculating, JudgeExact, AcceptedExact
<1> QED
  BY <1>1, <1>2, <1>3, <1>4, <1>5 DEF IInv

LEMMA NextChunkInv ==
  ASSUME IInv, NextChunk
  PROVE  IInv'
<1>0. /\ pc = "chunk" /\ BeginPass(Chunk(todo, chunk)) /\ todo' = Rest(todo, chunk)
      /\ UNCHANGED <<n_used, rows, conv, ssm, pos, moe_cache, op, chunk, draft, snap, reply, fed, clean>>
  BY DEF NextChunk, state
<1>1. TypeOK /\ Aligned /\ CallShape /\ (clean => Exact)
  BY <1>0 DEF IInv, RestExact
<1>2. todo \in Contexts /\ todo # <<>> /\ op = "chunked" /\ chunk \in Nat \ {0}
  BY <1>0, <1>1 DEF CallShape, TypeOK
<1> DEFINE ts == Chunk(todo, chunk)
<1>3. ts \in Contexts /\ ts # <<>> /\ todo' \in Contexts /\ Len(ts) + Len(todo') = Len(todo)
  BY <1>0, <1>2, ChunkFacts
<1> HIDE DEF ts
<1>4. BeginPass(ts)
  BY <1>0 DEF ts
<1>5. /\ pc' = "layers" /\ pass' = ts /\ layer' = 0 /\ t' = 1
      /\ hidden' \in Seq(Value) /\ Len(hidden') = Len(ts) /\ Len(ts) \in Nat \ {0}
  BY <1>3, <1>4, BeginType
<1>6. TypeOK'
  <2>1. layer' \in 0..BlockCount
    BY <1>5, LayerFacts
  <2> QED
    BY <1>0, <1>1, <1>3, <1>5, <2>1 DEF TypeOK
<1>7. Aligned'
  <2>1. \A l \in FullLayers :
          /\ n_used'[l] = pos' + (IF pc' = "layers" /\ l < layer' THEN Len(pass') ELSE 0)
          /\ n_used'[l] <= Len(rows'[l])
          /\ Len(rows'[l]) < 2 * NCtx
    BY <1>0, <1>1, <1>5, LayerFacts DEF Aligned, TypeOK
  <2>2. pos' + Len(pass') + Len(todo') <= NCtx
    <3>1. pos \in Nat /\ Len(todo') \in Nat /\ NCtx \in Nat /\ Len(todo) \in Nat /\ pos + 0 + Len(todo) <= NCtx
      BY <1>0, <1>1, <1>3, LayerFacts DEF Aligned, TypeOK, Contexts
    <3> QED
      BY <1>0, <1>3, <1>5, <3>1
  <2>3. \A l \in MoeLayers : fed' # <<>> \/ l < layer' => l \in moe_cache'
    BY <1>0, <1>1, <1>5, LayerFacts DEF Aligned
  <2>4. pos' = Len(fed')
    BY <1>0, <1>1 DEF Aligned
  <2> QED
    BY <1>5, <2>1, <2>2, <2>3, <2>4 DEF Aligned
<1>8. CallShape' /\ PassShape' /\ SnapShape'
  BY <1>0, <1>1, <1>2, <1>5 DEF CallShape, PassShape, SnapShape, Speculating
<1>9. RestExact' /\ JudgeExact' /\ SnapExact' /\ AcceptedExact'
  BY <1>0, <1>2, <1>5 DEF RestExact, JudgeExact, SnapExact, Speculating, AcceptedExact
<1>10. PassExact'
  <2>1. clean' => Exact'
    BY <1>0, <1>1 DEF Exact
  <2>2. fed' \in Contexts /\ pos' = Len(fed') /\ \A l \in FullLayers : n_used'[l] = pos'
    BY <1>0, <1>1, LayerFacts DEF Aligned, TypeOK
  <2> QED
    BY <1>3, <1>4, <2>1, <2>2, BeginExact
<1> QED
  BY <1>6, <1>7, <1>8, <1>9, <1>10 DEF IInv

\* A verdict: the draft prefix it keeps, and the state it goes back to.
LEMMA JudgeFacts ==
  ASSUME IInv, Judge
  PROVE  /\ pc = "judge" /\ op = "verify" /\ todo = <<>> /\ TypeOK /\ Aligned
         /\ snap.fed \in Contexts /\ snap.pos = Len(snap.fed) /\ snap.pos \in Nat
         /\ \A l \in FullLayers : snap.n_used[l] = snap.pos
         /\ fed = snap.fed \o pass /\ pos = snap.pos + Len(pass) /\ pos <= NCtx
         /\ snap.clean => \A l \in DeltaLayers : snap.conv[l] = snap.fed /\ snap.ssm[l] = snap.fed
         /\ n_used' = snap.n_used /\ conv' = snap.conv /\ ssm' = snap.ssm /\ pos' = snap.pos
         /\ fed' = snap.fed /\ clean' = snap.clean /\ op' = "refeed"
         /\ UNCHANGED <<rows, moe_cache, todo, chunk, draft, snap, reply>>
         /\ \E r \in Agreeing :
              /\ BeginPass(SubSeq(pass, 1, 1 + r))
              /\ SubSeq(pass, 1, 1 + r) \in Contexts /\ SubSeq(pass, 1, 1 + r) # <<>>
              /\ Len(SubSeq(pass, 1, 1 + r)) = 1 + r
              /\ r \in Nat /\ 1 + r <= Len(pass)
<1>1. TypeOK /\ Aligned /\ CallShape /\ PassShape /\ SnapShape /\ SnapExact
  BY DEF IInv
<1>2. pc = "judge" /\ op = "verify" /\ Speculating
  BY <1>1 DEF Judge, CallShape, Speculating
<1>3. todo = <<>>
  BY <1>1, <1>2 DEF CallShape
<1>4. /\ snap.pos = Len(snap.fed) /\ \A l \in FullLayers : snap.n_used[l] = snap.pos
      /\ fed = snap.fed \o pass
  BY <1>1, <1>2 DEF SnapShape
<1>5. snap.fed \in Contexts /\ snap.pos \in Nat /\ pass \in Contexts /\ draft \in Contexts /\ NCtx \in Nat
  BY <1>1, LayerFacts DEF TypeOK, SnapshotType
<1>6. Len(pass) = 1 + Len(draft) /\ Len(draft) \in Nat
  BY <1>1, <1>2, <1>5 DEF PassShape, Contexts
<1>7. pos = snap.pos + Len(pass) /\ pos <= NCtx
  <2>1. Len(fed) = Len(snap.fed) + Len(pass)
    BY <1>4, <1>5, ConcatType
  <2>2. pos \in 0..NCtx /\ pos = Len(fed)
    BY <1>1 DEF TypeOK, Aligned
  <2> QED
    BY <1>4, <1>5, <2>1, <2>2
<1>8. PICK r \in Agreeing :
        IF Fits(snap.pos, 1 + r)
        THEN /\ op' = "refeed"
             /\ BeginPass(SubSeq(pass, 1, 1 + r))
             /\ UNCHANGED <<todo, chunk, draft, snap, reply>>
        ELSE /\ reply' = ErrReply
             /\ pc' = "idle" /\ op' = "none"
             /\ UNCHANGED locals
  BY DEF Judge
<1>9. r \in Nat /\ 1 + r <= Len(pass) /\ Fits(snap.pos, 1 + r)
  <2>1. r \in 0..Len(draft)
    BY DEF Agreeing
  <2> QED
    BY <1>5, <1>6, <1>7, <2>1 DEF Fits
<1>10. /\ op' = "refeed" /\ BeginPass(SubSeq(pass, 1, 1 + r))
       /\ UNCHANGED <<todo, chunk, draft, snap, reply>>
  BY <1>8, <1>9
<1>11. /\ SubSeq(pass, 1, 1 + r) \in Contexts /\ Len(SubSeq(pass, 1, 1 + r)) = 1 + r
  <2>1. 1 + r \in 0..Len(pass)
    BY <1>6, <1>9
  <2> QED
    BY <1>5, <2>1, PrefixType
<1>12. SubSeq(pass, 1, 1 + r) # <<>>
  BY <1>9, <1>11, EmptyContext
<1>13. /\ n_used' = snap.n_used /\ conv' = snap.conv /\ ssm' = snap.ssm /\ pos' = snap.pos
       /\ UNCHANGED <<rows, moe_cache>>
       /\ fed' = snap.fed /\ clean' = snap.clean
  BY DEF Judge, Restore
<1>14. snap.clean => \A l \in DeltaLayers : snap.conv[l] = snap.fed /\ snap.ssm[l] = snap.fed
  BY <1>1, <1>2 DEF SnapExact
<1> QED
  BY <1>1, <1>2, <1>3, <1>4, <1>5, <1>7, <1>9, <1>10, <1>11, <1>12, <1>13, <1>14

\* The tokens a verdict keeps are the model's choices, when its activations
\* can be trusted.
LEMMA AgreeingExact ==
  ASSUME IInv, Judge, snap.clean, snap.fed = <<>>, NEW r \in Agreeing,
         NEW i \in 2..(1 + r)
  PROVE  pass[i] = Greedy(SubSeq(pass, 1, i - 1))
<1>1. /\ pc = "judge" /\ fed = snap.fed \o pass /\ snap.pos = 0 /\ clean
      /\ Len(pass) = 1 + Len(draft) /\ Tail(pass) = draft /\ pass \in Contexts /\ pass # <<>>
      /\ JudgeExact
  <2>1. pc = "judge" /\ op = "verify" /\ fed = snap.fed \o pass /\ snap.pos = 0
    BY JudgeFacts, EmptyContext
  <2>2. PassShape /\ SnapShape /\ JudgeExact /\ pass \in Contexts
    BY DEF IInv, TypeOK
  <2>3. clean
    BY <2>1, <2>2 DEF SnapShape, Speculating
  <2> QED
    BY <2>1, <2>2, <2>3 DEF PassShape
<1>2. /\ r \in 0..Len(draft) /\ Len(draft) \in Nat
      /\ \A k \in 1..r : draft[k] \in Argmax(hidden[k])
  <2>1. draft \in Contexts
    BY DEF IInv, TypeOK
  <2> QED
    BY <2>1 DEF Agreeing, Contexts
<1> DEFINE k == i - 1
<1>3. k \in 1..r /\ k \in 1..Len(draft) /\ k \in 1..Len(pass) /\ k + 1 = i /\ k \in 0..Len(pass)
  BY <1>1, <1>2
<1>4. draft[k] = pass[k + 1]
  BY <1>1, <1>3, HeadTailProperties DEF Contexts
<1>5. fed = pass
  BY <1>1, ConcatEmptySeq DEF Contexts
<1>6. hidden[k] = SubSeq(pass, 1, k)
  BY <1>1, <1>3, <1>5 DEF JudgeExact
<1>7. hidden[k] # Wrong
  <2>1. SubSeq(pass, 1, k) \in Contexts
    BY <1>1, <1>3, PrefixType
  <2> QED
    BY <1>6, <2>1, WrongAssumption
<1>8. draft[k] = Greedy(hidden[k])
  BY <1>2, <1>3, <1>7 DEF Argmax
<1> QED
  BY <1>3, <1>4, <1>6, <1>8

LEMMA JudgeInv ==
  ASSUME IInv, Judge
  PROVE  IInv'
<1>1. PICK r \in Agreeing :
        /\ BeginPass(SubSeq(pass, 1, 1 + r))
        /\ SubSeq(pass, 1, 1 + r) \in Contexts /\ SubSeq(pass, 1, 1 + r) # <<>>
        /\ Len(SubSeq(pass, 1, 1 + r)) = 1 + r
        /\ r \in Nat /\ 1 + r <= Len(pass)
  BY JudgeFacts
<1> DEFINE ts == SubSeq(pass, 1, 1 + r)
<1>2. BeginPass(ts) /\ ts \in Contexts /\ ts # <<>> /\ Len(ts) = 1 + r
  BY <1>1
<1>3. TypeOK /\ Aligned /\ CallShape /\ SnapExact /\ Speculating /\ Len(pass) \in Nat
  <2>1. TypeOK /\ Aligned /\ CallShape /\ SnapExact
    BY DEF IInv
  <2>2. Speculating
    BY JudgeFacts DEF Speculating
  <2>3. Len(pass) \in Nat
    BY <2>1 DEF TypeOK, Contexts
  <2> QED
    BY <2>1, <2>2, <2>3
<1> HIDE DEF ts
<1>4. /\ pc' = "layers" /\ pass' = ts /\ layer' = 0 /\ t' = 1
      /\ hidden' \in Seq(Value) /\ Len(hidden') = Len(ts) /\ Len(ts) \in Nat \ {0}
  BY <1>2, BeginType
<1>5. TypeOK'
  <2>1. layer' \in 0..BlockCount
    BY <1>4, LayerFacts
  <2>2. snap \in SnapshotType
    BY <1>3 DEF TypeOK
  <2>3. /\ n_used' \in [FullLayers -> 0..NCtx] /\ conv' \in [DeltaLayers -> Value]
        /\ ssm' \in [DeltaLayers -> Value] /\ pos' \in 0..NCtx
        /\ fed' \in Contexts /\ clean' \in BOOLEAN
    BY <2>2, JudgeFacts DEF SnapshotType
  <2>4. /\ rows' \in [FullLayers -> Seq(Row)] /\ moe_cache' \subseteq MoeLayers
        /\ todo' \in Contexts /\ draft' \in Contexts /\ chunk' \in Nat /\ reply' \in ReplyType
        /\ snap' \in SnapshotType
    BY <1>3, <2>2, JudgeFacts DEF TypeOK
  <2> QED
    BY <1>2, <1>4, <2>1, <2>3, <2>4, JudgeFacts DEF TypeOK
<1>6. Aligned'
  <2>1. \A l \in FullLayers :
          /\ n_used'[l] = pos' + (IF pc' = "layers" /\ l < layer' THEN Len(pass') ELSE 0)
          /\ n_used'[l] <= Len(rows'[l])
          /\ Len(rows'[l]) < 2 * NCtx
    <3> SUFFICES ASSUME NEW l \in FullLayers
                 PROVE  /\ n_used'[l] = pos' + (IF pc' = "layers" /\ l < layer' THEN Len(pass') ELSE 0)
                        /\ n_used'[l] <= Len(rows'[l])
                        /\ Len(rows'[l]) < 2 * NCtx
      OBVIOUS
    <3>1. ~(l < layer')
      BY <1>4, LayerFacts
    <3>2. /\ n_used[l] = pos + 0 /\ n_used[l] <= Len(rows[l]) /\ Len(rows[l]) < 2 * NCtx
          /\ Len(rows[l]) \in Nat
      BY <1>3, JudgeFacts DEF Aligned, TypeOK
    <3>3. n_used'[l] = pos' /\ pos' \in Nat /\ pos' <= pos /\ pos \in Nat /\ rows' = rows
      BY <1>3, JudgeFacts
    <3>4. pos' <= Len(rows[l])
      BY <3>2, <3>3
    <3>5. (IF pc' = "layers" /\ l < layer' THEN Len(pass') ELSE 0) = 0
      BY <3>1
    <3>6. n_used'[l] = pos' + 0
      <4>1. pos' + 0 = pos'
        BY JudgeFacts
      <4> QED
        BY <3>3, <4>1
    <3>7. n_used'[l] <= Len(rows'[l]) /\ Len(rows'[l]) < 2 * NCtx
      BY <3>2, <3>3, <3>4
    <3> QED
      BY <3>5, <3>6, <3>7
  <2>2. pos' + Len(pass') + Len(todo') <= NCtx
    <3>1. todo' = <<>> /\ Len(<<>>) = 0 /\ NCtx \in Nat
      BY JudgeFacts, EmptyContext, LayerFacts
    <3>2. pos' \in Nat /\ pos' + Len(pass) <= NCtx
      BY JudgeFacts
    <3> QED
      BY <1>1, <1>2, <1>3, <1>4, <3>1, <3>2
  <2>3. \A l \in MoeLayers : l \in moe_cache'
    <3>1. fed # <<>>
      <4>1. Len(fed) = pos /\ pos = snap.pos + Len(pass) /\ snap.pos \in Nat /\ Len(pass) >= 1
        BY <1>1, <1>3, JudgeFacts DEF Aligned
      <4> QED
        BY <1>3, <4>1, EmptyContext
    <3> QED
      BY <1>3, <3>1, JudgeFacts DEF Aligned
  <2>4. pos' = Len(fed')
    BY JudgeFacts
  <2> QED
    BY <1>4, <2>1, <2>2, <2>3, <2>4 DEF Aligned
<1>7. CallShape' /\ PassShape'
  BY <1>3, <1>4, JudgeFacts DEF CallShape, PassShape
<1>8. SnapShape'
  BY <1>4, JudgeFacts DEF SnapShape, Speculating
<1>9. RestExact' /\ JudgeExact'
  BY <1>4 DEF RestExact, JudgeExact
<1>10. SnapExact'
  BY <1>3, JudgeFacts DEF SnapExact, Speculating
<1>11. PassExact'
  <2>1. clean' => Exact'
    BY <1>3, JudgeFacts DEF Exact, SnapExact
  <2>2. fed' \in Contexts /\ pos' = Len(fed') /\ \A l \in FullLayers : n_used'[l] = pos'
    BY JudgeFacts
  <2> QED
    BY <1>2, <2>1, <2>2, BeginExact
<1>12. AcceptedExact'
  <2> SUFFICES ASSUME snap.clean, snap.fed = <<>>, NEW i \in 2..Len(ts)
               PROVE  ts[i] = Greedy(SubSeq(ts, 1, i - 1))
    BY <1>4, JudgeFacts DEF AcceptedExact
  <2>1. i \in 2..(1 + r) /\ i \in 1..(1 + r) /\ i - 1 \in 0..(1 + r) /\ 1 + r \in 0..Len(pass)
    BY <1>1, <1>2, <1>3
  <2>2. pass[i] = Greedy(SubSeq(pass, 1, i - 1))
    BY <2>1, AgreeingExact
  <2>3. pass \in Contexts
    BY <1>3 DEF TypeOK
  <2>4. ts[i] = pass[i]
    BY <2>1, <2>3, PrefixType DEF ts
  <2>5. SubSeq(ts, 1, i - 1) = SubSeq(pass, 1, i - 1)
    BY <2>1, <2>3, PrefixOfPrefix DEF ts
  <2> QED
    BY <2>2, <2>4, <2>5
<1> QED
  BY <1>5, <1>6, <1>7, <1>8, <1>9, <1>10, <1>11, <1>12 DEF IInv

-----------------------------------------------------------------------------
LEMMA StepInv ==
  ASSUME IInv, [Next]_vars
  PROVE  IInv'
<1>1. CASE Call
  BY <1>1, CallInv
<1>2. CASE DeltaToken
  BY <1>2, DeltaTokenInv
<1>3. CASE AttentionLayer
  BY <1>3, AttentionLayerInv
<1>4. CASE EndPass
  BY <1>4, EndPassInv
<1>5. CASE Return
  BY <1>5, ReturnInv
<1>6. CASE NextChunk
  BY <1>6, NextChunkInv
<1>7. CASE Judge
  BY <1>7, JudgeInv
<1>8. CASE UNCHANGED vars
  <2>1. TypeOK'
    BY <1>8 DEF IInv, TypeOK, vars, state, locals
  <2>2. Aligned'
    BY <1>8 DEF IInv, Aligned, vars, state, locals
  <2>3. CallShape' /\ PassShape' /\ SnapShape'
    BY <1>8 DEF IInv, CallShape, PassShape, SnapShape, Speculating, vars, state, locals
  <2>4. RestExact' /\ PassExact'
    BY <1>8 DEF IInv, RestExact, Exact, PassExact, CleanPass, Sequence, DeltaCount, vars, state, locals
  <2>5. SnapExact' /\ JudgeExact' /\ AcceptedExact'
    BY <1>8 DEF IInv, SnapExact, Speculating, JudgeExact, AcceptedExact, vars, state, locals
  <2> QED
    BY <2>1, <2>2, <2>3, <2>4, <2>5 DEF IInv
<1> QED
  BY <1>1, <1>2, <1>3, <1>4, <1>5, <1>6, <1>7, <1>8 DEF Next, Step

\* The inductive invariant holds in every state of every behaviour.
THEOREM InductiveInvariant == Spec => []IInv
<1>1. Init => IInv
  BY InitInv
<1>2. IInv /\ [Next]_vars => IInv'
  BY StepInv
<1> QED
  BY <1>1, <1>2, PTL DEF Spec

\* Type correctness: through every call, rollback and refusal, no position
\* passes context_length and no activation leaves its type.
THEOREM TypeCorrect == Spec => []TypeOK
<1>1. IInv => TypeOK
  BY DEF IInv
<1> QED
  BY <1>1, InductiveInvariant, PTL

\* The KV caches, pos and the MoE cache stay aligned (prefill, verify_draft,
\* ensure_capacity): for every model shape, vocabulary and context length.
THEOREM CachesAligned == Spec => []Aligned
<1>1. IInv => Aligned
  BY DEF IInv
<1> QED
  BY <1>1, InductiveInvariant, PTL

\* Callers that feed several tokens only into an empty state always hold the
\* state a token-by-token run would have left (snapshot, restore included).
THEOREM StatesExact == Spec => []StateExact
<1>1. IInv => StateExact
  BY DEF IInv, RestExact, StateExact
<1> QED
  BY <1>1, InductiveInvariant, PTL

-----------------------------------------------------------------------------
(* The refinement of TokenContext.                                         *)

Ctx == IF Speculating THEN snap.fed ELSE fed
Trusted == IF Speculating THEN snap.clean ELSE clean

LEMMA CallBegins ==
  ASSUME IInv, NEW n, NEW name, NEW ts,
         Refuse(n) \/ (Enter(name, n, ts) /\ (name = "verify" => snap' = Snapshot)
                       /\ name # "refeed")
  PROVE  Context!Begin
<1>1. pc = "idle" /\ op = "none" /\ ~Speculating
  BY DEF Refuse, Enter, IInv, CallShape, Speculating
<1>2. CASE Refuse(n)
  <2>1. /\ reply'.token = NoToken
        /\ UNCHANGED <<op, snap, fed, clean>>
    BY <1>2 DEF Refuse, ErrReply, NoReply, locals
  <2> QED
    BY <1>1, <2>1 DEF Context!Begin, Speculating
<1>3. CASE Enter(name, n, ts) /\ (name = "verify" => snap' = Snapshot) /\ name # "refeed"
  <2>1. reply'.token = NoToken /\ op' = name /\ UNCHANGED <<fed, clean>>
    BY <1>3 DEF Enter, NoReply
  <2>2. CASE name = "verify"
    <3>1. snap'.fed = fed /\ snap'.clean = clean
      BY <1>3, <2>2 DEF Snapshot
    <3> QED
      BY <1>1, <2>1, <2>2, <3>1 DEF Context!Begin, Speculating
  <2>3. CASE name # "verify"
    BY <1>1, <1>3, <2>1, <2>3 DEF Context!Begin, Speculating
  <2> QED
    BY <2>2, <2>3
<1> QED
  BY <1>2, <1>3

LEMMA PassIsFeed ==
  ASSUME IInv, CommitPass
  PROVE  /\ pass \in Context!Feeds
         /\ Len(Ctx) = pos /\ Len(Ctx) + Len(pass) <= NCtx
         /\ Ctx = fed /\ Trusted = clean
         /\ Ctx = <<>> <=> pos = 0
<1>1. /\ pc = "layers" /\ TypeOK /\ Aligned /\ Len(pass) \in Nat \ {0} /\ pos \in Nat
      /\ pos' = pos + Len(pass) /\ pos' \in 0..NCtx
  BY CommitExact
<1>2. SnapShape
  BY DEF IInv
<1>3. Ctx = fed /\ Trusted = clean
  BY <1>1, <1>2 DEF Ctx, Trusted, SnapShape
<1>4. Len(pass) \in 1..NCtx
  BY <1>1, LayerFacts
<1>5. pass \in [1..Len(pass) -> Token]
  BY <1>1 DEF TypeOK, Contexts
<1>6. pass \in Context!Feeds
  BY <1>4, <1>5 DEF Context!Feeds
<1>7. fed \in Contexts /\ pos = Len(fed)
  BY <1>1 DEF TypeOK, Aligned
<1>8. fed = <<>> <=> pos = 0
  BY <1>7, EmptySeq DEF Contexts
<1> QED
  BY <1>1, <1>3, <1>4, <1>6, <1>7, <1>8, LayerFacts

LEMMA EndPassRefines ==
  ASSUME IInv, EndPass
  PROVE  [Context!Next]_(Context!vars)
<1>0. CommitPass /\ UNCHANGED <<op, snap, reply>> /\ MoreToDo
  BY DEF EndPass, locals
<1>1. CASE Speculating
  BY <1>0, <1>1 DEF Context!vars, Speculating
<1>2. CASE ~Speculating
  <2>1. Ctx' = fed' /\ Trusted' = clean' /\ ~Speculating'
    BY <1>0, <1>2 DEF Ctx, Trusted, Speculating
  <2>2. fed' = fed \o pass /\ clean' = (clean /\ (Len(pass) = 1 \/ pos = 0))
    BY <1>0 DEF CommitPass, CleanPass
  <2>3. Context!Consume(pass)
    BY <1>0, <1>2, <2>1, <2>2, PassIsFeed DEF Context!Consume, Context!Trust, Ctx, Trusted
  <2> QED
    BY <1>0, <2>3, PassIsFeed DEF Context!Next
<1> QED
  BY <1>1, <1>2

LEMMA ReturnRefines ==
  ASSUME IInv, Return
  PROVE  Context!Next
<1>0. CommitPass /\ op' = "none" /\ ~Speculating' /\ pc = "layers"
  BY DEF Return, Speculating, CommitPass
<1>1. fed' = fed \o pass /\ clean' = (clean /\ (Len(pass) = 1 \/ pos = 0))
  BY <1>0 DEF CommitPass, CleanPass
<1>2. reply.token = NoToken
  BY <1>0 DEF IInv, CallShape, NoReply
<1>3. /\ (IF Speculating THEN snap.fed ELSE fed) = fed
      /\ (IF Speculating THEN snap.clean ELSE clean) = clean
      /\ pass \in Context!Feeds /\ Len(fed) + Len(pass) <= NCtx /\ (fed = <<>> <=> pos = 0)
  BY <1>0, PassIsFeed DEF Ctx, Trusted
<1>4. CASE op \in {"prefill", "chunked"}
  <2>1. reply'.token = reply.token
    BY <1>2, <1>4, ReturnReply
  <2>2. Context!Consume(pass)
    BY <1>0, <1>1, <1>3, <2>1 DEF Context!Consume, Context!Trust
  <2> QED
    BY <1>3, <2>2 DEF Context!Next
<1>5. CASE op \in {"generate", "refeed"}
  <2>1. reply'.token \in Token /\ (clean' => reply'.token = Greedy(fed'))
    BY <1>5, ReturnReply
  <2>2. ASSUME clean'
        PROVE  Context!GreedyFrom(fed, pass)
    <3> SUFFICES ASSUME NEW i \in 2..Len(pass)
                 PROVE  pass[i] = Greedy(fed \o SubSeq(pass, 1, i - 1))
      BY DEF Context!GreedyFrom
    <3>0. Len(pass) \in Nat /\ pass \in Contexts
      BY <1>0, CommitExact DEF TypeOK
    <3>1. Len(pass) # 1 /\ pos = 0 /\ clean
      <4>1. Len(pass) # 1
        BY <3>0
      <4>2. clean /\ (Len(pass) = 1 \/ pos = 0)
        BY <1>1, <2>2
      <4> QED
        BY <4>1, <4>2
    <3>2. op = "refeed"
      BY <1>5, <3>1 DEF IInv, PassShape
    <3>3. fed = snap.fed /\ clean = snap.clean /\ fed = <<>>
      BY <1>0, <1>3, <3>1, <3>2 DEF IInv, SnapShape, Speculating
    <3>4. pass[i] = Greedy(SubSeq(pass, 1, i - 1))
      BY <3>1, <3>2, <3>3 DEF IInv, AcceptedExact
    <3>5. fed \o SubSeq(pass, 1, i - 1) = SubSeq(pass, 1, i - 1)
      <4>1. i - 1 \in 0..Len(pass)
        BY <3>0
      <4>2. SubSeq(pass, 1, i - 1) \in Contexts
        BY <3>0, <4>1, PrefixType
      <4> QED
        BY <3>3, <4>2, ConcatEmptySeq DEF Contexts
    <3> QED
      BY <3>4, <3>5
  <2>3. Context!Produce(pass)
    BY <1>0, <1>1, <1>3, <2>1, <2>2 DEF Context!Produce, Context!Trust
  <2> QED
    BY <1>3, <2>3 DEF Context!Next
<1> QED
  BY <1>4, <1>5, ReturnReply

LEMMA StepRefines ==
  ASSUME IInv, [Next]_vars
  PROVE  [Context!Next]_(Context!vars)
<1>1. ASSUME NEW ts, Prefill(ts)
      PROVE  Context!Next
  BY <1>1, CallBegins DEF Prefill, Context!Next
<1>2. ASSUME NEW ts, NEW c, PrefillChunked(ts, c)
      PROVE  Context!Next
  BY <1>2, CallBegins DEF PrefillChunked, Context!Next
<1>3. ASSUME NEW tok, GenerateToken(tok)
      PROVE  Context!Next
  BY <1>3, CallBegins DEF GenerateToken, Context!Next
<1>4. ASSUME NEW tok, NEW ds, VerifyDraft(tok, ds)
      PROVE  Context!Next
  BY <1>4, CallBegins DEF VerifyDraft, Context!Next
<1>5. CASE WarmMoeCache
  BY <1>5 DEF WarmMoeCache, locals, Context!vars, Speculating
<1>6. CASE DeltaToken
  BY <1>6 DEF DeltaToken, Context!vars, Speculating
<1>7. CASE AttentionLayer
  BY <1>7 DEF AttentionLayer, Context!vars, Speculating
<1>8. CASE EndPass
  BY <1>8, EndPassRefines
<1>9. CASE Return
  BY <1>9, ReturnRefines
<1>10. CASE NextChunk
  BY <1>10 DEF NextChunk, Context!vars, Speculating
<1>11. CASE Judge
  BY <1>11, JudgeFacts DEF Context!vars, Speculating
<1>12. CASE UNCHANGED vars
  BY <1>12 DEF vars, locals, Context!vars, Speculating
<1> QED
  BY <1>1, <1>2, <1>3, <1>4, <1>5, <1>6, <1>7, <1>8, <1>9, <1>10, <1>11, <1>12
  DEF Next, Step, Call

\* GenerationState implements TokenContext: whatever the model shape, every call
\* is one step of a greedy decoder, or no step at all.
THEOREM Refinement == Spec => RefinesContext
<1>1. Init => Context!Init
  BY DEF Init, NoReply, Context!Init, Speculating
<1>2. IInv /\ [Next]_vars => [Context!Next]_(Context!vars)
  BY StepRefines
<1> QED
  BY <1>1, <1>2, InductiveInvariant, PTL DEF Spec, RefinesContext, Context!Spec
=============================================================================
