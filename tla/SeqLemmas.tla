----------------------------- MODULE SeqLemmas ------------------------------
(***************************************************************************)
(* Facts about sequences that the proofs of several components share:      *)
(* front pieces, appending and joining; induction over the natural numbers *)
(* stated for a set of numbers, from the least element of its complement;  *)
(* and with it what the recursive functions behind FlattenSeq compute.     *)
(***************************************************************************)
EXTENDS Integers, Sequences, SequencesExt, SequenceTheorems, WellFoundedInduction, TLAPS

\* A front piece.
LEMMA FrontPiece ==
  ASSUME NEW S, NEW s \in Seq(S), NEW n \in 0..Len(s)
  PROVE  /\ SubSeq(s, 1, n) \in Seq(S) /\ Len(SubSeq(s, 1, n)) = n
         /\ \A i \in 1..n : SubSeq(s, 1, n)[i] = s[i]
<1>1. Len(s) \in Nat /\ n \in Int /\ 1 \in Int
  BY LenProperties
<1>2. \A i \in 1..n : s[i] \in S
  BY <1>1, ElementOfSeq
<1>3. /\ SubSeq(s, 1, n) \in Seq(S)
      /\ Len(SubSeq(s, 1, n)) = IF 1 <= n THEN n - 1 + 1 ELSE 0
      /\ \A i \in 1..(n - 1 + 1) : SubSeq(s, 1, n)[i] = s[1 + i - 1]
  BY <1>1, <1>2, SubSeqProperties
<1>4. n - 1 + 1 = n /\ \A i \in 1..n : 1 + i - 1 = i
  BY <1>1
<1> QED
  BY <1>1, <1>3, <1>4

\* Appending to a sequence does not change its front pieces.
LEMMA FrontOfAppend ==
  ASSUME NEW S, NEW s \in Seq(S), NEW x \in S, NEW n \in 0..Len(s)
  PROVE  SubSeq(Append(s, x), 1, n) = SubSeq(s, 1, n)
<1>1. /\ Len(s) \in Nat /\ Append(s, x) \in Seq(S) /\ Len(Append(s, x)) = Len(s) + 1
      /\ \A i \in 1..Len(s) : Append(s, x)[i] = s[i]
  BY LenProperties, AppendProperties
<1>2. n \in 0..Len(Append(s, x)) /\ n \in Nat
  BY <1>1
<1>3. /\ SubSeq(Append(s, x), 1, n) \in Seq(S) /\ Len(SubSeq(Append(s, x), 1, n)) = n
      /\ \A i \in 1..n : SubSeq(Append(s, x), 1, n)[i] = Append(s, x)[i]
  BY <1>1, <1>2, FrontPiece
<1>4. /\ SubSeq(s, 1, n) \in Seq(S) /\ Len(SubSeq(s, 1, n)) = n
      /\ \A i \in 1..n : SubSeq(s, 1, n)[i] = s[i]
  BY FrontPiece
<1>5. \A i \in 1..n : Append(s, x)[i] = s[i]
  BY <1>1
<1>6. \A i \in 1..n : SubSeq(Append(s, x), 1, n)[i] = SubSeq(s, 1, n)[i]
  BY <1>3, <1>4, <1>5
<1> QED
  BY <1>3, <1>4, <1>6, SeqEqual

\* The sequence before its last element.
LEMMA AppendLast ==
  ASSUME NEW S, NEW s \in Seq(S), NEW x \in S
  PROVE  /\ Append(s, x) \in Seq(S) /\ Len(Append(s, x)) = Len(s) + 1
         /\ Append(s, x)[Len(Append(s, x))] = x
         /\ SubSeq(Append(s, x), 1, Len(Append(s, x)) - 1) = s
<1>1. /\ Append(s, x) \in Seq(S) /\ Len(Append(s, x)) = Len(s) + 1
      /\ Append(s, x)[Len(s) + 1] = x /\ Len(s) \in Nat
  BY AppendProperties, LenProperties
<1>2. Len(Append(s, x)) - 1 = Len(s) /\ Len(s) \in 0..Len(s)
  BY <1>1
<1>3. SubSeq(Append(s, x), 1, Len(s)) = SubSeq(s, 1, Len(s))
  BY <1>2, FrontOfAppend
<1>4. SubSeq(s, 1, Len(s)) = s
  BY SubSeqFull
<1> QED
  BY <1>1, <1>2, <1>3, <1>4

\* A sequence is its last element behind the others.
LEMMA LastBehind ==
  ASSUME NEW S, NEW s \in Seq(S), Len(s) > 0
  PROVE  /\ s[Len(s)] \in S /\ SubSeq(s, 1, Len(s) - 1) \in Seq(S)
         /\ Len(SubSeq(s, 1, Len(s) - 1)) = Len(s) - 1
         /\ Append(SubSeq(s, 1, Len(s) - 1), s[Len(s)]) = s
<1>1. Len(s) \in 1..Len(s) /\ 1 \in 1..Len(s) /\ Len(s) - 1 \in 0..Len(s)
  BY LenProperties
<1>2. s[Len(s)] \in S
  BY <1>1, ElementOfSeq
<1>3. SubSeq(s, 1, Len(s) - 1) \in Seq(S) /\ Len(SubSeq(s, 1, Len(s) - 1)) = Len(s) - 1
  BY <1>1, FrontPiece
<1>4. SubSeq(s, 1, Len(s)) = SubSeq(s, 1, Len(s) - 1) \o <<s[Len(s)]>>
  BY <1>1, SubSeqRecursiveSecond
<1>5. SubSeq(s, 1, Len(s)) = s
  BY SubSeqFull
<1>6. Append(SubSeq(s, 1, Len(s) - 1), s[Len(s)]) = SubSeq(s, 1, Len(s) - 1) \o <<s[Len(s)]>>
  BY <1>2, <1>3, AppendIsConcat
<1> QED
  BY <1>2, <1>3, <1>4, <1>5, <1>6

\* Appending behind a joint.
LEMMA JoinAppend ==
  ASSUME NEW S, NEW a \in Seq(S), NEW b \in Seq(S), NEW x \in S
  PROVE  a \o Append(b, x) = Append(a \o b, x)
<1>1. <<x>> \in Seq(S) /\ a \o b \in Seq(S)
  BY ConcatProperties
<1>2. Append(b, x) = b \o <<x>> /\ Append(a \o b, x) = (a \o b) \o <<x>>
  BY <1>1, AppendIsConcat
<1>3. (a \o b) \o <<x>> = a \o (b \o <<x>>)
  BY <1>1, ConcatAssociative
<1> QED
  BY <1>2, <1>3

-----------------------------------------------------------------------------
(* Induction.                                                              *)

\* A set of natural numbers has a least element.
LEMMA NatMin ==
  ASSUME NEW T, T \subseteq Nat, T # {}
  PROVE  \E n \in T : \A m \in T : n <= m
<1> DEFINE R == OpToRel(<, Nat)
<1>1. IsWellFoundedOn(R, Nat)
  BY NatLessThanWellFounded
<1>2. \A x, y \in Nat : y < x => <<y, x>> \in R
  BY DEF OpToRel
<1> HIDE DEF R
<1>3. PICK x \in T : \A y \in T : ~(<<y, x>> \in R)
  BY <1>1, WFMin
<1>4. ASSUME NEW y \in T
      PROVE  x <= y
  <2>1. x \in Nat /\ y \in Nat
    OBVIOUS
  <2>2. ~(<<y, x>> \in R)
    BY <1>3
  <2>3. ~(y < x)
    BY <2>1, <2>2, <1>2, Zenon
  <2> QED
    BY <2>1, <2>3
<1> QED
  BY <1>4

\* Induction, for a property given as the set of the numbers that have it.
LEMMA NatBySteps ==
  ASSUME NEW G, 0 \in G, \A n \in Nat : n \in G => n + 1 \in G
  PROVE  Nat \subseteq G
<1> DEFINE T == Nat \ G
<1>1. SUFFICES ASSUME T # {}
               PROVE  FALSE
  OBVIOUS
<1>2. PICK k \in T : \A m \in T : k <= m
  <2>1. T \subseteq Nat
    OBVIOUS
  <2> HIDE DEF T
  <2> QED
    BY <1>1, <2>1, NatMin
<1>3. k # 0 /\ k - 1 \in Nat
  BY <1>2
<1>4. k - 1 \in G
  BY <1>2, <1>3
<1> QED
  BY <1>3, <1>4

\* A set of numbers up to n has a greatest element.
LEMMA MaxOfSet ==
  ASSUME NEW n \in Nat, NEW T, T \subseteq 0..n, T # {}
  PROVE  Max(T) \in T /\ \A x \in T : Max(T) >= x
<1> DEFINE U == {n - x : x \in T}
<1>1. U \subseteq Nat /\ U # {}
  OBVIOUS
<1>2. PICK u \in U : \A v \in U : u <= v
  <2> HIDE DEF U
  <2> QED
    BY <1>1, NatMin
<1>3. PICK m \in T : u = n - m
  BY <1>2
<1>4. ASSUME NEW x \in T
      PROVE  m >= x
  <2>1. x \in 0..n /\ m \in 0..n /\ n - x \in U
    OBVIOUS
  <2>2. n - m <= n - x
    BY <1>2, <1>3, <2>1
  <2> QED
    BY <2>1, <2>2
<1>5. \E y \in T : \A x \in T : y >= x
  BY <1>4
<1> QED
  BY <1>5 DEF Max

-----------------------------------------------------------------------------
(* FlattenSeq.                                                             *)

\* The function that FlattenSeq is defined by exists: up to any place the
\* pieces can be joined one after the other.
LEMMA FlattenDefined ==
  ASSUME NEW seqs
  PROVE  \A n \in Nat :
           \E f : f = [i \in 1..n |-> IF i = 1 THEN seqs[i] ELSE f[i-1] \o seqs[i]]
<1> DEFINE P(k) == \E f : f = [i \in 1..k |-> IF i = 1 THEN seqs[i] ELSE f[i-1] \o seqs[i]]
           G == {k \in Nat : P(k)}
<1>1. P(0)
  <2> DEFINE f == [i \in 1..0 |-> 0]
  <2>1. f = [i \in 1..0 |-> IF i = 1 THEN seqs[i] ELSE f[i-1] \o seqs[i]]
    OBVIOUS
  <2> QED
    BY <2>1
<1>2. ASSUME NEW k \in Nat, P(k)
      PROVE  P(k + 1)
  <2>1. PICK f : f = [i \in 1..k |-> IF i = 1 THEN seqs[i] ELSE f[i-1] \o seqs[i]]
    BY <1>2
  <2> DEFINE e(i) == IF i = 1 THEN seqs[i] ELSE f[i-1] \o seqs[i]
             g == [i \in 1..(k+1) |-> e(i)]
  <2>2. ASSUME NEW i \in 1..(k+1), i # 1
        PROVE  g[i-1] = f[i-1]
    <3>1. i - 1 \in 1..k /\ i - 1 \in 1..(k+1)
      BY <2>2
    <3>2. f[i-1] = e(i-1)
      BY <2>1, <3>1
    <3>3. g[i-1] = e(i-1)
      BY <3>1
    <3> QED
      BY <3>2, <3>3
  <2> DEFINE h == [i \in 1..(k+1) |-> IF i = 1 THEN seqs[i] ELSE g[i-1] \o seqs[i]]
  <2>3. \A i \in 1..(k+1) : g[i] = h[i]
    BY <2>2
  <2>4. g = h
    BY <2>3
  <2> QED
    BY <2>4
<1>3. 0 \in G /\ \A k \in Nat : k \in G => k + 1 \in G
  <2> HIDE DEF P
  <2> QED
    BY <1>1, <1>2
<1>4. Nat \subseteq G
  <2> HIDE DEF G
  <2> QED
    BY <1>3, NatBySteps
<1> QED
  BY <1>4

LEMMA FlattenUnfolds ==
  ASSUME NEW seqs, Len(seqs) \in Nat
  PROVE  \E f : /\ \A i \in 1..Len(seqs) : f[i] = IF i = 1 THEN seqs[i] ELSE f[i-1] \o seqs[i]
                /\ FlattenSeq(seqs) = IF Len(seqs) = 0 THEN seqs ELSE f[Len(seqs)]
<1> DEFINE f == CHOOSE f : f = [i \in 1..Len(seqs) |->
                                  IF i = 1 THEN seqs[i] ELSE f[i-1] \o seqs[i]]
<1>1. f = [i \in 1..Len(seqs) |-> IF i = 1 THEN seqs[i] ELSE f[i-1] \o seqs[i]]
  BY FlattenDefined
<1>2. FlattenSeq(seqs) = IF Len(seqs) = 0 THEN seqs ELSE f[Len(seqs)]
  BY DEF FlattenSeq
<1> HIDE DEF f
<1>3. \A i \in 1..Len(seqs) : f[i] = IF i = 1 THEN seqs[i] ELSE f[i-1] \o seqs[i]
  BY <1>1
<1> QED
  BY <1>2, <1>3

\* One more piece is joined behind the others.
LEMMA FlattenAppend ==
  ASSUME NEW S, NEW seqs \in Seq(Seq(S)), NEW x \in Seq(S)
  PROVE  FlattenSeq(Append(seqs, x)) = IF seqs = <<>> THEN x ELSE FlattenSeq(seqs) \o x
<1> DEFINE n == Len(seqs)
           more == Append(seqs, x)
<1>1. /\ n \in Nat /\ Len(more) = n + 1 /\ more[n + 1] = x
      /\ \A i \in 1..n : more[i] = seqs[i]
  BY LenProperties, AppendProperties
<1>2. seqs = <<>> <=> n = 0
  BY EmptySeq
<1> HIDE DEF n, more
<1>3. PICK f : /\ \A i \in 1..n : f[i] = IF i = 1 THEN seqs[i] ELSE f[i-1] \o seqs[i]
               /\ FlattenSeq(seqs) = IF n = 0 THEN seqs ELSE f[n]
  BY <1>1, FlattenUnfolds DEF n
<1>4. PICK g : /\ \A i \in 1..(n+1) : g[i] = IF i = 1 THEN more[i] ELSE g[i-1] \o more[i]
               /\ FlattenSeq(more) = IF n + 1 = 0 THEN more ELSE g[n + 1]
  <2>1. Len(more) \in Nat
    BY <1>1
  <2>2. PICK g : /\ \A i \in 1..Len(more) :
                        g[i] = IF i = 1 THEN more[i] ELSE g[i-1] \o more[i]
                 /\ FlattenSeq(more) = IF Len(more) = 0 THEN more ELSE g[Len(more)]
    BY <2>1, FlattenUnfolds
  <2>3. Len(more) = n + 1
    BY <1>1
  <2> QED
    BY <2>2, <2>3, Zenon
<1> DEFINE G == {i \in Nat : i \in 1..n => g[i] = f[i]}
<1>5. ASSUME NEW i \in Nat, i \in G
      PROVE  i + 1 \in G
  <2>1. SUFFICES ASSUME i + 1 \in 1..n
                 PROVE  g[i + 1] = f[i + 1]
    OBVIOUS
  <2>2. i + 1 \in 1..(n + 1) /\ more[i + 1] = seqs[i + 1] /\ (i + 1) - 1 = i
    BY <1>1, <2>1
  <2>3. /\ f[i + 1] = IF i + 1 = 1 THEN seqs[i + 1] ELSE f[i] \o seqs[i + 1]
        /\ g[i + 1] = IF i + 1 = 1 THEN seqs[i + 1] ELSE g[i] \o seqs[i + 1]
    BY <1>3, <1>4, <2>1, <2>2
  <2>4. i + 1 # 1 => g[i] = f[i]
    BY <1>1, <1>5, <2>1
  <2> QED
    BY <2>3, <2>4
<1>6. 0 \in G
  OBVIOUS
<1>7. Nat \subseteq G
  <2> HIDE DEF G
  <2> QED
    BY <1>5, <1>6, NatBySteps
<1>8. n # 0 => g[n] = f[n]
  <2>1. n \in G /\ (n # 0 => n \in 1..n)
    BY <1>1, <1>7
  <2> QED
    BY <2>1
<1>9. g[n + 1] = IF n + 1 = 1 THEN x ELSE g[n] \o x
  <2>1. n + 1 \in 1..(n + 1) /\ (n + 1) - 1 = n
    BY <1>1
  <2> QED
    BY <1>1, <1>4, <2>1
<1>10. FlattenSeq(more) = IF n = 0 THEN x ELSE f[n] \o x
  BY <1>1, <1>4, <1>8, <1>9
<1> QED
  BY <1>2, <1>3, <1>10 DEF more

\* Joining pieces over S gives a sequence over S.
LEMMA FlattenType ==
  ASSUME NEW S, NEW seqs \in Seq(Seq(S))
  PROVE  FlattenSeq(seqs) \in Seq(S)
<1>1. Len(seqs) \in Nat
  BY LenProperties
<1>2. PICK f : /\ \A i \in 1..Len(seqs) : f[i] = IF i = 1 THEN seqs[i] ELSE f[i-1] \o seqs[i]
               /\ FlattenSeq(seqs) = IF Len(seqs) = 0 THEN seqs ELSE f[Len(seqs)]
  BY <1>1, FlattenUnfolds
<1> DEFINE G == {i \in Nat : i \in 1..Len(seqs) => f[i] \in Seq(S)}
<1>3. ASSUME NEW i \in Nat, i \in G
      PROVE  i + 1 \in G
  <2>1. SUFFICES ASSUME i + 1 \in 1..Len(seqs)
                 PROVE  f[i + 1] \in Seq(S)
    OBVIOUS
  <2>2. f[i + 1] = IF i + 1 = 1 THEN seqs[i + 1] ELSE f[i] \o seqs[i + 1]
    <3>1. (i + 1) - 1 = i
      OBVIOUS
    <3> QED
      BY <1>2, <2>1, <3>1
  <2>3. seqs[i + 1] \in Seq(S)
    BY <2>1, ElementOfSeq
  <2>4. i + 1 # 1 => f[i] \in Seq(S)
    BY <1>1, <1>3, <2>1
  <2>5. i + 1 # 1 => f[i] \o seqs[i + 1] \in Seq(S)
    BY <2>3, <2>4, ConcatProperties
  <2> QED
    BY <2>2, <2>3, <2>5
<1>4. 0 \in G
  OBVIOUS
<1>5. Nat \subseteq G
  <2> HIDE DEF G
  <2> QED
    BY <1>3, <1>4, NatBySteps
<1>6. CASE Len(seqs) = 0
  <2>1. seqs = <<>>
    BY <1>6, EmptySeq
  <2> QED
    BY <1>2, <1>6, <2>1, EmptySeq
<1>7. CASE Len(seqs) # 0
  <2>1. Len(seqs) \in 1..Len(seqs)
    BY <1>1, <1>7
  <2>2. f[Len(seqs)] \in Seq(S)
    BY <1>1, <1>5, <2>1
  <2> QED
    BY <1>2, <1>7, <2>2
<1> QED
  BY <1>6, <1>7

LEMMA FlattenEmpty == FlattenSeq(<<>>) = <<>>
BY EmptySeq DEF FlattenSeq

\* Joining pieces is joining those of a front and those behind it.
LEMMA FlattenConcat ==
  ASSUME NEW S, NEW s \in Seq(Seq(S)), NEW t \in Seq(Seq(S))
  PROVE  FlattenSeq(s \o t) = FlattenSeq(s) \o FlattenSeq(t)
<1> DEFINE Q(r) == FlattenSeq(s \o r) = FlattenSeq(s) \o FlattenSeq(r)
           P(n) == \A r \in Seq(Seq(S)) : Len(r) = n => Q(r)
           G == {n \in Nat : P(n)}
<1>1. ASSUME NEW r \in Seq(Seq(S)), Len(r) = 0
      PROVE  Q(r)
  <2>1. r = <<>>
    BY <1>1, EmptySeq
  <2>2. s \o <<>> = s
    BY ConcatEmptySeq
  <2>3. FlattenSeq(s) \o <<>> = FlattenSeq(s)
    BY FlattenType, ConcatEmptySeq
  <2> QED
    BY <2>1, <2>2, <2>3, FlattenEmpty
<1>2. ASSUME NEW n \in Nat, P(n)
      PROVE  P(n + 1)
  <2> SUFFICES ASSUME NEW r \in Seq(Seq(S)), Len(r) = n + 1
               PROVE  Q(r)
    OBVIOUS
  <2> DEFINE u == SubSeq(r, 1, Len(r) - 1)
             x == r[Len(r)]
  <2>1. x \in Seq(S) /\ u \in Seq(Seq(S)) /\ Len(u) = n /\ Append(u, x) = r
    BY <1>2, LastBehind
  <2> HIDE DEF u, x
  <2>2. s \o r = Append(s \o u, x)
    <3>1. PICK T : T = Seq(S)
      OBVIOUS
    <3>2. s \in Seq(T) /\ u \in Seq(T) /\ x \in T
      BY <2>1, <3>1
    <3>3. s \o Append(u, x) = Append(s \o u, x)
      BY <3>2, JoinAppend
    <3> QED
      BY <2>1, <3>3
  <2>3. s \o u \in Seq(Seq(S)) /\ (s \o u = <<>> <=> s = <<>> /\ u = <<>>)
    BY <2>1, ConcatProperties, ConcatEqualIffEmpty, EmptySeq
  <2>4. FlattenSeq(s \o r) = IF s \o u = <<>> THEN x ELSE FlattenSeq(s \o u) \o x
    BY <2>1, <2>2, <2>3, FlattenAppend
  <2>5. FlattenSeq(r) = IF u = <<>> THEN x ELSE FlattenSeq(u) \o x
    BY <2>1, FlattenAppend
  <2>6. FlattenSeq(s \o u) = FlattenSeq(s) \o FlattenSeq(u)
    BY <1>2, <2>1
  <2>7. FlattenSeq(s) \in Seq(S) /\ FlattenSeq(u) \in Seq(S)
    BY <2>1, FlattenType
  <2>8. (FlattenSeq(s) \o FlattenSeq(u)) \o x = FlattenSeq(s) \o (FlattenSeq(u) \o x)
    <3>1. PICK a, b : a = FlattenSeq(s) /\ b = FlattenSeq(u)
      OBVIOUS
    <3>2. a \in Seq(S) /\ b \in Seq(S) /\ x \in Seq(S)
      BY <2>1, <2>7, <3>1
    <3>3. (a \o b) \o x = a \o (b \o x)
      BY <3>2, ConcatAssociative
    <3> QED
      BY <3>1, <3>3
  <2>9. CASE u = <<>> /\ s = <<>>
    <3>1. <<>> \o x = x
      BY <2>1, ConcatEmptySeq
    <3> QED
      BY <2>3, <2>4, <2>5, <2>9, <3>1, FlattenEmpty
  <2>10. CASE u = <<>> /\ s # <<>>
    <3>1. FlattenSeq(s) \o <<>> = FlattenSeq(s)
      BY <2>7, ConcatEmptySeq
    <3> QED
      BY <2>3, <2>4, <2>5, <2>6, <2>10, <3>1, FlattenEmpty
  <2>11. CASE u # <<>>
    BY <2>3, <2>4, <2>5, <2>6, <2>8, <2>11
  <2> QED
    BY <2>9, <2>10, <2>11
<1>3. 0 \in G
  BY <1>1
<1>4. \A n \in Nat : n \in G => n + 1 \in G
  <2> HIDE DEF P
  <2> QED
    BY <1>2
<1>5. Nat \subseteq G
  <2> HIDE DEF G
  <2> QED
    BY <1>3, <1>4, NatBySteps
<1>6. Len(t) \in Nat
  BY LenProperties
<1> HIDE DEF Q
<1>7. Q(t)
  BY <1>5, <1>6
<1> QED
  BY <1>7 DEF Q

LEMMA SeqByAppend ==
  ASSUME NEW S, NEW G, <<>> \in G,
         \A s \in Seq(S) : \A x \in S : s \in G => Append(s, x) \in G
  PROVE  Seq(S) \subseteq G
<1> DEFINE H == {n \in Nat : \A s \in Seq(S) : Len(s) = n => s \in G}
<1>1. 0 \in H
  BY EmptySeq
<1>2. ASSUME NEW n \in Nat, n \in H
      PROVE  n + 1 \in H
  <2> SUFFICES ASSUME NEW s \in Seq(S), Len(s) = n + 1
               PROVE  s \in G
    OBVIOUS
  <2> DEFINE u == SubSeq(s, 1, Len(s) - 1)
             x == s[Len(s)]
  <2>1. x \in S /\ u \in Seq(S) /\ Len(u) = n /\ Append(u, x) = s
    BY <1>2, LastBehind
  <2> HIDE DEF u, x
  <2>2. u \in G
    BY <1>2, <2>1
  <2> QED
    BY <2>1, <2>2
<1>3. Nat \subseteq H
  <2> HIDE DEF H
  <2> QED
    BY <1>1, <1>2, NatBySteps
<1> QED
  BY <1>3, LenProperties

\* Of joined pieces over S: e[i] elements come from the first i pieces, and the
\* elements of each piece are found behind those of the pieces before it.
Places(e, pieces, s) ==
  /\ e \in [0..Len(pieces) -> Nat]
  /\ e[0] = 0 /\ e[Len(pieces)] = Len(s)
  /\ \A i \in 1..Len(pieces) :
       /\ e[i] = e[i - 1] + Len(pieces[i]) /\ e[i] <= Len(s)
       /\ \A j \in 1..Len(pieces[i]) : s[e[i - 1] + j] = pieces[i][j]

LEMMA FlattenPlaces ==
  ASSUME NEW S, NEW pieces \in Seq(Seq(S))
  PROVE  \E e : Places(e, pieces, FlattenSeq(pieces))
<1> DEFINE G == {p \in Seq(Seq(S)) : \E e : Places(e, p, FlattenSeq(p))}
<1>1. <<>> \in G
  <2> DEFINE e == [i \in 0..0 |-> 0]
  <2>1. Places(e, <<>>, <<>>)
    BY EmptySeq DEF Places
  <2> QED
    BY <2>1, FlattenEmpty, EmptySeq
<1>2. ASSUME NEW p \in Seq(Seq(S)), NEW x \in Seq(S), p \in G
      PROVE  Append(p, x) \in G
  <2>1. PICK e : Places(e, p, FlattenSeq(p))
    BY <1>2
  <2>2. PICK n, m, q, s, t : n = Len(p) /\ m = Len(x) /\ q = Append(p, x)
                           /\ s = FlattenSeq(p) /\ t = FlattenSeq(q)
    OBVIOUS
  <2>3. /\ n \in Nat /\ m \in Nat /\ q \in Seq(Seq(S)) /\ Len(q) = n + 1 /\ q[n + 1] = x
        /\ \A i \in 1..n : q[i] = p[i]
    <3>1. PICK T : T = Seq(S)
      OBVIOUS
    <3> QED
      BY <2>2, <3>1, LenProperties, AppendProperties
  <2>4. s \in Seq(S) /\ t = s \o x
    <3>1. s \in Seq(S)
      BY <2>2, FlattenType
    <3>2. t = IF p = <<>> THEN x ELSE s \o x
      BY <2>2, FlattenAppend
    <3>3. p = <<>> => s = <<>>
      BY <2>2, FlattenEmpty
    <3>4. <<>> \o x = x
      BY ConcatEmptySeq
    <3> QED
      BY <3>1, <3>2, <3>3, <3>4
  <2>5. /\ Len(s) \in Nat /\ Len(t) = Len(s) + m
        /\ \A j \in 1..Len(s) : t[j] = s[j]
        /\ \A j \in 1..m : t[Len(s) + j] = x[j]
    <3>1. Len(s) \in Nat /\ Len(t) = Len(s) + m
      BY <2>2, <2>4, LenProperties, ConcatProperties
    <3>2. \A j \in 1..Len(t) : t[j] = IF j <= Len(s) THEN s[j] ELSE x[j - Len(s)]
      BY <2>4, ConcatProperties
    <3>3. ASSUME NEW j \in 1..m
          PROVE  t[Len(s) + j] = x[j]
      <4>1. Len(s) + j \in 1..Len(t) /\ ~(Len(s) + j <= Len(s)) /\ Len(s) + j - Len(s) = j
        BY <2>3, <3>1
      <4> QED
        BY <3>2, <4>1
    <3> QED
      BY <2>3, <3>1, <3>2, <3>3
  <2>6. /\ e \in [0..n -> Nat] /\ e[0] = 0 /\ e[n] = Len(s)
        /\ \A i \in 1..n : /\ e[i] = e[i - 1] + Len(p[i]) /\ e[i] <= Len(s)
                           /\ \A j \in 1..Len(p[i]) : s[e[i - 1] + j] = p[i][j]
    BY <2>1, <2>2 DEF Places
  <2> DEFINE f == [i \in 0..(n + 1) |-> IF i <= n THEN e[i] ELSE Len(s) + m]
  <2>7. f \in [0..(n + 1) -> Nat] /\ f[0] = 0 /\ f[n + 1] = Len(t)
    BY <2>3, <2>5, <2>6
  <2>8. ASSUME NEW i \in 1..n
        PROVE  /\ f[i] = f[i - 1] + Len(q[i]) /\ f[i] <= Len(t)
               /\ \A j \in 1..Len(q[i]) : t[f[i - 1] + j] = q[i][j]
    <3>1. i \in 0..(n + 1) /\ i - 1 \in 0..(n + 1) /\ i <= n /\ i - 1 <= n /\ i \in 0..n /\ i - 1 \in 0..n
      BY <2>3
    <3>2. f[i] = e[i] /\ f[i - 1] = e[i - 1] /\ e[i] \in Nat /\ e[i - 1] \in Nat
      BY <2>6, <3>1
    <3> HIDE DEF f
    <3>3. p[i] \in Seq(S) /\ Len(p[i]) \in Nat /\ q[i] = p[i]
      <4>1. PICK T : T = Seq(S)
        OBVIOUS
      <4>2. p[i] \in T
        BY <2>2, <4>1, ElementOfSeq
      <4> QED
        BY <2>3, <4>1, <4>2, LenProperties
    <3>4. ASSUME NEW j \in 1..Len(p[i])
          PROVE  t[e[i - 1] + j] = p[i][j]
      <4>1. e[i - 1] + j \in 1..Len(s)
        BY <2>5, <2>6, <3>2, <3>3
      <4> QED
        BY <2>5, <2>6, <4>1
    <3> QED
      BY <2>3, <2>5, <2>6, <3>2, <3>3, <3>4
  <2>9. /\ f[n + 1] = f[n] + Len(q[n + 1]) /\ f[n + 1] <= Len(t)
        /\ \A j \in 1..Len(q[n + 1]) : t[f[n] + j] = q[n + 1][j]
    <3>1. f[n] = Len(s) /\ f[n + 1] = Len(s) + m
      BY <2>3, <2>5, <2>6
    <3> HIDE DEF f
    <3> QED
      BY <2>2, <2>3, <2>5, <3>1
  <2> HIDE DEF f
  <2>10. ASSUME NEW i \in 1..(n + 1)
         PROVE  /\ f[i] = f[i - 1] + Len(q[i]) /\ f[i] <= Len(t)
                /\ \A j \in 1..Len(q[i]) : t[f[i - 1] + j] = q[i][j]
    <3>1. CASE i \in 1..n
      BY <2>8, <3>1
    <3>2. CASE i \notin 1..n
      <4>1. i = n + 1 /\ i - 1 = n
        BY <2>3, <3>2
      <4> QED
        BY <2>9, <4>1
    <3> QED
      BY <3>1, <3>2
  <2>11. Places(f, q, t)
    BY <2>3, <2>7, <2>10 DEF Places
  <2> QED
    BY <2>2, <2>3, <2>11
<1>3. Seq(Seq(S)) \subseteq G
  <2> PICK T : T = Seq(S)
    OBVIOUS
  <2>1. <<>> \in G /\ \A p \in Seq(T) : \A x \in T : p \in G => Append(p, x) \in G
    <3> HIDE DEF G
    <3> QED
      BY <1>1, <1>2
  <2> HIDE DEF G
  <2>2. Seq(T) \subseteq G
    BY <2>1, SeqByAppend
  <2> QED
    BY <2>2
<1> QED
  BY <1>3

LEMMA FrontNext ==
  ASSUME NEW S, NEW s \in Seq(S), NEW i \in 1..Len(s)
  PROVE  Append(SubSeq(s, 1, i - 1), s[i]) = SubSeq(s, 1, i)
<1>1. Len(s) \in Nat /\ i \in 0..Len(s) /\ i - 1 \in 0..Len(s) /\ s[i] \in S
  <2>1. Len(s) \in Nat
    BY LenProperties
  <2> QED
    BY <2>1, ElementOfSeq
<1>2. /\ SubSeq(s, 1, i - 1) \in Seq(S) /\ Len(SubSeq(s, 1, i - 1)) = i - 1
      /\ \A j \in 1..(i - 1) : SubSeq(s, 1, i - 1)[j] = s[j]
  BY <1>1, FrontPiece
<1>3. /\ SubSeq(s, 1, i) \in Seq(S) /\ Len(SubSeq(s, 1, i)) = i
      /\ \A j \in 1..i : SubSeq(s, 1, i)[j] = s[j]
  BY <1>1, FrontPiece
<1>4. PICK a, b, t : a = SubSeq(s, 1, i - 1) /\ b = Append(a, s[i]) /\ t = SubSeq(s, 1, i)
  OBVIOUS
<1>5. /\ b \in Seq(S) /\ Len(b) = i /\ b[i] = s[i] /\ \A j \in 1..(i - 1) : b[j] = a[j]
  <2>1. /\ b \in Seq(S) /\ Len(b) = Len(a) + 1 /\ b[Len(a) + 1] = s[i]
        /\ \A j \in 1..Len(a) : b[j] = a[j]
    BY <1>1, <1>2, <1>4, AppendProperties
  <2> QED
    BY <1>1, <1>2, <1>4, <2>1
<1>6. \A j \in 1..i : b[j] = t[j]
  BY <1>1, <1>2, <1>3, <1>4, <1>5
<1>7. b = t
  BY <1>3, <1>4, <1>5, <1>6, SeqEqual
<1> QED
  BY <1>4, <1>7

\* A sequence given by its elements.
LEMMA Listed ==
  ASSUME NEW S, NEW n \in Nat, NEW f, f = [i \in 1..n |-> f[i]], \A i \in 1..n : f[i] \in S
  PROVE  f \in Seq(S) /\ Len(f) = n
<1>1. f \in [1..n -> S]
  BY Zenon
<1>2. f \in Seq(S)
  BY <1>1, SeqDef
<1>3. DOMAIN f = 1..n /\ DOMAIN f = 1..Len(f) /\ Len(f) \in Nat
  BY <1>1, <1>2, LenProperties
<1> QED
  BY <1>2, <1>3
=============================================================================
