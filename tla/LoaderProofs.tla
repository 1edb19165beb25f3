---------------------------- MODULE LoaderProofs ----------------------------
(***************************************************************************)
(* Proofs about files and about opening a model: what the reader makes of  *)
(* every file that the builder can write, whole or cut; and the invariants *)
(* of Loader, for every disk of such files and any number of shards,       *)
(* tensors and layers.                                                     *)
(***************************************************************************)
EXTENDS Loader, SeqLemmas, TLAPS

-----------------------------------------------------------------------------
(* Cells: where they start, and how long they are.                         *)

\* What is written is a sequence of cells.
Cell == [w : Nat, v : {"GGUF"} \cup STRING \cup Int]

LEMMA StartsDefined ==
  ASSUME NEW s
  PROVE  \A k \in Nat : \E f : f = [j \in 1..k |-> IF j = 1 THEN 0 ELSE s[j-1].w + f[j-1]]
<1> DEFINE P(k) == \E f : f = [j \in 1..k |-> IF j = 1 THEN 0 ELSE s[j-1].w + f[j-1]]
           G == {k \in Nat : P(k)}
<1>1. P(0)
  <2> DEFINE f == [j \in 1..0 |-> 0]
  <2>1. f = [j \in 1..0 |-> IF j = 1 THEN 0 ELSE s[j-1].w + f[j-1]]
    OBVIOUS
  <2> QED
    BY <2>1
<1>2. ASSUME NEW k \in Nat, P(k)
      PROVE  P(k + 1)
  <2>1. PICK f : f = [j \in 1..k |-> IF j = 1 THEN 0 ELSE s[j-1].w + f[j-1]]
    BY <1>2
  <2> DEFINE e(j) == IF j = 1 THEN 0 ELSE s[j-1].w + f[j-1]
             g == [j \in 1..(k+1) |-> e(j)]
  <2>2. ASSUME NEW j \in 1..(k+1), j # 1
        PROVE  g[j-1] = f[j-1]
    <3>1. j - 1 \in 1..k /\ j - 1 \in 1..(k+1)
      BY <2>2
    <3>2. f[j-1] = e(j-1)
      BY <2>1, <3>1
    <3>3. g[j-1] = e(j-1)
      BY <3>1
    <3> QED
      BY <3>2, <3>3
  <2> DEFINE h == [j \in 1..(k+1) |-> IF j = 1 THEN 0 ELSE s[j-1].w + g[j-1]]
  <2>3. \A j \in 1..(k+1) : g[j] = h[j]
    BY <2>2
  <2>4. g = h
    BY <2>3
  <2> QED
    BY <2>4
<1>3. 0 \in G /\ \A k \in Nat : k \in G => k + 1 \in G
  <2> HIDE DEF P
  <2> QED
    BY <1>1, <1>2
<1>4. Nat \subseteq G
  <2> HIDE DEF G
  <2> QED
    BY <1>3, NatBySteps
<1> QED
  BY <1>4

\* Where the cells of s start.
LEMMA StartsAre ==
  ASSUME NEW s \in Seq(Cell)
  PROVE  /\ Starts(s) \in [1..(Len(s) + 1) -> Nat] /\ Starts(s)[1] = 0
         /\ \A k \in 1..Len(s) : /\ s[k].w \in Nat
                                 /\ Starts(s)[k + 1] = s[k].w + Starts(s)[k]
<1>1. PICK n : n = Len(s) /\ n \in Nat
  BY LenProperties
<1>2. \A k \in 1..n : s[k].w \in Nat
  <2>1. \A k \in 1..n : s[k] \in Cell
    BY <1>1, ElementOfSeq
  <2> QED
    BY <2>1 DEF Cell
<1> DEFINE at == CHOOSE at : at = [j \in 1..(n+1) |-> IF j = 1 THEN 0 ELSE s[j-1].w + at[j-1]]
<1>3. at = [j \in 1..(n+1) |-> IF j = 1 THEN 0 ELSE s[j-1].w + at[j-1]]
  <2>1. n + 1 \in Nat
    BY <1>1
  <2> QED
    BY <2>1, StartsDefined
<1>4. Starts(s) = at
  BY <1>1 DEF Starts
<1> HIDE DEF at
<1>5. /\ DOMAIN at = 1..(n + 1) /\ at[1] = 0
      /\ at = [j \in 1..(n + 1) |-> at[j]]
      /\ \A k \in 1..n : at[k + 1] = s[k].w + at[k]
  <2>1. DOMAIN at = 1..(n + 1) /\ at = [j \in 1..(n + 1) |-> at[j]]
    BY <1>3
  <2>2. at[1] = 0
    BY <1>1, <1>3
  <2>3. ASSUME NEW k \in 1..n
        PROVE  at[k + 1] = s[k].w + at[k]
    <3>1. k + 1 \in 1..(n + 1) /\ k + 1 # 1 /\ (k + 1) - 1 = k
      BY <1>1
    <3> QED
      BY <1>3, <3>1
  <2> QED
    BY <2>1, <2>2, <2>3
<1> DEFINE G == {j \in Nat : j + 1 \in 1..(n + 1) => at[j + 1] \in Nat}
<1>6. 0 \in G
  BY <1>5
<1>7. ASSUME NEW j \in Nat, j \in G
      PROVE  j + 1 \in G
  <2>1. SUFFICES ASSUME j + 1 + 1 \in 1..(n + 1)
                 PROVE  at[j + 1 + 1] \in Nat
    OBVIOUS
  <2>2. j + 1 \in 1..n /\ j + 1 \in 1..(n + 1)
    BY <1>1, <2>1
  <2>3. at[j + 1 + 1] = s[j + 1].w + at[j + 1]
    BY <1>5, <2>2
  <2> QED
    BY <1>2, <1>7, <2>2, <2>3
<1>8. Nat \subseteq G
  <2> HIDE DEF G
  <2> QED
    BY <1>6, <1>7, NatBySteps
<1>9. ASSUME NEW k \in 1..(n + 1)
      PROVE  at[k] \in Nat
  <2>1. k - 1 \in Nat /\ (k - 1) + 1 = k
    BY <1>1
  <2>2. k - 1 \in G
    BY <1>8, <2>1
  <2> QED
    BY <2>1, <2>2
<1> QED
  BY <1>1, <1>2, <1>4, <1>5, <1>9

LEMMA TotalType ==
  ASSUME NEW s \in Seq(Cell)
  PROVE  Total(s) \in Nat
<1>1. Len(s) + 1 \in 1..(Len(s) + 1)
  BY LenProperties
<1> QED
  BY <1>1, StartsAre DEF Total

LEMMA TotalEmpty == Total(<<>>) = 0
<1>1. <<>> \in Seq(Cell) /\ Len(<<>>) + 1 = 1
  BY EmptySeq
<1>2. Starts(<<>>)[1] = 0
  BY <1>1, StartsAre
<1> QED
  BY <1>1, <1>2 DEF Total

LEMMA TotalAppend ==
  ASSUME NEW s \in Seq(Cell), NEW c \in Cell
  PROVE  /\ Total(Append(s, c)) = Total(s) + c.w
         /\ \A k \in 1..(Len(s) + 1) : Starts(Append(s, c))[k] = Starts(s)[k]
<1>1. PICK n, t : n = Len(s) /\ n \in Nat /\ t = Append(s, c)
  BY LenProperties
<1>2. t \in Seq(Cell) /\ Len(t) = n + 1 /\ t[n + 1] = c /\ \A i \in 1..n : t[i] = s[i]
  BY <1>1, AppendProperties
<1>3. /\ Starts(s)[1] = 0 /\ \A k \in 1..n : Starts(s)[k + 1] = s[k].w + Starts(s)[k]
      /\ Starts(s)[n + 1] \in Nat
  <2>1. n + 1 \in 1..(n + 1)
    BY <1>1
  <2> QED
    BY <1>1, <2>1, StartsAre
<1>4. /\ Starts(t)[1] = 0
      /\ \A k \in 1..(n + 1) : t[k].w \in Nat /\ Starts(t)[k + 1] = t[k].w + Starts(t)[k]
  BY <1>2, StartsAre
<1> DEFINE G == {j \in Nat : j + 1 \in 1..(n + 1) => Starts(t)[j + 1] = Starts(s)[j + 1]}
<1>5. 0 \in G
  BY <1>3, <1>4
<1>6. ASSUME NEW j \in Nat, j \in G
      PROVE  j + 1 \in G
  <2>1. SUFFICES ASSUME j + 1 + 1 \in 1..(n + 1)
                 PROVE  Starts(t)[j + 1 + 1] = Starts(s)[j + 1 + 1]
    OBVIOUS
  <2>2. j + 1 \in 1..n /\ j + 1 \in 1..(n + 1)
    BY <1>1, <2>1
  <2> QED
    BY <1>2, <1>3, <1>4, <1>6, <2>2
<1>7. Nat \subseteq G
  <2> HIDE DEF G
  <2> QED
    BY <1>5, <1>6, NatBySteps
<1>8. ASSUME NEW k \in 1..(n + 1)
      PROVE  Starts(t)[k] = Starts(s)[k]
  <2>1. k - 1 \in Nat /\ (k - 1) + 1 = k
    BY <1>1
  <2>2. k - 1 \in G
    BY <1>7, <2>1
  <2> QED
    BY <2>1, <2>2
<1>9. Starts(t)[(n + 1) + 1] = c.w + Starts(s)[n + 1] /\ c.w \in Nat
  <2>1. n + 1 \in 1..(n + 1)
    BY <1>1
  <2> QED
    BY <1>2, <1>4, <1>8, <2>1
<1>10. Total(t) = Total(s) + c.w
  BY <1>1, <1>2, <1>3, <1>9 DEF Total
<1> QED
  BY <1>1, <1>8, <1>10

LEMMA TotalConcat ==
  ASSUME NEW s \in Seq(Cell), NEW t \in Seq(Cell)
  PROVE  Total(s \o t) = Total(s) + Total(t)
<1> DEFINE G == {u \in Seq(Cell) : Total(s \o u) = Total(s) + Total(u)}
<1>1. <<>> \in G
  BY TotalType, TotalEmpty, ConcatEmptySeq, EmptySeq
<1>2. ASSUME NEW u \in Seq(Cell), NEW c \in Cell, u \in G
      PROVE  Append(u, c) \in G
  <2>1. Append(u, c) \in Seq(Cell) /\ s \o u \in Seq(Cell)
    BY AppendProperties, ConcatProperties
  <2>2. Total(s \o Append(u, c)) = Total(s \o u) + c.w
    <3>1. s \o Append(u, c) = Append(s \o u, c)
      BY JoinAppend
    <3> QED
      BY <2>1, <3>1, TotalAppend
  <2>3. Total(Append(u, c)) = Total(u) + c.w
    BY TotalAppend
  <2>4. Total(s) \in Nat /\ Total(u) \in Nat /\ c.w \in Nat
    BY TotalType DEF Cell
  <2> QED
    BY <1>2, <2>1, <2>2, <2>3, <2>4
<1>3. Seq(Cell) \subseteq G
  <2> HIDE DEF G
  <2> QED
    BY <1>1, <1>2, SeqByAppend
<1> QED
  BY <1>3

LEMMA UnnamedCell ==
  ASSUME NEW w \in Nat
  PROVE  Field(w, 0) \in Cell
BY DEF Field, Cell

\* What is written in parts is as long as its parts together.
Sizes(parts) == [i \in DOMAIN parts |-> Field(Total(parts[i]), 0)]

LEMMA SizesType ==
  ASSUME NEW parts \in Seq(Seq(Cell))
  PROVE  /\ Sizes(parts) \in Seq(Cell) /\ Len(Sizes(parts)) = Len(parts)
         /\ Size(parts) = Total(Sizes(parts))
         /\ \A i \in 1..Len(parts) : Sizes(parts)[i] = Field(Total(parts[i]), 0)
<1>1. PICK n : n = Len(parts) /\ n \in Nat /\ DOMAIN parts = 1..n
  BY LenProperties
<1>2. ASSUME NEW i \in 1..n
      PROVE  Field(Total(parts[i]), 0) \in Cell
  <2>1. parts[i] \in Seq(Cell)
    BY <1>1, ElementOfSeq
  <2>2. Total(parts[i]) \in Nat
    BY <2>1, TotalType
  <2> QED
    BY <2>2, UnnamedCell
<1>3. Sizes(parts) = [i \in 1..n |-> Field(Total(parts[i]), 0)]
  BY <1>1 DEF Sizes
<1>4. Sizes(parts) \in Seq(Cell) /\ Len(Sizes(parts)) = n
  <2>1. Sizes(parts) \in [1..n -> Cell]
    BY <1>2, <1>3
  <2>2. Sizes(parts) \in Seq(Cell)
    BY <1>1, <2>1, SeqDef
  <2>3. DOMAIN Sizes(parts) = 1..n /\ DOMAIN Sizes(parts) = 1..Len(Sizes(parts))
    BY <2>1, <2>2, LenProperties
  <2> QED
    BY <1>1, <2>1, <2>2, <2>3, LenProperties
<1>5. Size(parts) = Total(Sizes(parts))
  BY DEF Size, Sizes
<1> QED
  BY <1>1, <1>3, <1>4, <1>5

LEMMA TotalFlatten ==
  ASSUME NEW parts \in Seq(Seq(Cell))
  PROVE  Total(FlattenSeq(parts)) = Size(parts)
<1> DEFINE G == {p \in Seq(Seq(Cell)) : Total(FlattenSeq(p)) = Size(p)}
<1>1. <<>> \in G
  <2>1. <<>> \in Seq(Seq(Cell)) /\ Len(<<>>) = 0
    BY EmptySeq
  <2>2. Sizes(<<>>) \in Seq(Cell) /\ Len(Sizes(<<>>)) = 0 /\ Size(<<>>) = Total(Sizes(<<>>))
    BY <2>1, SizesType
  <2>3. Sizes(<<>>) = <<>>
    BY <2>2, EmptySeq
  <2> QED
    BY <2>1, <2>2, <2>3, FlattenEmpty
<1>2. ASSUME NEW p \in Seq(Seq(Cell)), NEW x \in Seq(Cell), p \in G
      PROVE  Append(p, x) \in G
  <2>1. PICK n, q : n = Len(p) /\ n \in Nat /\ q = Append(p, x)
    BY LenProperties
  <2>2. /\ q \in Seq(Seq(Cell)) /\ Len(q) = n + 1 /\ q[n + 1] = x
        /\ \A i \in 1..n : q[i] = p[i]
    <3>1. PICK T : T = Seq(Cell)
      OBVIOUS
    <3> QED
      BY <2>1, <3>1, AppendProperties
  <2>3. Field(Total(x), 0) \in Cell /\ Total(x) \in Nat
    BY TotalType, UnnamedCell
  <2>4. Sizes(q) = Append(Sizes(p), Field(Total(x), 0))
    <3>1. PICK a, b, c : a = Sizes(p) /\ b = Sizes(q) /\ c = Field(Total(x), 0)
      OBVIOUS
    <3>2. /\ a \in Seq(Cell) /\ Len(a) = n /\ b \in Seq(Cell) /\ Len(b) = n + 1 /\ c \in Cell
          /\ \A i \in 1..n : a[i] = Field(Total(p[i]), 0)
          /\ \A i \in 1..(n + 1) : b[i] = Field(Total(q[i]), 0)
      BY <2>1, <2>2, <2>3, <3>1, SizesType
    <3>3. /\ Append(a, c) \in Seq(Cell) /\ Len(Append(a, c)) = n + 1
          /\ Append(a, c)[n + 1] = c /\ \A i \in 1..n : Append(a, c)[i] = a[i]
      <4>0. a \in Seq(Cell) /\ c \in Cell
        BY <3>2
      <4>1. /\ Append(a, c) \in Seq(Cell) /\ Len(Append(a, c)) = Len(a) + 1
            /\ Append(a, c)[Len(a) + 1] = c
            /\ \A i \in 1..Len(a) : Append(a, c)[i] = a[i]
        BY <4>0, AppendProperties
      <4> QED
        BY <3>2, <4>1
    <3>4. \A i \in 1..(n + 1) : b[i] = Append(a, c)[i]
      BY <2>1, <2>2, <3>1, <3>2, <3>3
    <3> QED
      BY <2>1, <3>1, <3>2, <3>3, <3>4, SeqEqual
  <2>5. Size(q) = Size(p) + Total(x)
    <3>1. Field(Total(x), 0).w = Total(x)
      BY DEF Field
    <3>2. Sizes(p) \in Seq(Cell) /\ Size(p) = Total(Sizes(p)) /\ Size(q) = Total(Sizes(q))
      BY <2>2, SizesType
    <3>3. Total(Append(Sizes(p), Field(Total(x), 0)))
            = Total(Sizes(p)) + Field(Total(x), 0).w
      BY <2>3, <3>2, TotalAppend
    <3> QED
      BY <2>4, <3>1, <3>2, <3>3
  <2>6. Total(FlattenSeq(q)) = Total(FlattenSeq(p)) + Total(x)
    <3>1. FlattenSeq(q) = IF p = <<>> THEN x ELSE FlattenSeq(p) \o x
      BY <2>1, FlattenAppend
    <3>2. CASE p = <<>>
      BY <2>3, <3>1, <3>2, FlattenEmpty, TotalEmpty
    <3>3. CASE p # <<>>
      BY <3>1, <3>3, FlattenType, TotalConcat
    <3> QED
      BY <3>2, <3>3
  <2> QED
    BY <1>2, <2>1, <2>2, <2>5, <2>6
<1>3. Seq(Seq(Cell)) \subseteq G
  <2> PICK T : T = Seq(Cell)
    OBVIOUS
  <2>1. <<>> \in G /\ \A p \in Seq(T) : \A x \in T : p \in G => Append(p, x) \in G
    <3> HIDE DEF G
    <3> QED
      BY <1>1, <1>2
  <2> HIDE DEF G
  <2>2. Seq(T) \subseteq G
    BY <2>1, SeqByAppend
  <2> QED
    BY <2>2
<1> QED
  BY <1>3

\* Cells start one behind the other.
LEMMA StartsGrow ==
  ASSUME NEW s \in Seq(Cell), NEW i \in 1..(Len(s) + 1), NEW j \in 1..(Len(s) + 1), i <= j
  PROVE  Starts(s)[i] <= Starts(s)[j]
<1>1. PICK n, at : n = Len(s) /\ n \in Nat /\ at = Starts(s)
  BY LenProperties
<1>2. /\ at \in [1..(n + 1) -> Nat]
      /\ \A k \in 1..n : s[k].w \in Nat /\ at[k + 1] = s[k].w + at[k]
  BY <1>1, StartsAre
<1>3. i \in 1..(n + 1) /\ j \in 1..(n + 1)
  BY <1>1
<1> DEFINE G == {d \in Nat : i + d \in 1..(n + 1) => at[i] <= at[i + d]}
<1>4. 0 \in G
  BY <1>2, <1>3
<1>5. ASSUME NEW d \in Nat, d \in G
      PROVE  d + 1 \in G
  <2>1. SUFFICES ASSUME i + (d + 1) \in 1..(n + 1)
                 PROVE  at[i] <= at[i + (d + 1)]
    OBVIOUS
  <2>2. i + d \in 1..n /\ i + d \in 1..(n + 1) /\ i + (d + 1) = (i + d) + 1
    BY <1>1, <1>3, <2>1
  <2>3. at[i + (d + 1)] = s[i + d].w + at[i + d] /\ s[i + d].w \in Nat
    BY <1>2, <2>2
  <2>4. at[i] <= at[i + d] /\ at[i] \in Nat /\ at[i + d] \in Nat
    BY <1>2, <1>3, <1>5, <2>2
  <2> QED
    BY <2>3, <2>4
<1>6. Nat \subseteq G
  <2> HIDE DEF G
  <2> QED
    BY <1>4, <1>5, NatBySteps
<1>7. j - i \in Nat /\ i + (j - i) = j
  BY <1>1, <1>3
<1>8. j - i \in G
  BY <1>6, <1>7
<1> QED
  BY <1>1, <1>3, <1>7, <1>8

-----------------------------------------------------------------------------
(* Reading.                                                                *)

\* A file of the writer or a prefix of one.
FileType(file) == file.fields \in Seq(Cell) /\ file.len \in Nat

\* Where the kth cell starts, and the reader there.
Pos(file, k) == Starts(file.fields)[k]
Place(file, k) == [pos |-> Pos(file, k), next |-> k]

\* The cells p are there from the kth on.
Occurs(file, k, p) ==
  /\ k \in Nat \ {0} /\ k + Len(p) <= Len(file.fields) + 1
  /\ \A j \in 1..Len(p) : file.fields[k + j - 1] = p[j]

\* The reader is at the kth cell with the value v.
Stands(file, k, v) == [err |-> "Ok", pos |-> Pos(file, k), next |-> k, v |-> v]

\* The reader got as far as the kth cell with the value v, if what it read was
\* good and is there; it fails if not.
Gives(file, k, v, good, r) ==
  IF good /\ Pos(file, k) <= file.len THEN r = Stands(file, k, v) ELSE r.err # "Ok"

LEMMA AtType ==
  ASSUME NEW file, FileType(file)
  PROVE  /\ Len(file.fields) \in Nat
         /\ \A k \in 1..(Len(file.fields) + 1) : Pos(file, k) \in Nat
         /\ \A k \in 1..Len(file.fields) : /\ file.fields[k].w \in Nat
                                           /\ Pos(file, k + 1) = file.fields[k].w + Pos(file, k)
BY StartsAre, LenProperties DEF FileType, Pos

LEMMA AtGrows ==
  ASSUME NEW file, FileType(file), NEW i \in 1..(Len(file.fields) + 1),
         NEW j \in 1..(Len(file.fields) + 1), i <= j
  PROVE  Pos(file, i) <= Pos(file, j)
BY StartsGrow DEF FileType, Pos

LEMMA Given ==
  ASSUME NEW file, NEW k, NEW v, NEW good, NEW r, Gives(file, k, v, good, r), r.err = "Ok"
  PROVE  good /\ Pos(file, k) <= file.len /\ r = Stands(file, k, v)
BY Zenon DEF Gives

LEMMA NotGiven ==
  ASSUME NEW file, NEW k, NEW v, NEW good, NEW r, Gives(file, k, v, good, r), r.err # "Ok"
  PROVE  ~(good /\ Pos(file, k) <= file.len)
<1>1. SUFFICES ASSUME good /\ Pos(file, k) <= file.len
               PROVE  FALSE
  BY Zenon
<1>2. r = Stands(file, k, v)
  BY <1>1, Zenon DEF Gives
<1> QED
  BY <1>2 DEF Stands

LEMMA ReadGives ==
  ASSUME NEW file, FileType(file), NEW k \in 1..Len(file.fields), NEW x, NEW good, NEW r,
         Gives(file, k, x, good, r), NEW w, w = file.fields[k].w
  PROVE  Gives(file, k + 1, file.fields[k].v, good, Read(file, r, w))
<1>1. /\ Pos(file, k) \in Nat /\ w \in Nat /\ Pos(file, k + 1) = w + Pos(file, k)
      /\ file.len \in Nat /\ k \in DOMAIN file.fields /\ file.fields[k].w = w
  <2>1. k \in 1..(Len(file.fields) + 1)
    BY AtType
  <2> QED
    BY <2>1, AtType, LenProperties DEF FileType
<1>2. CASE r.err = "Ok"
  <2>0. good /\ Pos(file, k) <= file.len /\ r = Stands(file, k, x)
    BY <1>2, Given
  <2>1. Pos(file, k) <= file.len /\ r.pos = Pos(file, k) /\ r.next = k
    BY <2>0 DEF Stands
  <2>2. CASE Pos(file, k + 1) > file.len
    <3>1. Read(file, r, w) = Fail("Truncated")
      <4>1. r.pos + w > file.len
        BY <1>1, <2>1, <2>2
      <4> QED
        BY <1>2, <4>1, Zenon DEF Read
    <3>2. ~(Pos(file, k + 1) <= file.len) /\ Read(file, r, w).err # "Ok"
      BY <1>1, <2>2, <3>1 DEF Fail
    <3> QED
      BY <3>2, Zenon DEF Gives
  <2>3. CASE ~(Pos(file, k + 1) > file.len)
    <3>1. Read(file, r, w) = Stands(file, k + 1, file.fields[k].v)
      <4>1. /\ ~(r.pos + w > file.len)
            /\ r.next \in DOMAIN file.fields /\ file.fields[r.next].w = w
            /\ r.pos + w = Pos(file, k + 1) /\ r.next = k
        BY <1>1, <2>1, <2>3
      <4> QED
        BY <1>2, <4>1, Zenon DEF Read, Stands
    <3>2. Pos(file, k + 1) <= file.len
      BY <1>1, <2>3
    <3> QED
      BY <2>0, <3>1, <3>2, Zenon DEF Gives
  <2> QED
    BY <2>2, <2>3
<1>3. CASE r.err # "Ok"
  <2>1. Read(file, r, w) = r
    BY <1>3 DEF Read
  <2>2. Pos(file, k + 1) <= file.len => Pos(file, k) <= file.len
    BY <1>1
  <2>3. ~(good /\ Pos(file, k) <= file.len)
    BY <1>3, NotGiven
  <2> QED
    BY <1>3, <2>1, <2>2, <2>3, Zenon DEF Gives
<1> QED
  BY <1>2, <1>3

\* A place the reader can be at.
LEMMA FromGives ==
  ASSUME NEW file, NEW k, Pos(file, k) <= file.len
  PROVE  Gives(file, k, 0, TRUE, From(Place(file, k)))
BY DEF Gives, From, Place, Stands

\* One cell that is there.
LEMMA OccursOne ==
  ASSUME NEW file, FileType(file), NEW k, NEW c, Occurs(file, k, <<c>>)
  PROVE  k \in 1..Len(file.fields) /\ file.fields[k] = c
<1>1. /\ Len(<<c>>) = 1 /\ <<c>>[1] = c
      /\ Len(file.fields) \in Nat
  BY LenProperties DEF FileType
<1>2. k \in Nat \ {0} /\ k + 1 <= Len(file.fields) + 1 /\ file.fields[k + 1 - 1] = c
  BY <1>1 DEF Occurs
<1> QED
  BY <1>1, <1>2

LEMMA ReadCell ==
  ASSUME NEW file, FileType(file), NEW k, NEW w, NEW v, Occurs(file, k, <<Field(w, v)>>),
         NEW x, NEW good, NEW r, Gives(file, k, x, good, r)
  PROVE  Gives(file, k + 1, v, good, Read(file, r, w))
<1>1. k \in 1..Len(file.fields) /\ file.fields[k] = Field(w, v)
  BY OccursOne
<1>2. file.fields[k].w = w /\ file.fields[k].v = v
  BY <1>1 DEF Field
<1> QED
  BY <1>1, <1>2, ReadGives

\* What occurs behind other cells occurs.
LEMMA OccursPart ==
  ASSUME NEW file, FileType(file), NEW S, NEW p \in Seq(S), NEW q \in Seq(S), NEW k,
         Occurs(file, k, p \o q)
  PROVE  Occurs(file, k, p) /\ Occurs(file, k + Len(p), q)
<1>1. PICK n, m, s : n = Len(p) /\ m = Len(q) /\ s = p \o q /\ n \in Nat /\ m \in Nat
  BY LenProperties
<1>2. Len(s) = n + m /\ \A i \in 1..(n + m) : s[i] = IF i <= n THEN p[i] ELSE q[i - n]
  <2>1. /\ Len(p \o q) = Len(p) + Len(q)
        /\ \A i \in 1..(Len(p) + Len(q)) :
             (p \o q)[i] = IF i <= Len(p) THEN p[i] ELSE q[i - Len(p)]
    BY ConcatProperties
  <2> QED
    BY <1>1, <2>1
<1>3. /\ k \in Nat \ {0} /\ k + (n + m) <= Len(file.fields) + 1 /\ Len(file.fields) \in Nat
      /\ \A j \in 1..(n + m) : file.fields[k + j - 1] = s[j]
  BY <1>1, <1>2, LenProperties DEF Occurs, FileType
<1>4. ASSUME NEW j \in 1..n
      PROVE  file.fields[k + j - 1] = p[j]
  <2>1. j \in 1..(n + m) /\ j <= n
    BY <1>1
  <2> QED
    BY <1>2, <1>3, <2>1
<1>5. ASSUME NEW j \in 1..m
      PROVE  file.fields[k + n + j - 1] = q[j]
  <2>1. n + j \in 1..(n + m) /\ ~(n + j <= n) /\ n + j - n = j /\ k + (n + j) - 1 = k + n + j - 1
    BY <1>1, <1>3
  <2>2. file.fields[k + n + j - 1] = q[j]
    <3>1. file.fields[k + (n + j) - 1] = s[n + j] /\ s[n + j] = q[n + j - n]
      <4>1. k + (n + j) - 1 = k + n + j - 1 /\ k + n + j - 1 = k + (n + j) - 1
        BY <1>1, <1>3
      <4>2. PICK i : i = n + j
        OBVIOUS
      <4>3. file.fields[k + i - 1] = s[i] /\ s[i] = q[i - n]
        BY <1>2, <1>3, <2>1, <4>2
      <4> QED
        BY <1>1, <1>3, <4>2, <4>3
    <3> QED
      BY <2>1, <3>1
  <2> QED
    BY <2>2
<1> QED
  BY <1>1, <1>3, <1>4, <1>5 DEF Occurs

LEMMA ReadStrGives ==
  ASSUME NEW file, FileType(file), NEW k, NEW s, Occurs(file, k, WriteStr(s)),
         NEW x, NEW good, NEW r, Gives(file, k, x, good, r)
  PROVE  Gives(file, k + 1, s, good, ReadStr(file, r))
<1>1. Occurs(file, k, <<Field(8 + Len(s), s)>>)
  BY DEF WriteStr
<1>2. Gives(file, k + 1, s, good, Read(file, r, 8 + Len(s)))
  BY <1>1, ReadCell
<1>3. k \in 1..Len(file.fields) /\ file.fields[k].w = 8 + Len(s) /\ k \in DOMAIN file.fields
  <2>1. k \in 1..Len(file.fields) /\ file.fields[k] = Field(8 + Len(s), s)
    BY <1>1, OccursOne
  <2> QED
    BY <2>1, LenProperties DEF Field, FileType
<1>4. ReadStr(file, r) = Read(file, r, 8 + Len(s))
  <2>1. CASE r.err # "Ok"
    BY <2>1 DEF ReadStr, Read
  <2>2. CASE r.err = "Ok"
    <3>1. r = Stands(file, k, x)
      BY <2>2 DEF Gives
    <3>2. r.next = k
      BY <3>1 DEF Stands
    <3> QED
      BY <1>3, <2>2, <3>2 DEF ReadStr
  <2> QED
    BY <2>1, <2>2
<1> QED
  BY <1>2, <1>4

LEMMA RawTypes ==
  ASSUME NEW t \in ValueTypes
  PROVE  ValueTypeRaw[t] \in 0..12 /\ ValueTypeFromRaw(ValueTypeRaw[t]) = t
<1>1. ValueTypes = {"U8", "I8", "U16", "I16", "U32", "I32", "F32", "Bool", "String", "Array",
                    "U64", "I64", "F64"}
  BY DEF ValueTypes, ValueTypeRaw
<1>2. \A u \in ValueTypes : ValueTypeRaw[u] \in 0..12
  BY <1>1 DEF ValueTypeRaw
<1>3. \A u \in ValueTypes : ValueTypeRaw[u] = ValueTypeRaw[t] => u = t
  BY <1>1 DEF ValueTypeRaw
<1> QED
  BY <1>2, <1>3 DEF ValueTypeFromRaw

LEMMA ReadTypeGives ==
  ASSUME NEW file, FileType(file), NEW k, NEW t \in ValueTypes,
         Occurs(file, k, <<Field(4, ValueTypeRaw[t])>>),
         NEW x, NEW good, NEW r, Gives(file, k, x, good, r)
  PROVE  Gives(file, k + 1, t, good, ReadType(file, r))
<1>1. PICK raw : raw = Read(file, r, 4)
  OBVIOUS
<1>2. Gives(file, k + 1, ValueTypeRaw[t], good, raw)
  BY <1>1, ReadCell
<1>3. ReadType(file, r) =
        IF raw.err # "Ok" THEN raw
        ELSE IF raw.v \in 0..12 THEN Yield(raw, ValueTypeFromRaw(raw.v))
             ELSE Fail("UnknownValueType")
  BY <1>1 DEF ReadType
<1>4. CASE raw.err # "Ok"
  <2>1. ReadType(file, r) = raw /\ ~(good /\ Pos(file, k + 1) <= file.len)
    BY <1>2, <1>3, <1>4, NotGiven
  <2> QED
    BY <1>4, <2>1, Zenon DEF Gives
<1>5. CASE raw.err = "Ok"
  <2>1. good /\ Pos(file, k + 1) <= file.len /\ raw = Stands(file, k + 1, ValueTypeRaw[t])
    BY <1>2, <1>5, Given
  <2>2. /\ raw.v = ValueTypeRaw[t] /\ raw.pos = Pos(file, k + 1) /\ raw.next = k + 1
    BY <2>1 DEF Stands
  <2>3. ReadType(file, r) = Yield(raw, t)
    BY <1>3, <1>5, <2>2, RawTypes
  <2>4. ReadType(file, r) = Stands(file, k + 1, t)
    BY <1>5, <2>2, <2>3 DEF Yield, Stands
  <2> QED
    BY <2>1, <2>4, Zenon DEF Gives
<1> QED
  BY <1>4, <1>5

\* Another value for what was read.
LEMMA YieldGives ==
  ASSUME NEW file, NEW k, NEW x, NEW good, NEW r, Gives(file, k, x, good, r), NEW y, NEW z,
         r.err = "Ok" => y = z
  PROVE  Gives(file, k, z, good, Yield(r, y))
<1>1. CASE r.err # "Ok"
  <2>1. Yield(r, y) = r /\ ~(good /\ Pos(file, k) <= file.len)
    BY <1>1, NotGiven DEF Yield
  <2> QED
    BY <1>1, <2>1, Zenon DEF Gives
<1>2. CASE r.err = "Ok"
  <2>1. good /\ Pos(file, k) <= file.len /\ r = Stands(file, k, x)
    BY <1>2, Given
  <2>2. Yield(r, y) = Stands(file, k, z)
    BY <1>2, <2>1 DEF Yield, Stands
  <2> QED
    BY <2>1, <2>2, Zenon DEF Gives
<1> QED
  BY <1>1, <1>2

-----------------------------------------------------------------------------
(* Reading several things.                                                 *)

LEMMA RunDefined ==
  ASSUME NEW one, NEW r
  PROVE  \A k \in Nat : \E f : f = [j \in 0..k |-> IF j = 0 THEN Yield(r, <<>>) ELSE ReadMore(one, f[j-1])]
<1> DEFINE P(k) == \E f : f = [j \in 0..k |-> IF j = 0 THEN Yield(r, <<>>) ELSE ReadMore(one, f[j-1])]
           G == {k \in Nat : P(k)}
<1>1. P(0)
  <2> DEFINE f == [j \in 0..0 |-> Yield(r, <<>>)]
  <2>1. f = [j \in 0..0 |-> IF j = 0 THEN Yield(r, <<>>) ELSE ReadMore(one, f[j-1])]
    OBVIOUS
  <2> QED
    BY <2>1
<1>2. ASSUME NEW k \in Nat, P(k)
      PROVE  P(k + 1)
  <2>1. PICK f : f = [j \in 0..k |-> IF j = 0 THEN Yield(r, <<>>) ELSE ReadMore(one, f[j-1])]
    BY <1>2
  <2> DEFINE e(j) == IF j = 0 THEN Yield(r, <<>>) ELSE ReadMore(one, f[j-1])
             g == [j \in 0..(k+1) |-> e(j)]
  <2>2. ASSUME NEW j \in 0..(k+1), j # 0
        PROVE  g[j-1] = f[j-1]
    <3>1. j - 1 \in 0..k /\ j - 1 \in 0..(k+1)
      BY <2>2
    <3>2. f[j-1] = e(j-1)
      BY <2>1, <3>1
    <3>3. g[j-1] = e(j-1)
      BY <3>1
    <3> QED
      BY <3>2, <3>3
  <2> DEFINE h == [j \in 0..(k+1) |-> IF j = 0 THEN Yield(r, <<>>) ELSE ReadMore(one, g[j-1])]
  <2>3. \A j \in 0..(k+1) : g[j] = h[j]
    BY <2>2
  <2>4. g = h
    BY <2>3
  <2> QED
    BY <2>4
<1>3. 0 \in G /\ \A k \in Nat : k \in G => k + 1 \in G
  <2> HIDE DEF P
  <2> QED
    BY <1>1, <1>2
<1>4. Nat \subseteq G
  <2> HIDE DEF G
  <2> QED
    BY <1>3, NatBySteps
<1> QED
  BY <1>4

\* f holds what is read after each of n values.
Runs(f, one, r, n) ==
  /\ f[0] = Yield(r, <<>>) /\ \A j \in 1..n : f[j] = ReadMore(one, f[j - 1])
  /\ ReadMany(one, r, n) = f[n]

LEMMA RunUnfolds ==
  ASSUME NEW one, NEW r, NEW n \in Nat, r.err = "Ok"
  PROVE  \E f : Runs(f, one, r, n)
<1> DEFINE f == CHOOSE f : f = [j \in 0..n |-> IF j = 0 THEN Yield(r, <<>>) ELSE ReadMore(one, f[j-1])]
<1>1. f = [j \in 0..n |-> IF j = 0 THEN Yield(r, <<>>) ELSE ReadMore(one, f[j-1])]
  BY RunDefined
<1>2. ReadMany(one, r, n) = f[n]
  BY DEF ReadMany
<1> HIDE DEF f
<1>3. f[0] = Yield(r, <<>>) /\ \A j \in 1..n : f[j] = ReadMore(one, f[j - 1])
  BY <1>1
<1> QED
  BY <1>2, <1>3 DEF Runs

\* Several values: e[i] is where the ith ends.
LEMMA ReadManyGives ==
  ASSUME NEW file, FileType(file), NEW V, NEW X \in Seq(V), NEW n, n = Len(X), NEW e,
         \A i \in 0..n : e[i] \in 1..(Len(file.fields) + 1),
         \A i \in 1..n : e[i - 1] <= e[i],
         NEW one, NEW Good,
         \A i \in 1..n : Pos(file, e[i - 1]) <= file.len =>
            Gives(file, e[i], X[i], i \in Good, one[Place(file, e[i - 1])]),
         NEW y, NEW good, NEW r, Gives(file, e[0], y, good, r), NEW count, r.err = "Ok" => count = n
  PROVE  Gives(file, e[n], X, good /\ \A i \in 1..n : i \in Good, ReadMany(one, r, count))
<1>1. n \in Nat /\ 0 \in 0..n /\ n \in 0..n
  BY LenProperties
<1>2. /\ file.len \in Nat /\ Len(file.fields) \in Nat
      /\ \A i \in 0..n : Pos(file, e[i]) \in Nat /\ e[i] \in Nat
      /\ \A i \in 1..n : Pos(file, e[i - 1]) <= Pos(file, e[i])
  <2>1. file.len \in Nat /\ Len(file.fields) \in Nat
    BY AtType DEF FileType
  <2>2. \A i \in 0..n : Pos(file, e[i]) \in Nat /\ e[i] \in Nat
    BY <2>1, AtType
  <2>3. ASSUME NEW i \in 1..n
        PROVE  Pos(file, e[i - 1]) <= Pos(file, e[i])
    <3>1. i \in 0..n /\ i - 1 \in 0..n
      BY <1>1
    <3> QED
      BY <3>1, AtGrows
  <2> QED
    BY <2>1, <2>2, <2>3
<1> DEFINE Upto(i) == \A j \in 1..i : j \in Good
           Is(i) == Pos(file, e[i]) <= file.len
<1>3. \A i \in 0..n : Is(n) => Is(i)
  <2> DEFINE G == {d \in Nat : d <= n => (Is(n) => Is(n - d))}
  <2>1. 0 \in G
    BY <1>1
  <2>2. ASSUME NEW d \in Nat, d \in G
        PROVE  d + 1 \in G
    <3>1. SUFFICES ASSUME d + 1 <= n, Is(n)
                   PROVE  Is(n - (d + 1))
      OBVIOUS
    <3>2. n - d \in 1..n /\ n - d \in 0..n /\ (n - d) - 1 = n - (d + 1) /\ n - (d + 1) \in 0..n
      BY <1>1, <3>1
    <3>3. Pos(file, e[n - d]) <= file.len
      BY <1>1, <2>2, <3>1
    <3>4. Pos(file, e[n - (d + 1)]) <= Pos(file, e[n - d])
      BY <1>2, <3>2
    <3>5. PICK a, b : a = n - d /\ b = n - (d + 1)
      OBVIOUS
    <3>6. Pos(file, e[b]) \in Nat /\ Pos(file, e[a]) \in Nat
      BY <1>2, <3>2, <3>5
    <3>7. Pos(file, e[b]) <= file.len
      BY <1>2, <3>3, <3>4, <3>5, <3>6
    <3> QED
      BY <3>5, <3>7
  <2>3. Nat \subseteq G
    <3> HIDE DEF G
    <3> QED
      BY <2>1, <2>2, NatBySteps
  <2>4. ASSUME NEW i \in 0..n
        PROVE  Is(n) => Is(i)
    <3>1. n - i \in Nat /\ n - i <= n /\ n - (n - i) = i
      BY <1>1
    <3>2. n - i \in G
      BY <2>3, <3>1
    <3> QED
      BY <3>1, <3>2
  <2> QED
    BY <2>4
<1>4. CASE r.err # "Ok"
  <2>1. ReadMany(one, r, count) = r
    BY <1>4 DEF ReadMany
  <2>2. ~(good /\ Is(0))
    BY <1>4, NotGiven
  <2>3. Is(n) => Is(0)
    BY <1>1, <1>3
  <2>4. ~((good /\ \A i \in 1..n : i \in Good) /\ Pos(file, e[n]) <= file.len)
    BY <2>2, <2>3, Zenon
  <2> QED
    BY <1>4, <2>1, <2>4, Zenon DEF Gives
<1>5. CASE r.err = "Ok"
  <2>1. good /\ Is(0) /\ r = Stands(file, e[0], y)
    BY <1>5, Given
  <2>2. PICK f : /\ f[0] = Yield(r, <<>>) /\ \A j \in 1..n : f[j] = ReadMore(one, f[j - 1])
                 /\ ReadMany(one, r, n) = f[n]
    <3>1. PICK f : Runs(f, one, r, n)
      BY <1>1, <1>5, RunUnfolds
    <3> QED
      BY <3>1 DEF Runs
  <2> DEFINE P(i) == Gives(file, e[i], SubSeq(X, 1, i), Upto(i), f[i])
             G == {i \in Nat : i <= n => P(i)}
  <2>3. P(0)
    <3>1. SubSeq(X, 1, 0) = <<>>
      BY <1>1, FrontPiece, EmptySeq
    <3>2. f[0] = Stands(file, e[0], <<>>)
      BY <1>5, <2>1, <2>2 DEF Yield, Stands
    <3>3. Upto(0)
      OBVIOUS
    <3> QED
      BY <2>1, <3>1, <3>2, <3>3, Zenon DEF Gives
  <2>4. ASSUME NEW i \in Nat, i + 1 <= n, P(i)
        PROVE  P(i + 1)
    <3>2. PICK k : k = i + 1 /\ k \in 1..n /\ k \in 0..n /\ k - 1 = i /\ i \in 0..n
      BY <1>1, <2>4
    <3>3. P(i)
      BY <2>4
    <3>4. f[k] = ReadMore(one, f[i]) /\ Pos(file, e[i]) <= Pos(file, e[k])
      BY <1>2, <2>2, <3>2
    <3>5. Upto(k) <=> Upto(i) /\ k \in Good
      <4>1. \A j : j \in 1..k <=> j \in 1..i \/ j = k
        BY <3>2
      <4> QED
        BY <4>1, Zenon
    <3>6. CASE f[i].err # "Ok"
      <4>1. f[k] = f[i]
        BY <3>4, <3>6 DEF ReadMore
      <4>2. ~(Upto(i) /\ Is(i))
        <5> HIDE DEF Upto
        <5> QED
          BY <3>3, <3>6, NotGiven
      <4>3. Is(k) => Is(i)
        BY <1>2, <3>2, <3>4
      <4>4. ~(Upto(k) /\ Pos(file, e[k]) <= file.len)
        <5> HIDE DEF Upto
        <5> QED
          BY <3>5, <4>2, <4>3, Zenon
      <4>5. P(k)
        <5> HIDE DEF Upto
        <5> QED
          BY <3>6, <4>1, <4>4, Zenon DEF Gives
      <4> QED
        BY <3>2, <4>5
    <3>7. CASE f[i].err = "Ok"
      <4>1. Upto(i) /\ Is(i) /\ f[i] = Stands(file, e[i], SubSeq(X, 1, i))
        <5> HIDE DEF Upto
        <5> QED
          BY <3>3, <3>7, Given
      <4>2. PICK x : x = one[After(f[i])]
        OBVIOUS
      <4>3. After(f[i]) = Place(file, e[i]) /\ f[i].v = SubSeq(X, 1, i)
        BY <4>1 DEF After, Place, Stands
      <4>4. Gives(file, e[k], X[k], k \in Good, x)
        BY <3>2, <4>1, <4>2, <4>3
      <4>5. f[k] = Yield(x, Append(f[i].v, x.v))
        BY <3>4, <3>7, <4>2 DEF ReadMore
      <4>6. x.err = "Ok" => Append(f[i].v, x.v) = SubSeq(X, 1, k)
        <5>1. SUFFICES ASSUME x.err = "Ok"
                       PROVE  Append(f[i].v, x.v) = SubSeq(X, 1, k)
          OBVIOUS
        <5>2. x = Stands(file, e[k], X[k])
          BY <4>4, <5>1, Given
        <5>3. x.v = X[k]
          BY <5>2 DEF Stands
        <5>4. Append(SubSeq(X, 1, i), X[k]) = SubSeq(X, 1, k)
          BY <3>2, FrontNext
        <5> QED
          BY <4>3, <5>3, <5>4
      <4>7. Gives(file, e[k], SubSeq(X, 1, k), k \in Good, f[k])
        BY <4>4, <4>5, <4>6, YieldGives
      <4>8. P(k)
        <5>1. Upto(k) <=> k \in Good
          BY <3>5, <4>1
        <5> HIDE DEF Upto
        <5> QED
          BY <4>7, <5>1, Zenon DEF Gives
      <4> QED
        BY <3>2, <4>8
    <3> QED
      BY <3>6, <3>7
  <2>5. P(n)
    <3> HIDE DEF P
    <3>1. 0 \in G /\ \A i \in Nat : i \in G => i + 1 \in G
      BY <1>1, <2>3, <2>4
    <3>2. Nat \subseteq G
      <4> HIDE DEF G
      <4> QED
        BY <3>1, NatBySteps
    <3> QED
      BY <1>1, <3>2
  <2>6. P(n)
    BY <2>5
  <2>7. SubSeq(X, 1, n) = X /\ ReadMany(one, r, count) = f[n]
    BY <1>1, <1>5, <2>2, FrontPiece, SeqEqual
  <2>8. Gives(file, e[n], X, Upto(n), ReadMany(one, r, count))
    BY <2>6, <2>7
  <2> QED
    BY <2>1, <2>8, Zenon DEF Gives
<1> QED
  BY <1>4, <1>5

\* The pieces occur in the file one after the other: e[i] is where the ith ends.
PartEnds(e, file, k, pieces) ==
  /\ e[0] = k /\ e[Len(pieces)] = k + Len(FlattenSeq(pieces))
  /\ \A i \in 0..Len(pieces) : e[i] \in 1..(Len(file.fields) + 1)
  /\ \A i \in 1..Len(pieces) :
       /\ e[i - 1] <= e[i] /\ e[i] = e[i - 1] + Len(pieces[i])
       /\ Len(pieces[i]) <= Len(FlattenSeq(pieces))
       /\ Occurs(file, e[i - 1], pieces[i])

LEMMA PartsOccur ==
  ASSUME NEW file, FileType(file), NEW pieces \in Seq(Seq(Cell)), NEW k,
         Occurs(file, k, FlattenSeq(pieces))
  PROVE  \E e : PartEnds(e, file, k, pieces)
<1>1. PICK n, s, m, l : /\ n = Len(pieces) /\ s = FlattenSeq(pieces) /\ m = Len(s)
                        /\ l = Len(file.fields)
  OBVIOUS
<1>2. n \in Nat /\ s \in Seq(Cell) /\ m \in Nat /\ l \in Nat
  <2>1. s \in Seq(Cell)
    BY <1>1, FlattenType
  <2> QED
    BY <1>1, <2>1, LenProperties, AtType
<1>3. PICK p : Places(p, pieces, s)
  BY <1>1, FlattenPlaces
<1>4. /\ p \in [0..n -> Nat] /\ p[0] = 0 /\ p[n] = m
      /\ \A i \in 1..n : /\ p[i] = p[i - 1] + Len(pieces[i]) /\ p[i] <= m
                         /\ \A j \in 1..Len(pieces[i]) : s[p[i - 1] + j] = pieces[i][j]
  BY <1>1, <1>3 DEF Places
<1>5. k \in Nat \ {0} /\ k + m <= l + 1 /\ \A j \in 1..m : file.fields[k + j - 1] = s[j]
  BY <1>1 DEF Occurs
<1> DEFINE e == [i \in 0..n |-> k + p[i]]
<1>6. \A i \in 0..n : e[i] = k + p[i] /\ p[i] \in Nat /\ p[i] <= m
  <2>1. \A i \in 0..n : e[i] = k + p[i] /\ p[i] \in Nat
    BY <1>4
  <2>2. ASSUME NEW i \in 0..n
        PROVE  p[i] <= m
    <3>1. CASE i = 0
      BY <1>2, <1>4, <3>1
    <3>2. CASE i # 0
      <4>1. i \in 1..n
        BY <1>2, <3>2
      <4> QED
        BY <1>4, <4>1
    <3> QED
      BY <3>1, <3>2
  <2> QED
    BY <2>1, <2>2
<1> HIDE DEF e
<1>7. e[0] = k /\ e[n] = k + m
  BY <1>2, <1>4, <1>5, <1>6
<1>8. ASSUME NEW i \in 0..n
      PROVE  e[i] \in 1..(l + 1)
  <2>1. e[i] = k + p[i] /\ p[i] \in Nat /\ p[i] <= m
    BY <1>6
  <2>2. k \in Nat \ {0} /\ k + m <= l + 1
    BY <1>5
  <2> QED
    BY <1>2, <2>1, <2>2
<1>9. ASSUME NEW i \in 1..n
      PROVE  /\ e[i - 1] <= e[i] /\ e[i] = e[i - 1] + Len(pieces[i])
             /\ Len(pieces[i]) <= m /\ Occurs(file, e[i - 1], pieces[i])
  <2>1. i \in 0..n /\ i - 1 \in 0..n
    BY <1>2
  <2>2. PICK a, b, q, w : a = p[i - 1] /\ b = p[i] /\ q = pieces[i] /\ w = Len(q)
    OBVIOUS
  <2>3. w \in Nat
    <3>1. PICK T : T = Seq(Cell)
      OBVIOUS
    <3>2. q \in T
      BY <1>1, <2>2, <3>1, ElementOfSeq
    <3> QED
      BY <2>2, <3>1, <3>2, LenProperties
  <2>4. a \in Nat /\ b \in Nat /\ b = a + w /\ b <= m /\ e[i - 1] = k + a /\ e[i] = k + b
    BY <1>4, <1>6, <2>1, <2>2
  <2>5. ASSUME NEW j \in 1..w
        PROVE  file.fields[(k + a) + j - 1] = q[j]
    <3>1. PICK h : h = a + j
      OBVIOUS
    <3>2. h \in 1..m /\ k + h - 1 = (k + a) + j - 1
      BY <1>2, <1>5, <2>3, <2>4, <3>1
    <3>3. file.fields[k + h - 1] = s[h] /\ s[h] = q[j]
      BY <1>4, <1>5, <2>2, <3>1, <3>2
    <3> QED
      BY <3>2, <3>3
  <2>6. k \in Nat \ {0} /\ k + m <= l + 1
    BY <1>5
  <2>7. k + a \in Nat \ {0} /\ (k + a) + w <= l + 1 /\ w <= m /\ k + a <= k + b /\ k + b = (k + a) + w
    BY <1>2, <2>3, <2>4, <2>6
  <2>8. Occurs(file, k + a, q)
    BY <1>1, <2>2, <2>5, <2>7 DEF Occurs
  <2> QED
    BY <2>2, <2>4, <2>7, <2>8
<1> QED
  BY <1>1, <1>7, <1>8, <1>9 DEF PartEnds

-----------------------------------------------------------------------------
(* Values.                                                                 *)

LEMMA ValuesDefined ==
  \A k \in Nat : \E f : f = [j \in 0..k |-> IF j = 0 THEN {} ELSE Scalars \cup Arrays(f[j-1])]
<1> DEFINE P(k) == \E f : f = [j \in 0..k |-> IF j = 0 THEN {} ELSE Scalars \cup Arrays(f[j-1])]
           G == {k \in Nat : P(k)}
<1>1. P(0)
  <2> DEFINE f == [j \in 0..0 |-> {}]
  <2>1. f = [j \in 0..0 |-> IF j = 0 THEN {} ELSE Scalars \cup Arrays(f[j-1])]
    OBVIOUS
  <2> QED
    BY <2>1
<1>2. ASSUME NEW k \in Nat, P(k)
      PROVE  P(k + 1)
  <2>1. PICK f : f = [j \in 0..k |-> IF j = 0 THEN {} ELSE Scalars \cup Arrays(f[j-1])]
    BY <1>2
  <2> DEFINE e(j) == IF j = 0 THEN {} ELSE Scalars \cup Arrays(f[j-1])
             g == [j \in 0..(k+1) |-> e(j)]
  <2>2. ASSUME NEW j \in 0..(k+1), j # 0
        PROVE  g[j-1] = f[j-1]
    <3>1. j - 1 \in 0..k /\ j - 1 \in 0..(k+1)
      BY <2>2
    <3>2. f[j-1] = e(j-1)
      BY <2>1, <3>1
    <3>3. g[j-1] = e(j-1)
      BY <3>1
    <3> QED
      BY <3>2, <3>3
  <2> DEFINE h == [j \in 0..(k+1) |-> IF j = 0 THEN {} ELSE Scalars \cup Arrays(g[j-1])]
  <2>3. \A j \in 0..(k+1) : g[j] = h[j]
    BY <2>2
  <2>4. g = h
    BY <2>3
  <2> QED
    BY <2>4
<1>3. 0 \in G /\ \A k \in Nat : k \in G => k + 1 \in G
  <2> HIDE DEF P
  <2> QED
    BY <1>1, <1>2
<1>4. Nat \subseteq G
  <2> HIDE DEF G
  <2> QED
    BY <1>3, NatBySteps
<1> QED
  BY <1>4

LEMMA ValuesAre ==
  Values[0] = {} /\ \A n \in 1..Nesting : Values[n] = Scalars \cup Arrays(Values[n - 1])
<1>1. Nesting \in Nat
  BY NestingAssumption
<1>2. Values = [j \in 0..Nesting |-> IF j = 0 THEN {} ELSE Scalars \cup Arrays(Values[j-1])]
  BY <1>1, ValuesDefined DEF Values
<1>3. ASSUME NEW j \in 0..Nesting
      PROVE  Values[j] = IF j = 0 THEN {} ELSE Scalars \cup Arrays(Values[j - 1])
  BY <1>2, <1>3, Zenon
<1>4. \A n \in 1..Nesting : n \in 0..Nesting /\ n # 0
  BY <1>1
<1>5. 0 \in 0..Nesting
  BY <1>1
<1> QED
  BY <1>3, <1>4, <1>5

LEMMA WritesDefined ==
  \A k \in Nat : \E f : f = [j \in 0..k |-> IF j = 0 THEN <<>> ELSE WriteEach(Values[j], f[j-1])]
<1> DEFINE P(k) == \E f : f = [j \in 0..k |-> IF j = 0 THEN <<>> ELSE WriteEach(Values[j], f[j-1])]
           G == {k \in Nat : P(k)}
<1>1. P(0)
  <2> DEFINE f == [j \in 0..0 |-> <<>>]
  <2>1. f = [j \in 0..0 |-> IF j = 0 THEN <<>> ELSE WriteEach(Values[j], f[j-1])]
    OBVIOUS
  <2> QED
    BY <2>1
<1>2. ASSUME NEW k \in Nat, P(k)
      PROVE  P(k + 1)
  <2>1. PICK f : f = [j \in 0..k |-> IF j = 0 THEN <<>> ELSE WriteEach(Values[j], f[j-1])]
    BY <1>2
  <2> DEFINE e(j) == IF j = 0 THEN <<>> ELSE WriteEach(Values[j], f[j-1])
             g == [j \in 0..(k+1) |-> e(j)]
  <2>2. ASSUME NEW j \in 0..(k+1), j # 0
        PROVE  g[j-1] = f[j-1]
    <3>1. j - 1 \in 0..k /\ j - 1 \in 0..(k+1)
      BY <2>2
    <3>2. f[j-1] = e(j-1)
      BY <2>1, <3>1
    <3>3. g[j-1] = e(j-1)
      BY <3>1
    <3> QED
      BY <3>2, <3>3
  <2> DEFINE h == [j \in 0..(k+1) |-> IF j = 0 THEN <<>> ELSE WriteEach(Values[j], g[j-1])]
  <2>3. \A j \in 0..(k+1) : g[j] = h[j]
    BY <2>2
  <2>4. g = h
    BY <2>3
  <2> QED
    BY <2>4
<1>3. 0 \in G /\ \A k \in Nat : k \in G => k + 1 \in G
  <2> HIDE DEF P
  <2> QED
    BY <1>1, <1>2
<1>4. Nat \subseteq G
  <2> HIDE DEF G
  <2> QED
    BY <1>3, NatBySteps
<1> QED
  BY <1>4

LEMMA WritesAre ==
  \A n \in 1..Nesting : WriteValue[n] = WriteEach(Values[n], WriteValue[n - 1])
<1>1. Nesting \in Nat
  BY NestingAssumption
<1>2. WriteValue = [j \in 0..Nesting |->
                      IF j = 0 THEN <<>> ELSE WriteEach(Values[j], WriteValue[j-1])]
  BY <1>1, WritesDefined DEF WriteValue
<1>3. ASSUME NEW j \in 0..Nesting
      PROVE  WriteValue[j] = IF j = 0 THEN <<>> ELSE WriteEach(Values[j], WriteValue[j-1])
  BY <1>2, <1>3, Zenon
<1>4. \A n \in 1..Nesting : n \in 0..Nesting /\ n # 0
  BY <1>1
<1>5. 0 \in 0..Nesting
  BY <1>1
<1> QED
  BY <1>3, <1>4, <1>5

LEMMA WriteIs ==
  ASSUME NEW n \in 1..Nesting, NEW x \in Values[n]
  PROVE  WriteValue[n][x] = IF x.type = "Array" THEN WriteArray(x, WriteValue[n - 1])
                            ELSE WriteScalar(x)
<1>1. WriteValue[n] = WriteEach(Values[n], WriteValue[n - 1])
  BY WritesAre
<1> QED
  BY <1>1 DEF WriteEach

LEMMA ReadsDefined ==
  ASSUME NEW file
  PROVE  \A k \in Nat : \E f : f = [j \in 0..k |-> IF j = 0 THEN ReadNone ELSE ReadEach(file, f[j-1])]
<1> DEFINE P(k) == \E f : f = [j \in 0..k |-> IF j = 0 THEN ReadNone ELSE ReadEach(file, f[j-1])]
           G == {k \in Nat : P(k)}
<1>1. P(0)
  <2> DEFINE f == [j \in 0..0 |-> ReadNone]
  <2>1. f = [j \in 0..0 |-> IF j = 0 THEN ReadNone ELSE ReadEach(file, f[j-1])]
    OBVIOUS
  <2> QED
    BY <2>1
<1>2. ASSUME NEW k \in Nat, P(k)
      PROVE  P(k + 1)
  <2>1. PICK f : f = [j \in 0..k |-> IF j = 0 THEN ReadNone ELSE ReadEach(file, f[j-1])]
    BY <1>2
  <2> DEFINE e(j) == IF j = 0 THEN ReadNone ELSE ReadEach(file, f[j-1])
             g == [j \in 0..(k+1) |-> e(j)]
  <2>2. ASSUME NEW j \in 0..(k+1), j # 0
        PROVE  g[j-1] = f[j-1]
    <3>1. j - 1 \in 0..k /\ j - 1 \in 0..(k+1)
      BY <2>2
    <3>2. f[j-1] = e(j-1)
      BY <2>1, <3>1
    <3>3. g[j-1] = e(j-1)
      BY <3>1
    <3> QED
      BY <3>2, <3>3
  <2> DEFINE h == [j \in 0..(k+1) |-> IF j = 0 THEN ReadNone ELSE ReadEach(file, g[j-1])]
  <2>3. \A j \in 0..(k+1) : g[j] = h[j]
    BY <2>2
  <2>4. g = h
    BY <2>3
  <2> QED
    BY <2>4
<1>3. 0 \in G /\ \A k \in Nat : k \in G => k + 1 \in G
  <2> HIDE DEF P
  <2> QED
    BY <1>1, <1>2
<1>4. Nat \subseteq G
  <2> HIDE DEF G
  <2> QED
    BY <1>3, NatBySteps
<1> QED
  BY <1>4

LEMMA ReadsAre ==
  ASSUME NEW file, FileType(file)
  PROVE  \A m \in 1..Len(file.fields) :
           ReadValues(file)[m] = ReadEach(file, ReadValues(file)[m - 1])
<1>1. PICK l : l = Len(file.fields) /\ l \in Nat
  BY AtType
<1> DEFINE f == CHOOSE f : f = [j \in 0..l |-> IF j = 0 THEN ReadNone ELSE ReadEach(file, f[j-1])]
<1>2. f = [j \in 0..l |-> IF j = 0 THEN ReadNone ELSE ReadEach(file, f[j-1])]
  BY <1>1, ReadsDefined
<1>3. ReadValues(file) = f
  BY <1>1 DEF ReadValues
<1> HIDE DEF f
<1>4. \A m \in 1..l : f[m] = ReadEach(file, f[m - 1])
  BY <1>1, <1>2
<1> QED
  BY <1>1, <1>3, <1>4

\* Scalars, by their types.
Numeric == {"U8", "I8", "U16", "I16", "U32", "I32", "F32", "U64", "I64", "F64"}

LEMMA ScalarIs ==
  ASSUME NEW x \in Scalars
  PROVE  /\ x = Scalar(x.type, x.v) /\ x.type \in ValueTypes \ {"Array"}
         /\ \/ x.type = "String" /\ x.v \in STRING /\ Len(x.v) \in Nat
            \/ x.type = "Bool" /\ x.v \in BOOLEAN
            \/ x.type \in Numeric /\ x.v \in Int
<1>1. ValueTypes = Numeric \cup {"Bool", "String", "Array"}
  BY DEF ValueTypes, ValueTypeRaw, Numeric
<1>2. CASE x \in [type : {"U8", "U16", "U32", "U64"}, v : Nat]
  BY <1>1, <1>2 DEF Scalar, Numeric
<1>3. CASE x \in [type : {"I8", "I16", "I32", "I64", "F32", "F64"}, v : Int]
  BY <1>1, <1>3 DEF Scalar, Numeric
<1>4. CASE x \in [type : {"Bool"}, v : BOOLEAN]
  BY <1>1, <1>4 DEF Scalar
<1>5. CASE x \in [type : {"String"}, v : Str]
  BY <1>1, <1>5 DEF Scalar, Str
<1> QED
  BY <1>2, <1>3, <1>4, <1>5 DEF Scalars

LEMMA ScalarWritten ==
  ASSUME NEW x \in Scalars
  PROVE  WriteScalar(x) = IF x.type = "String" THEN WriteStr(x.v)
                          ELSE IF x.type = "Bool" THEN <<Field(1, IF x.v THEN 1 ELSE 0)>>
                          ELSE <<Field(Width[x.type], x.v)>>
<1>1. CASE x.type = "String"
  BY <1>1 DEF WriteScalar
<1>2. CASE x.type = "Bool"
  BY <1>2 DEF WriteScalar
<1>3. CASE x.type # "String" /\ x.type # "Bool"
  BY <1>3 DEF WriteScalar
<1> QED
  BY <1>1, <1>2, <1>3

LEMMA OneCell ==
  ASSUME NEW c \in Cell
  PROVE  <<c>> \in Seq(Cell) /\ Len(<<c>>) = 1
OBVIOUS

LEMMA StrCells ==
  ASSUME NEW s \in STRING, Len(s) \in Nat
  PROVE  WriteStr(s) \in Seq(Cell) /\ Len(WriteStr(s)) = 1
<1>1. Field(8 + Len(s), s) \in Cell
  BY DEF Field, Cell
<1> QED
  BY <1>1, OneCell DEF WriteStr

LEMMA WidthType ==
  ASSUME NEW t \in Numeric
  PROVE  Width[t] \in Nat
BY DEF Numeric, Width

LEMMA ScalarCells ==
  ASSUME NEW x \in Scalars
  PROVE  WriteScalar(x) \in Seq(Cell) /\ Len(WriteScalar(x)) = 1
<1>1. CASE x.type = "String"
  BY <1>1, ScalarIs, ScalarWritten, StrCells DEF Numeric
<1>2. CASE x.type = "Bool"
  <2>1. Field(1, IF x.v THEN 1 ELSE 0) \in Cell
    BY DEF Field, Cell
  <2> QED
    BY <1>2, <2>1, ScalarWritten, OneCell
<1>3. CASE x.type # "String" /\ x.type # "Bool"
  <2>1. x.v \in Int /\ Width[x.type] \in Nat
    BY <1>3, ScalarIs, WidthType
  <2>2. Field(Width[x.type], x.v) \in Cell
    BY <2>1 DEF Field, Cell
  <2> QED
    BY <1>3, <2>2, ScalarWritten, OneCell
<1> QED
  BY <1>1, <1>2, <1>3

LEMMA ReadScalarGives ==
  ASSUME NEW file, FileType(file), NEW k, NEW x \in Scalars, Occurs(file, k, WriteScalar(x)),
         NEW y, NEW good, NEW r, Gives(file, k, y, good, r)
  PROVE  Gives(file, k + 1, x, good, ReadScalar(file, r, x.type))
<1>1. x = Scalar(x.type, x.v)
  BY ScalarIs
<1>2. CASE x.type = "String"
  <2>1. PICK q : q = ReadStr(file, r)
    OBVIOUS
  <2>2. Gives(file, k + 1, x.v, good, q)
    BY <1>2, <2>1, ScalarWritten, ReadStrGives
  <2>3. ReadScalar(file, r, x.type) = Yield(q, Scalar(x.type, q.v))
    BY <1>2, <2>1 DEF ReadScalar
  <2>4. q.err = "Ok" => Scalar(x.type, q.v) = x
    <3>1. q.err = "Ok" => q = Stands(file, k + 1, x.v)
      BY <2>2, Given
    <3> QED
      BY <1>1, <3>1 DEF Stands
  <2> QED
    BY <2>2, <2>3, <2>4, YieldGives
<1>3. CASE x.type = "Bool"
  <2>1. PICK q : q = Read(file, r, Width["Bool"])
    OBVIOUS
  <2>2. Gives(file, k + 1, IF x.v THEN 1 ELSE 0, good, q)
    <3>1. Width["Bool"] = 1
      BY DEF Width
    <3>2. WriteScalar(x) = <<Field(1, IF x.v THEN 1 ELSE 0)>>
      BY <1>3, ScalarWritten
    <3> QED
      BY <2>1, <3>1, <3>2, ReadCell
  <2>3. ReadScalar(file, r, x.type) = Yield(q, Scalar(x.type, q.v # 0))
    BY <1>3, <2>1 DEF ReadScalar
  <2>4. q.err = "Ok" => Scalar(x.type, q.v # 0) = x
    <3>1. q.err = "Ok" => q = Stands(file, k + 1, IF x.v THEN 1 ELSE 0)
      BY <2>2, Given
    <3>2. q.err = "Ok" => q.v = IF x.v THEN 1 ELSE 0
      BY <3>1 DEF Stands
    <3>3. x.v \in BOOLEAN
      BY <1>3, ScalarIs DEF Numeric
    <3>4. q.err = "Ok" => (q.v # 0) = x.v
      BY <3>2, <3>3
    <3> QED
      BY <1>1, <3>4
  <2> QED
    BY <2>2, <2>3, <2>4, YieldGives
<1>4. CASE x.type # "String" /\ x.type # "Bool"
  <2>1. PICK q : q = Read(file, r, Width[x.type])
    OBVIOUS
  <2>2. Gives(file, k + 1, x.v, good, q)
    BY <1>4, <2>1, ScalarWritten, ReadCell
  <2>3. ReadScalar(file, r, x.type) = Yield(q, Scalar(x.type, q.v))
    BY <1>4, <2>1 DEF ReadScalar
  <2>4. q.err = "Ok" => Scalar(x.type, q.v) = x
    <3>1. q.err = "Ok" => q = Stands(file, k + 1, x.v)
      BY <2>2, Given
    <3> QED
      BY <1>1, <3>1 DEF Stands
  <2> QED
    BY <2>2, <2>3, <2>4, YieldGives
<1> QED
  BY <1>2, <1>3, <1>4

\* The cells of each item of an array.
Pieces(x, write) == [i \in DOMAIN x.items |-> write[x.items[i]]]

LEMMA ArrayIs ==
  ASSUME NEW values, NEW x \in Arrays(values)
  PROVE  /\ x = ArrayOf(x.elem, x.items) /\ x.type = "Array" /\ x.elem \in ValueTypes
         /\ x.items \in Seq(values)
         /\ \A i \in 1..Len(x.items) : x.items[i] \in values /\ x.items[i].type = x.elem
<1>1. x \in [type : {"Array"}, elem : ValueTypes, items : Seq(values)]
  BY DEF Arrays
<1>2. \A i \in DOMAIN x.items : x.items[i].type = x.elem
  BY DEF Arrays
<1>3. x = ArrayOf(x.elem, x.items)
  BY <1>1 DEF ArrayOf
<1>4. x.items \in Seq(values) /\ DOMAIN x.items = 1..Len(x.items)
  BY <1>1, LenProperties
<1> QED
  BY <1>1, <1>2, <1>3, <1>4, ElementOfSeq

LEMMA PiecesAre ==
  ASSUME NEW values, NEW x \in Arrays(values), NEW write,
         \A y \in values : write[y] \in Seq(Cell)
  PROVE  /\ Pieces(x, write) \in Seq(Seq(Cell)) /\ Len(Pieces(x, write)) = Len(x.items)
         /\ \A i \in 1..Len(x.items) : Pieces(x, write)[i] = write[x.items[i]]
<1>1. PICK n : n = Len(x.items) /\ n \in Nat /\ DOMAIN x.items = 1..n
  BY ArrayIs, LenProperties
<1>2. PICK f : f = Pieces(x, write)
  OBVIOUS
<1>3. f = [i \in 1..n |-> write[x.items[i]]]
  BY <1>1, <1>2 DEF Pieces
<1>4. \A i \in 1..n : f[i] = write[x.items[i]]
  BY <1>3
<1>5. f = [i \in 1..n |-> f[i]]
  BY <1>3
<1>6. \A i \in 1..n : f[i] \in Seq(Cell)
  BY <1>1, <1>4, ArrayIs
<1>7. f \in Seq(Seq(Cell)) /\ Len(f) = n
  <2>1. PICK T : T = Seq(Cell)
    OBVIOUS
  <2> QED
    BY <1>1, <1>5, <1>6, <2>1, Listed
<1> QED
  BY <1>1, <1>2, <1>4, <1>7

LEMMA TwoCells ==
  ASSUME NEW a \in Cell, NEW b \in Cell
  PROVE  <<a, b>> = <<a>> \o <<b>> /\ <<a, b>> \in Seq(Cell) /\ Len(<<a, b>>) = 2
<1>1. PICK s, t : s = <<a>> /\ t = <<b>>
  OBVIOUS
<1>2. s \in Seq(Cell) /\ t \in Seq(Cell) /\ Len(s) = 1 /\ Len(t) = 1 /\ s[1] = a /\ t[1] = b
  BY <1>1
<1>3. PICK u : u = s \o t
  OBVIOUS
<1>4. u \in Seq(Cell) /\ Len(u) = 2 /\ u[1] = a /\ u[2] = b
  <2>1. /\ u \in Seq(Cell) /\ Len(u) = Len(s) + Len(t)
        /\ \A i \in 1..(Len(s) + Len(t)) : u[i] = IF i <= Len(s) THEN s[i] ELSE t[i - Len(s)]
    BY <1>2, <1>3, ConcatProperties
  <2> QED
    BY <1>2, <2>1
<1>5. PICK v : v = <<a, b>>
  OBVIOUS
<1>6. v \in Seq(Cell) /\ Len(v) = 2 /\ v[1] = a /\ v[2] = b
  BY <1>5
<1>7. \A i \in 1..Len(u) : u[i] = v[i]
  BY <1>4, <1>6
<1>8. u = v
  BY <1>4, <1>6, <1>7, SeqEqual
<1> QED
  BY <1>1, <1>3, <1>5, <1>6, <1>8

\* The type and the number of the items.
ArrayHead(x) == <<Field(4, ValueTypeRaw[x.elem]), Field(8, Len(x.items))>>

LEMMA ArrayHeadIs ==
  ASSUME NEW values, NEW x \in Arrays(values)
  PROVE  /\ ArrayHead(x) = <<Field(4, ValueTypeRaw[x.elem])>> \o <<Field(8, Len(x.items))>>
         /\ <<Field(4, ValueTypeRaw[x.elem])>> \in Seq(Cell)
         /\ <<Field(8, Len(x.items))>> \in Seq(Cell)
         /\ ArrayHead(x) \in Seq(Cell) /\ Len(ArrayHead(x)) = 2
<1>1. Len(x.items) \in Nat /\ ValueTypeRaw[x.elem] \in 0..12
  BY ArrayIs, LenProperties, RawTypes
<1>2. PICK a, b : a = Field(4, ValueTypeRaw[x.elem]) /\ b = Field(8, Len(x.items))
  OBVIOUS
<1>3. a \in Cell /\ b \in Cell
  BY <1>1, <1>2 DEF Field, Cell
<1>4. <<a, b>> = <<a>> \o <<b>> /\ <<a, b>> \in Seq(Cell) /\ Len(<<a, b>>) = 2
  BY <1>3, TwoCells
<1>5. <<a>> \in Seq(Cell) /\ <<b>> \in Seq(Cell)
  BY <1>3, OneCell
<1> QED
  BY <1>2, <1>4, <1>5 DEF ArrayHead

LEMMA ArrayWritten ==
  ASSUME NEW x, NEW write
  PROVE  WriteArray(x, write) = ArrayHead(x) \o FlattenSeq(Pieces(x, write))
BY DEF WriteArray, ArrayHead, Pieces

\* What is written for a value.
LEMMA ValueCells ==
  \A n \in 0..Nesting : \A x \in Values[n] :
    /\ x.type \in ValueTypes
    /\ WriteValue[n][x] \in Seq(Cell) /\ Len(WriteValue[n][x]) \in Nat \ {0}
<1> DEFINE P(n) == \A x \in Values[n] :
                     /\ x.type \in ValueTypes
                     /\ WriteValue[n][x] \in Seq(Cell) /\ Len(WriteValue[n][x]) \in Nat \ {0}
           G == {n \in Nat : n <= Nesting => P(n)}
<1>0. Nesting \in Nat
  BY NestingAssumption
<1>1. P(0)
  BY ValuesAre
<1>2. ASSUME NEW n \in Nat, n + 1 <= Nesting, P(n)
      PROVE  P(n + 1)
  <2>1. PICK m : m = n + 1 /\ m \in 1..Nesting /\ m - 1 = n
    BY <1>0, <1>2
  <2> SUFFICES ASSUME NEW x \in Values[m]
               PROVE  /\ x.type \in ValueTypes
                      /\ WriteValue[m][x] \in Seq(Cell) /\ Len(WriteValue[m][x]) \in Nat \ {0}
    BY <2>1
  <2>2. x \in Scalars \/ x \in Arrays(Values[n])
    BY <2>1, ValuesAre
  <2>3. CASE x \in Scalars
    <3>1. x.type \in ValueTypes \ {"Array"}
      BY <2>3, ScalarIs
    <3>2. WriteValue[m][x] = WriteScalar(x)
      BY <2>1, <3>1, WriteIs
    <3>3. WriteScalar(x) \in Seq(Cell) /\ Len(WriteScalar(x)) = 1
      BY <2>3, ScalarCells
    <3>4. 1 \in Nat \ {0}
      OBVIOUS
    <3> QED
      BY <3>1, <3>2, <3>3, <3>4
  <2>4. CASE x \in Arrays(Values[n])
    <3>1. PICK p : p = Pieces(x, WriteValue[n])
      OBVIOUS
    <3>2. x.type = "Array" /\ x.type \in ValueTypes
      BY <2>4, ArrayIs DEF ValueTypes, ValueTypeRaw
    <3>3. WriteValue[m][x] = ArrayHead(x) \o FlattenSeq(p)
      BY <2>1, <3>1, <3>2, WriteIs, ArrayWritten
    <3>4. FlattenSeq(p) \in Seq(Cell) /\ Len(FlattenSeq(p)) \in Nat
      <4>1. p \in Seq(Seq(Cell))
        BY <1>2, <2>4, <3>1, PiecesAre
      <4> QED
        BY <4>1, FlattenType, LenProperties
    <3>5. ArrayHead(x) \in Seq(Cell) /\ Len(ArrayHead(x)) = 2
      BY <2>4, ArrayHeadIs
    <3>6. /\ ArrayHead(x) \o FlattenSeq(p) \in Seq(Cell)
          /\ Len(ArrayHead(x) \o FlattenSeq(p)) = Len(ArrayHead(x)) + Len(FlattenSeq(p))
      BY <3>4, <3>5, ConcatProperties
    <3>7. Len(ArrayHead(x)) + Len(FlattenSeq(p)) \in Nat \ {0}
      BY <3>4, <3>5
    <3> QED
      BY <3>2, <3>3, <3>6, <3>7
  <2> QED
    BY <2>2, <2>3, <2>4
<1>3. Nat \subseteq G
  <2> HIDE DEF P
  <2>1. 0 \in G /\ \A n \in Nat : n \in G => n + 1 \in G
    BY <1>0, <1>1, <1>2
  <2> HIDE DEF G
  <2> QED
    BY <2>1, NatBySteps
<1> QED
  BY <1>0, <1>3

\* Where the cells of a value are, it is read, if each of them counts for one.
ReadsBack(file, n) ==
  \A x \in Values[n] : \A m \in 0..Len(file.fields) : \A k \in Nat :
    Occurs(file, k, WriteValue[n][x]) /\ Len(WriteValue[n][x]) <= m /\ Pos(file, k) <= file.len
      => Gives(file, k + Len(WriteValue[n][x]), x, TRUE,
               ReadValues(file)[m][x.type][Place(file, k)])

LEMMA PlaceType ==
  ASSUME NEW file, FileType(file), NEW k \in 1..(Len(file.fields) + 1)
  PROVE  Place(file, k) \in Cursor
<1>1. Pos(file, k) \in Nat /\ k \in Nat
  BY AtType
<1> QED
  BY <1>1 DEF Place, Cursor

\* Only what is good counts.
LEMMA GivesSame ==
  ASSUME NEW file, NEW k, NEW x, NEW good, NEW same, good <=> same, NEW r,
         Gives(file, k, x, good, r)
  PROVE  Gives(file, k, x, same, r)
BY Zenon DEF Gives

LEMMA ArrayReadsBack ==
  ASSUME NEW file, FileType(file), NEW n \in 1..Nesting, ReadsBack(file, n - 1),
         NEW x \in Arrays(Values[n - 1]), NEW m \in 1..Len(file.fields), NEW k \in Nat,
         Occurs(file, k, WriteArray(x, WriteValue[n - 1])), NEW values,
         values = ReadValues(file)[m - 1],
         Len(WriteArray(x, WriteValue[n - 1])) <= m, Pos(file, k) <= file.len
  PROVE  Gives(file, k + Len(WriteArray(x, WriteValue[n - 1])), x, TRUE,
               ReadArray(file, Place(file, k), values))
<1>1. PICK write, p, s, a, b, len : /\ write = WriteValue[n - 1] /\ p = Pieces(x, write)
                                    /\ s = FlattenSeq(p)
                                    /\ a = <<Field(4, ValueTypeRaw[x.elem])>>
                                    /\ b = <<Field(8, Len(x.items))>>
                                    /\ len = Len(file.fields)
  OBVIOUS
<1>2. len \in Nat /\ n - 1 \in 0..Nesting
  BY <1>1, AtType, NestingAssumption
<1>3. \A y \in Values[n - 1] : write[y] \in Seq(Cell) /\ y.type \in ValueTypes
  BY <1>1, <1>2, ValueCells
<1>4. /\ p \in Seq(Seq(Cell)) /\ Len(p) = Len(x.items)
      /\ \A i \in 1..Len(x.items) : p[i] = write[x.items[i]]
  BY <1>1, <1>3, PiecesAre
<1>5. s \in Seq(Cell) /\ Len(s) \in Nat
  BY <1>1, <1>4, FlattenType, LenProperties
<1>6. /\ a \in Seq(Cell) /\ b \in Seq(Cell) /\ Len(a) = 1 /\ Len(b) = 1
      /\ a \o b \in Seq(Cell) /\ Len(a \o b) = 2
      /\ WriteArray(x, write) = (a \o b) \o s
      /\ Len((a \o b) \o s) = 2 + Len(s)
  <2>1. /\ ArrayHead(x) = a \o b /\ a \in Seq(Cell) /\ b \in Seq(Cell)
        /\ a \o b \in Seq(Cell) /\ Len(a \o b) = 2
    BY <1>1, ArrayHeadIs
  <2>2. Len((a \o b) \o s) = Len(a \o b) + Len(s)
    BY <1>5, <2>1, ConcatProperties
  <2>3. Len(a) = 1 /\ Len(b) = 1
    BY <1>1
  <2> QED
    BY <1>1, <2>1, <2>2, <2>3, ArrayWritten
<1>7. Occurs(file, k, a) /\ Occurs(file, k + 1, b) /\ Occurs(file, k + 2, s)
  <2>1. Occurs(file, k, (a \o b) \o s)
    BY <1>1, <1>6
  <2>2. Occurs(file, k, a \o b) /\ Occurs(file, k + Len(a \o b), s)
    BY <1>5, <1>6, <2>1, OccursPart
  <2>3. Occurs(file, k, a) /\ Occurs(file, k + Len(a), b)
    BY <1>6, <2>2, OccursPart
  <2> QED
    BY <1>6, <2>2, <2>3
<1>8. PICK elem, count : elem = ReadType(file, From(Place(file, k))) /\ count = Read(file, elem, 8)
  OBVIOUS
<1>9. Gives(file, k + 1, x.elem, TRUE, elem)
  <2>1. Gives(file, k, 0, TRUE, From(Place(file, k)))
    BY FromGives
  <2>2. x.elem \in ValueTypes
    BY ArrayIs
  <2> QED
    BY <1>1, <1>7, <1>8, <2>1, <2>2, ReadTypeGives
<1>10. Gives(file, k + 2, Len(x.items), TRUE, count)
  <2>1. Gives(file, (k + 1) + 1, Len(x.items), TRUE, count)
    BY <1>1, <1>7, <1>8, <1>9, ReadCell
  <2>2. (k + 1) + 1 = k + 2
    OBVIOUS
  <2> QED
    BY <2>1, <2>2
<1>11. PICK one, items : /\ one = values[elem.v]
                         /\ items = ReadMany(one, count, count.v)
  OBVIOUS
<1>12. ReadArray(file, Place(file, k), values) = Yield(items, ArrayOf(elem.v, items.v))
  BY <1>8, <1>11 DEF ReadArray
<1>13. PICK e : PartEnds(e, file, k + 2, p)
  BY <1>1, <1>4, <1>7, PartsOccur
<1>14. PICK h : h = Len(x.items) /\ h \in Nat /\ h = Len(p)
  BY <1>4, ArrayIs, LenProperties
<1>15. /\ e[0] = k + 2 /\ e[h] = k + 2 + Len(s)
       /\ \A i \in 0..h : e[i] \in 1..(len + 1)
       /\ \A i \in 1..h : /\ e[i - 1] <= e[i] /\ e[i] = e[i - 1] + Len(p[i])
                          /\ Len(p[i]) <= Len(s) /\ Occurs(file, e[i - 1], p[i])
  BY <1>1, <1>13, <1>14 DEF PartEnds
<1>16. elem.err # "Ok" => count.err # "Ok"
  BY <1>8 DEF Read
<1>17. k + 2 + Len(s) = k + Len(WriteArray(x, write))
  BY <1>5, <1>6
<1>18. CASE count.err # "Ok"
  <2>1. items = count
    BY <1>11, <1>18 DEF ReadMany
  <2>2. ReadArray(file, Place(file, k), values) = count
    BY <1>12, <1>18, <2>1 DEF Yield
  <2>3. ~(Pos(file, k + 2) <= file.len)
    BY <1>10, <1>18, NotGiven
  <2>4. Pos(file, k + 2) <= Pos(file, k + 2 + Len(s)) /\ Pos(file, k + 2) \in Nat
        /\ Pos(file, k + 2 + Len(s)) \in Nat /\ file.len \in Nat
    <3>1. k + 2 \in 1..(len + 1) /\ k + 2 + Len(s) \in 1..(len + 1) /\ k + 2 <= k + 2 + Len(s)
      <4>1. 0 \in 0..h /\ h \in 0..h
        BY <1>14
      <4> QED
        BY <1>5, <1>15, <4>1
    <3> QED
      BY <1>1, <3>1, AtType, AtGrows DEF FileType
  <2>5. ~(Pos(file, k + 2 + Len(s)) <= file.len)
    BY <2>3, <2>4
  <2> QED
    BY <1>1, <1>17, <1>18, <2>2, <2>5, Zenon DEF Gives
<1>19. CASE count.err = "Ok"
  <2>1. elem.v = x.elem /\ count.v = h
    <3>1. elem = Stands(file, k + 1, x.elem)
      BY <1>9, <1>16, <1>19, Given
    <3>2. count = Stands(file, k + 2, Len(x.items))
      BY <1>10, <1>19, Given
    <3> QED
      BY <1>14, <3>1, <3>2 DEF Stands
  <2>2. ASSUME NEW i \in 1..h, Pos(file, e[i - 1]) <= file.len
        PROVE  Gives(file, e[i], x.items[i], i \in Nat, one[Place(file, e[i - 1])])
    <3>1. PICK q, y : q = e[i - 1] /\ y = x.items[i]
      OBVIOUS
    <3>2. y \in Values[n - 1] /\ y.type = x.elem /\ p[i] = write[y]
      BY <1>4, <1>14, <2>2, <3>1, ArrayIs
    <3>3. q \in 1..(len + 1) /\ q \in Nat /\ e[i] = q + Len(write[y])
      <4>1. i - 1 \in 0..h
        BY <1>14
      <4>2. q \in 1..(len + 1)
        BY <1>15, <3>1, <4>1
      <4> QED
        BY <1>2, <1>15, <3>1, <3>2, <4>2
    <3>4. one[Place(file, q)] = values[y.type][Place(file, q)]
      BY <1>1, <1>11, <2>1, <3>2, <3>3, PlaceType
    <3>5. m - 1 \in 0..Len(file.fields) /\ Len(write[y]) <= m - 1
      <4>1. Len(p[i]) <= Len(s) /\ Len(p[i]) \in Nat
        <5>1. PICK T : T = Seq(Cell)
          OBVIOUS
        <5>2. p[i] \in T
          BY <1>4, <1>14, <5>1, ElementOfSeq
        <5> QED
          BY <1>15, <5>1, <5>2, LenProperties
      <4>2. 2 + Len(s) <= m
        BY <1>1, <1>6
      <4> QED
        BY <1>1, <1>2, <1>5, <3>2, <4>1, <4>2
    <3>6. Occurs(file, q, write[y]) /\ Pos(file, q) <= file.len
      BY <1>15, <2>2, <3>1, <3>2
    <3>7. Gives(file, q + Len(write[y]), y, TRUE, values[y.type][Place(file, q)])
      BY <1>1, <3>2, <3>3, <3>5, <3>6 DEF ReadsBack
    <3>8. TRUE <=> i \in Nat
      OBVIOUS
    <3>9. Gives(file, e[i], y, TRUE, one[Place(file, q)])
      BY <3>3, <3>4, <3>7
    <3>10. Gives(file, e[i], y, i \in Nat, one[Place(file, q)])
      BY <3>8, <3>9, GivesSame
    <3> QED
      BY <3>1, <3>10
  <2>3. Gives(file, e[h], x.items, TRUE /\ \A i \in 1..h : i \in Nat, items)
    <3>1. x.items \in Seq(Values[n - 1]) /\ h = Len(x.items)
      BY <1>14, ArrayIs
    <3>2. \A i \in 0..h : e[i] \in 1..(Len(file.fields) + 1)
      BY <1>1, <1>15
    <3>3. \A i \in 1..h : e[i - 1] <= e[i]
      BY <1>15
    <3>4. Gives(file, e[0], h, TRUE, count)
      BY <1>10, <1>14, <1>15
    <3>5. count.err = "Ok" => count.v = h
      BY <2>1
    <3> QED
      BY <1>11, <2>2, <3>1, <3>2, <3>3, <3>4, <3>5, ReadManyGives
  <2>4. Gives(file, e[h], x.items, TRUE, items)
    <3>1. (TRUE /\ \A i \in 1..h : i \in Nat) <=> TRUE
      BY <1>14
    <3> QED
      BY <2>3, <3>1, GivesSame
  <2>5. items.err = "Ok" => ArrayOf(elem.v, items.v) = x
    <3>1. items.err = "Ok" => items = Stands(file, e[h], x.items)
      BY <2>4, Given
    <3>2. items.err = "Ok" => items.v = x.items
      BY <3>1 DEF Stands
    <3>3. x = ArrayOf(x.elem, x.items)
      BY ArrayIs
    <3> QED
      BY <2>1, <3>2, <3>3
  <2>6. Gives(file, e[h], x, TRUE, Yield(items, ArrayOf(elem.v, items.v)))
    BY <2>4, <2>5, YieldGives
  <2> QED
    BY <1>1, <1>12, <1>15, <1>17, <2>6
<1> QED
  BY <1>18, <1>19

LEMMA ValuesReadBack ==
  ASSUME NEW file, FileType(file)
  PROVE  \A n \in 0..Nesting : ReadsBack(file, n)
<1> DEFINE G == {n \in Nat : n <= Nesting => ReadsBack(file, n)}
<1>0. Nesting \in Nat /\ Len(file.fields) \in Nat
  BY NestingAssumption, AtType
<1>1. ReadsBack(file, 0)
  BY ValuesAre DEF ReadsBack
<1>2. ASSUME NEW n \in Nat, n + 1 <= Nesting, ReadsBack(file, n)
      PROVE  ReadsBack(file, n + 1)
  <2>1. PICK d : d = n + 1 /\ d \in 1..Nesting /\ d - 1 = n /\ d \in 0..Nesting
    BY <1>0, <1>2
  <2> SUFFICES ASSUME NEW x \in Values[d], NEW m \in 0..Len(file.fields), NEW k \in Nat,
                      Occurs(file, k, WriteValue[d][x]), Len(WriteValue[d][x]) <= m,
                      Pos(file, k) <= file.len
               PROVE  Gives(file, k + Len(WriteValue[d][x]), x, TRUE,
                            ReadValues(file)[m][x.type][Place(file, k)])
    BY <2>1 DEF ReadsBack
  <2>2. x \in Scalars \/ x \in Arrays(Values[n])
    BY <2>1, ValuesAre
  <2>3. x.type \in ValueTypes /\ Len(WriteValue[d][x]) \in Nat \ {0}
    BY <2>1, ValueCells
  <2>4. m \in 1..Len(file.fields)
    BY <1>0, <2>3
  <2>5. k \in 1..(Len(file.fields) + 1)
    BY <1>0, <2>3 DEF Occurs
  <2>6. PICK values : values = ReadValues(file)[m - 1]
    OBVIOUS
  <2>7. ReadValues(file)[m][x.type][Place(file, k)]
          = IF x.type = "Array" THEN ReadArray(file, Place(file, k), values)
            ELSE ReadScalar(file, From(Place(file, k)), x.type)
    <3>1. Place(file, k) \in Cursor
      BY <2>5, PlaceType
    <3>2. ReadValues(file)[m] = ReadEach(file, values)
      BY <2>4, <2>6, ReadsAre
    <3> QED
      BY <2>3, <3>1, <3>2 DEF ReadEach
  <2>8. CASE x \in Scalars
    <3>1. x.type # "Array" /\ WriteValue[d][x] = WriteScalar(x)
      BY <2>1, <2>8, ScalarIs, WriteIs
    <3>2. Len(WriteScalar(x)) = 1
      BY <2>8, ScalarCells
    <3>3. Gives(file, k, 0, TRUE, From(Place(file, k)))
      BY FromGives
    <3>4. Gives(file, k + 1, x, TRUE, ReadScalar(file, From(Place(file, k)), x.type))
      BY <2>8, <3>1, <3>3, ReadScalarGives
    <3> QED
      BY <2>7, <3>1, <3>2, <3>4
  <2>9. CASE x \in Arrays(Values[n])
    <3>1. x.type = "Array" /\ WriteValue[d][x] = WriteArray(x, WriteValue[d - 1])
      BY <2>1, <2>9, ArrayIs, WriteIs
    <3>2. x \in Arrays(Values[d - 1]) /\ ReadsBack(file, d - 1)
      BY <1>2, <2>1, <2>9
    <3>3. Gives(file, k + Len(WriteArray(x, WriteValue[d - 1])), x, TRUE,
                ReadArray(file, Place(file, k), values))
      BY <2>1, <2>4, <2>6, <3>1, <3>2, ArrayReadsBack
    <3> QED
      BY <2>7, <3>1, <3>3
  <2> QED
    BY <2>2, <2>8, <2>9
<1>3. 0 \in G /\ \A n \in Nat : n \in G => n + 1 \in G
  BY <1>0, <1>1, <1>2
<1>4. Nat \subseteq G
  <2> HIDE DEF G
  <2> QED
    BY <1>3, NatBySteps
<1> QED
  BY <1>0, <1>4

-----------------------------------------------------------------------------
(* Entries of the metadata.                                                *)

\* An entry of the metadata.
EntryType == [key : Str, value : Values[Nesting]]

\* The alignment is checked as it is read.
GoodEntry(kv) == kv.key = "general.alignment" => IsAlignment(kv.value)

LEMMA EntryCells ==
  ASSUME NEW kv \in EntryType
  PROVE  /\ WriteStr(kv.key) \in Seq(Cell) /\ Len(WriteStr(kv.key)) = 1
         /\ kv.value.type \in ValueTypes
         /\ <<Field(4, ValueTypeRaw[kv.value.type])>> \in Seq(Cell)
         /\ WriteValue[Nesting][kv.value] \in Seq(Cell)
         /\ Len(WriteValue[Nesting][kv.value]) \in Nat
         /\ WriteStr(kv.key) \o <<Field(4, ValueTypeRaw[kv.value.type])>> \in Seq(Cell)
         /\ Len(WriteStr(kv.key) \o <<Field(4, ValueTypeRaw[kv.value.type])>>) = 2
         /\ WriteEntry(kv) \in Seq(Cell)
         /\ Len(WriteEntry(kv)) = 2 + Len(WriteValue[Nesting][kv.value])
<1>1. kv.key \in STRING /\ Len(kv.key) \in Nat /\ kv.value \in Values[Nesting]
  BY DEF EntryType, Str
<1>2. PICK a, b, v : /\ a = WriteStr(kv.key) /\ b = <<Field(4, ValueTypeRaw[kv.value.type])>>
                     /\ v = WriteValue[Nesting][kv.value]
  OBVIOUS
<1>3. a \in Seq(Cell) /\ Len(a) = 1
  BY <1>1, <1>2, StrCells
<1>4. kv.value.type \in ValueTypes /\ v \in Seq(Cell) /\ Len(v) \in Nat
  <2>1. Nesting \in 0..Nesting
    BY NestingAssumption
  <2> QED
    BY <1>1, <1>2, <2>1, ValueCells
<1>5. b \in Seq(Cell) /\ Len(b) = 1
  <2>1. Field(4, ValueTypeRaw[kv.value.type]) \in Cell
    BY <1>4, RawTypes DEF Field, Cell
  <2> QED
    BY <1>2, <2>1, OneCell
<1>6. a \o b \in Seq(Cell) /\ Len(a \o b) = 2
  <2>1. a \o b \in Seq(Cell) /\ Len(a \o b) = Len(a) + Len(b)
    BY <1>3, <1>5, ConcatProperties
  <2> QED
    BY <1>3, <1>5, <2>1
<1>7. (a \o b) \o v \in Seq(Cell) /\ Len((a \o b) \o v) = 2 + Len(v)
  <2>1. (a \o b) \o v \in Seq(Cell) /\ Len((a \o b) \o v) = Len(a \o b) + Len(v)
    BY <1>4, <1>6, ConcatProperties
  <2> QED
    BY <1>6, <2>1
<1> QED
  BY <1>2, <1>3, <1>4, <1>5, <1>6, <1>7 DEF WriteEntry

LEMMA EntryReadsBack ==
  ASSUME NEW file, FileType(file), NEW kv \in EntryType, NEW k,
         Occurs(file, k, WriteEntry(kv)), Pos(file, k) <= file.len
  PROVE  Gives(file, k + Len(WriteEntry(kv)), kv, GoodEntry(kv), ReadEntry(file, From(Place(file, k))))
<1>1. PICK a, b, v, l, m, d : /\ a = WriteStr(kv.key)
                              /\ b = <<Field(4, ValueTypeRaw[kv.value.type])>>
                              /\ v = WriteValue[Nesting][kv.value]
                              /\ l = Len(file.fields) /\ m = Len(v) /\ d = k + 2 + m
  OBVIOUS
<1>2. /\ a \in Seq(Cell) /\ b \in Seq(Cell) /\ v \in Seq(Cell) /\ a \o b \in Seq(Cell)
      /\ Len(a) = 1 /\ Len(a \o b) = 2 /\ m \in Nat
      /\ WriteEntry(kv) = (a \o b) \o v /\ Len(WriteEntry(kv)) = 2 + m
      /\ kv.value.type \in ValueTypes
  BY <1>1, EntryCells DEF WriteEntry
<1>3. /\ k \in Nat \ {0} /\ k \in Nat /\ l \in Nat /\ k + 2 \in Nat /\ k + 2 \in 1..(l + 1)
      /\ d \in 1..(l + 1) /\ k + 2 <= d /\ m \in 0..l /\ m <= l
      /\ k + Len(WriteEntry(kv)) = d /\ (k + 2) + m = d
  <2>1. k \in Nat \ {0} /\ k + Len(WriteEntry(kv)) <= l + 1
    BY <1>1 DEF Occurs
  <2>2. l \in Nat /\ m \in Nat /\ Len(WriteEntry(kv)) = 2 + m
    BY <1>1, <1>2, AtType
  <2>3. k + (2 + m) <= l + 1 /\ d = k + 2 + m
    BY <1>1, <2>1, <2>2
  <2>4. k + (2 + m) = d
    BY <2>1, <2>2, <2>3
  <2> QED
    BY <2>1, <2>2, <2>3, <2>4
<1>4. Occurs(file, k, a) /\ Occurs(file, k + 1, b) /\ Occurs(file, k + 2, v)
  <2>1. Occurs(file, k, (a \o b) \o v)
    BY <1>2
  <2>2. Occurs(file, k, a \o b) /\ Occurs(file, k + Len(a \o b), v)
    BY <1>2, <2>1, OccursPart
  <2>3. Occurs(file, k, a) /\ Occurs(file, k + Len(a), b)
    BY <1>2, <2>2, OccursPart
  <2> QED
    BY <1>2, <2>2, <2>3
<1>5. PICK key, type, x : /\ key = ReadStr(file, From(Place(file, k)))
                          /\ type = ReadType(file, key)
                          /\ x = IF type.err # "Ok" THEN type
                                 ELSE ReadValues(file)[l][type.v][After(type)]
  OBVIOUS
<1>6. ReadEntry(file, From(Place(file, k)))
        = IF x.err = "Ok" /\ key.v = "general.alignment" /\ ~IsAlignment(x.v)
          THEN Fail(IF x.v.type = "U32" THEN "BadAlignment" ELSE "TypeMismatch")
          ELSE Yield(x, [key |-> key.v, value |-> x.v])
  BY <1>1, <1>5 DEF ReadEntry, Checked
<1>7. Gives(file, k + 1, kv.key, TRUE, key)
  BY <1>1, <1>4, <1>5, FromGives, ReadStrGives
<1>8. Gives(file, k + 2, kv.value.type, TRUE, type)
  <2>1. Gives(file, (k + 1) + 1, kv.value.type, TRUE, type)
    BY <1>1, <1>2, <1>4, <1>5, <1>7, ReadTypeGives
  <2>2. (k + 1) + 1 = k + 2
    BY <1>3
  <2> QED
    BY <2>1, <2>2
<1>9. type.err = "Ok" => key.err = "Ok"
  BY <1>5 DEF ReadType, Read
<1>10. Pos(file, k + 2) <= Pos(file, d) /\ Pos(file, k + 2) \in Nat /\ Pos(file, d) \in Nat
       /\ file.len \in Nat
  BY <1>1, <1>3, AtType, AtGrows DEF FileType
<1>11. Gives(file, d, kv.value, TRUE, x)
  <2>1. CASE type.err # "Ok"
    <3>1. ~(Pos(file, k + 2) <= file.len)
      BY <1>8, <2>1, NotGiven
    <3>2. ~(Pos(file, d) <= file.len)
      BY <1>10, <3>1
    <3>3. x.err # "Ok"
      BY <1>5, <2>1
    <3> QED
      BY <3>2, <3>3, Zenon DEF Gives
  <2>2. CASE type.err = "Ok"
    <3>1. type = Stands(file, k + 2, kv.value.type) /\ Pos(file, k + 2) <= file.len
      BY <1>8, <2>2, Given
    <3>2. type.v = kv.value.type /\ After(type) = Place(file, k + 2)
      BY <3>1 DEF Stands, After, Place
    <3>3. x = ReadValues(file)[l][kv.value.type][Place(file, k + 2)]
      BY <1>5, <2>2, <3>2
    <3>4. ReadsBack(file, Nesting)
      <4>1. Nesting \in 0..Nesting
        BY NestingAssumption
      <4> QED
        BY <4>1, ValuesReadBack
    <3>5. l \in 0..Len(file.fields) /\ Len(v) <= l
      BY <1>1, <1>3
    <3>6. kv.value \in Values[Nesting]
      BY DEF EntryType
    <3>7. Gives(file, (k + 2) + Len(v), kv.value, TRUE, x)
      BY <1>1, <1>3, <1>4, <3>1, <3>3, <3>4, <3>5, <3>6 DEF ReadsBack
    <3> QED
      BY <1>1, <1>3, <3>7
  <2> QED
    BY <2>1, <2>2
<1>12. k + Len(WriteEntry(kv)) = d
  BY <1>3
<1>13. PICK r : r = ReadEntry(file, From(Place(file, k)))
  OBVIOUS
<1>14. CASE x.err # "Ok"
  <2>1. r = x
    BY <1>6, <1>13, <1>14 DEF Yield
  <2>2. ~(Pos(file, d) <= file.len)
    BY <1>11, <1>14, NotGiven
  <2>3. r.err # "Ok"
    BY <1>14, <2>1
  <2>4. Gives(file, d, kv, GoodEntry(kv), r)
    BY <2>2, <2>3, Zenon DEF Gives
  <2> QED
    BY <1>12, <1>13, <2>4
<1>15. CASE x.err = "Ok"
  <2>1. x = Stands(file, d, kv.value) /\ Pos(file, d) <= file.len
    BY <1>11, <1>15, Given
  <2>2. key = Stands(file, k + 1, kv.key)
    BY <1>5, <1>7, <1>9, <1>15, Given
  <2>3. key.v = kv.key /\ x.v = kv.value
    BY <2>1, <2>2 DEF Stands
  <2>4. CASE GoodEntry(kv)
    <3>1. r = Yield(x, [key |-> kv.key, value |-> kv.value])
      BY <1>6, <1>13, <2>3, <2>4 DEF GoodEntry
    <3>2. kv = [key |-> kv.key, value |-> kv.value]
      BY DEF EntryType
    <3>3. r = Stands(file, d, kv)
      BY <2>1, <3>1, <3>2 DEF Yield, Stands
    <3>4. Gives(file, d, kv, GoodEntry(kv), r)
      BY <2>1, <2>4, <3>3, Zenon DEF Gives
    <3> QED
      BY <1>12, <1>13, <3>4
  <2>5. CASE ~GoodEntry(kv)
    <3>1. r = Fail(IF x.v.type = "U32" THEN "BadAlignment" ELSE "TypeMismatch")
      BY <1>6, <1>13, <1>15, <2>3, <2>5 DEF GoodEntry
    <3>2. r.err # "Ok"
      BY <3>1 DEF Fail
    <3>3. Gives(file, d, kv, GoodEntry(kv), r)
      BY <2>5, <3>2, Zenon DEF Gives
    <3> QED
      BY <1>12, <1>13, <3>3
  <2> QED
    BY <2>4, <2>5
<1> QED
  BY <1>14, <1>15

-----------------------------------------------------------------------------
(* Numbers, and the offsets of the tensors.                                *)

\* Numbers of eight bytes each.
CountCells(counts) == [i \in DOMAIN counts |-> Field(8, counts[i])]

LEMMA CountsAre ==
  ASSUME NEW counts \in Seq(Nat)
  PROVE  /\ CountCells(counts) \in Seq(Cell) /\ Len(CountCells(counts)) = Len(counts)
         /\ Len(counts) \in Nat
         /\ \A i \in 1..Len(counts) : counts[i] \in Nat /\ CountCells(counts)[i] = Field(8, counts[i])
<1>1. PICK n : n = Len(counts) /\ n \in Nat /\ DOMAIN counts = 1..n
  BY LenProperties
<1> DEFINE f == [i \in 1..n |-> Field(8, counts[i])]
<1>2. CountCells(counts) = f
  BY <1>1 DEF CountCells
<1>3. \A i \in 1..n : f[i] = Field(8, counts[i]) /\ counts[i] \in Nat
  BY <1>1, ElementOfSeq
<1>4. \A i \in 1..n : f[i] \in Cell
  BY <1>3 DEF Field, Cell
<1>5. f = [i \in 1..n |-> f[i]]
  OBVIOUS
<1> HIDE DEF f
<1>6. f \in Seq(Cell) /\ Len(f) = n
  BY <1>1, <1>4, <1>5, Listed
<1> QED
  BY <1>1, <1>2, <1>3, <1>6

LEMMA CountsReadBack ==
  ASSUME NEW file, FileType(file), NEW counts \in Seq(Nat), NEW k,
         Occurs(file, k, CountCells(counts)), NEW y, NEW r, Gives(file, k, y, TRUE, r),
         NEW count, r.err = "Ok" => count = Len(counts), NEW one,
         one = [c \in Cursor |-> Read(file, From(c), 8)]
  PROVE  Gives(file, k + Len(counts), counts, TRUE, ReadMany(one, r, count))
<1>1. PICK n, l : n = Len(counts) /\ n \in Nat /\ l = Len(file.fields) /\ l \in Nat
  BY CountsAre, AtType
<1>2. k \in Nat \ {0} /\ k + n <= l + 1
  BY <1>1, CountsAre DEF Occurs
<1> DEFINE e == [i \in 0..n |-> k + i]
<1>3. e[0] = k /\ e[n] = k + n /\ \A i \in 0..n : e[i] = k + i
  BY <1>1, <1>2
<1> HIDE DEF e
<1>4. \A i \in 0..n : e[i] \in 1..(Len(file.fields) + 1)
  BY <1>1, <1>2, <1>3
<1>5. \A i \in 1..n : e[i - 1] <= e[i] /\ e[i - 1] = k + i - 1 /\ e[i] = (k + i - 1) + 1
  BY <1>1, <1>2, <1>3
<1>6. ASSUME NEW i \in 1..n, Pos(file, e[i - 1]) <= file.len
      PROVE  Gives(file, e[i], counts[i], i \in Nat, one[Place(file, e[i - 1])])
  <2>1. PICK q : q = k + i - 1 /\ q \in 1..l
    BY <1>1, <1>2
  <2>2. file.fields[q] = Field(8, counts[i])
    BY <1>1, <2>1, CountsAre DEF Occurs
  <2>3. Gives(file, q, 0, TRUE, From(Place(file, q)))
    BY <1>5, <1>6, <2>1, FromGives
  <2>4. file.fields[q].v = counts[i] /\ file.fields[q].w = 8
    BY <2>2 DEF Field
  <2>5. Gives(file, q + 1, counts[i], TRUE, Read(file, From(Place(file, q)), 8))
    BY <1>1, <2>1, <2>3, <2>4, ReadGives
  <2>6. one[Place(file, q)] = Read(file, From(Place(file, q)), 8)
    <3>1. q \in 1..(l + 1)
      BY <1>1, <2>1
    <3>2. Place(file, q) \in Cursor
      BY <1>1, <3>1, PlaceType
    <3> QED
      BY <3>2
  <2>7. TRUE <=> i \in Nat
    OBVIOUS
  <2>8. Gives(file, q + 1, counts[i], TRUE, one[Place(file, q)])
    BY <2>5, <2>6
  <2>9. Gives(file, q + 1, counts[i], i \in Nat, one[Place(file, q)])
    BY <2>7, <2>8, GivesSame
  <2> QED
    BY <1>5, <2>1, <2>9
<1>7. Gives(file, e[0], y, TRUE, r)
  BY <1>3
<1>8. Gives(file, e[n], counts, TRUE /\ \A i \in 1..n : i \in Nat, ReadMany(one, r, count))
  BY <1>1, <1>4, <1>5, <1>6, <1>7, ReadManyGives
<1>9. (TRUE /\ \A i \in 1..n : i \in Nat) <=> TRUE
  BY <1>1
<1>10. Gives(file, e[n], counts, TRUE, ReadMany(one, r, count))
  BY <1>8, <1>9, GivesSame
<1> QED
  BY <1>1, <1>3, <1>10

LEMMA AlignUpIs ==
  ASSUME NEW x \in Nat, NEW a \in Nat \ {0}
  PROVE  AlignUp(x, a) \in Nat /\ x <= AlignUp(x, a)
<1>1. PICK n \in Nat : n = x + a - 1
  BY SMT
<1>2. PICK q \in Nat, s \in 0..(a - 1) : q = n \div a /\ n = q * a + s
  OBVIOUS
<1>3. PICK m \in Nat : m = q * a
  OBVIOUS
<1>4. x <= m
  BY <1>1, <1>2, <1>3
<1> QED
  BY <1>1, <1>2, <1>3, <1>4 DEF AlignUp

\* The first k offsets.
OffsetRun(s, a, k, f) ==
  f = [j \in 1..k |-> IF j = 1 THEN 0 ELSE AlignUp(f[j-1] + s[j-1].data, a)]

LEMMA OffsetsDefined ==
  ASSUME NEW s, NEW a
  PROVE  \A k \in Nat : \E f : OffsetRun(s, a, k, f)
<1> USE DEF OffsetRun
<1> DEFINE P(k) == \E f : f = [j \in 1..k |-> IF j = 1 THEN 0 ELSE AlignUp(f[j-1] + s[j-1].data, a)]
           G == {k \in Nat : P(k)}
<1>1. P(0)
  <2> DEFINE f == [j \in 1..0 |-> 0]
  <2>1. f = [j \in 1..0 |-> IF j = 1 THEN 0 ELSE AlignUp(f[j-1] + s[j-1].data, a)]
    OBVIOUS
  <2> QED
    BY <2>1
<1>2. ASSUME NEW k \in Nat, P(k)
      PROVE  P(k + 1)
  <2>1. PICK f : f = [j \in 1..k |-> IF j = 1 THEN 0 ELSE AlignUp(f[j-1] + s[j-1].data, a)]
    BY <1>2
  <2> DEFINE e(j) == IF j = 1 THEN 0 ELSE AlignUp(f[j-1] + s[j-1].data, a)
             g == [j \in 1..(k+1) |-> e(j)]
  <2>2. ASSUME NEW j \in 1..(k+1), j # 1
        PROVE  g[j-1] = f[j-1]
    <3>1. j - 1 \in 1..k /\ j - 1 \in 1..(k+1)
      BY <2>2
    <3>2. f[j-1] = e(j-1)
      BY <2>1, <3>1
    <3>3. g[j-1] = e(j-1)
      BY <3>1
    <3> QED
      BY <3>2, <3>3
  <2> DEFINE h == [j \in 1..(k+1) |-> IF j = 1 THEN 0 ELSE AlignUp(g[j-1] + s[j-1].data, a)]
  <2>3. \A j \in 1..(k+1) : g[j] = h[j]
    BY <2>2
  <2>4. g = h
    BY <2>3
  <2> QED
    BY <2>4
<1>3. 0 \in G /\ \A k \in Nat : k \in G => k + 1 \in G
  <2> HIDE DEF P
  <2> QED
    BY <1>1, <1>2
<1>4. Nat \subseteq G
  <2> HIDE DEF G
  <2> QED
    BY <1>3, NatBySteps
<1> QED
  BY <1>4

\* A tensor that can be written.
TensorType ==
  {t \in [name : Str, type : DOMAIN TensorRaw, dims : Seq(Nat), data : Nat] :
     Len(t.dims) <= MAX_TENSOR_DIMS}

LEMMA OffsetsAre ==
  ASSUME NEW s \in Seq(TensorType), NEW a \in Nat \ {0}
  PROVE  \A i \in 1..Len(s) :
           /\ Offsets(s, a)[i] \in Nat /\ s[i].data \in Nat
           /\ i < Len(s) => Offsets(s, a)[i] + s[i].data <= Offsets(s, a)[i + 1]
<1>1. PICK n : n = Len(s) /\ n \in Nat
  BY LenProperties
<1> DEFINE f == CHOOSE f : f = [j \in 1..n |-> IF j = 1 THEN 0 ELSE AlignUp(f[j-1] + s[j-1].data, a)]
<1>2. f = [j \in 1..n |-> IF j = 1 THEN 0 ELSE AlignUp(f[j-1] + s[j-1].data, a)]
  <2>1. \E g : OffsetRun(s, a, n, g)
    BY <1>1, OffsetsDefined
  <2> QED
    BY <2>1, Zenon DEF OffsetRun
<1>3. Offsets(s, a) = f
  BY <1>1 DEF Offsets
<1> HIDE DEF f
<1>4. \A i \in 1..n : s[i].data \in Nat
  BY <1>1, ElementOfSeq DEF TensorType
<1>5. ASSUME NEW i \in 1..n, i < n, f[i] \in Nat
      PROVE  f[i + 1] \in Nat /\ f[i] + s[i].data <= f[i + 1]
  <2>1. PICK x : x = f[i] + s[i].data /\ x \in Nat
    BY <1>4, <1>5
  <2>2. i + 1 \in 1..n /\ i + 1 # 1 /\ (i + 1) - 1 = i
    BY <1>1, <1>5
  <2>3. f[i + 1] = AlignUp(x, a)
    BY <1>2, <2>1, <2>2
  <2> QED
    BY <2>1, <2>3, AlignUpIs
<1> DEFINE G == {k \in Nat : k + 1 \in 1..n => f[k + 1] \in Nat}
<1>6. 0 \in G
  BY <1>1, <1>2
<1>7. ASSUME NEW k \in Nat, k \in G
      PROVE  k + 1 \in G
  <2>1. (k + 1) + 1 \in 1..n => k + 1 \in 1..n /\ k + 1 < n
    BY <1>1
  <2> QED
    BY <1>5, <1>7, <2>1
<1>8. Nat \subseteq G
  <2> HIDE DEF G
  <2> QED
    BY <1>6, <1>7, NatBySteps
<1>9. ASSUME NEW i \in 1..n
      PROVE  f[i] \in Nat
  <2>1. i - 1 \in Nat /\ (i - 1) + 1 = i
    BY <1>1
  <2> QED
    BY <1>8, <2>1
<1> QED
  BY <1>1, <1>3, <1>4, <1>5, <1>9

\* The data of a tensor lies before that of any later one.
LEMMA OffsetsApart ==
  ASSUME NEW s \in Seq(TensorType), NEW a \in Nat \ {0}, NEW j \in 1..Len(s)
  PROVE  \A i \in 1..Len(s) : i < j => Offsets(s, a)[i] + s[i].data <= Offsets(s, a)[j]
<1>1. PICK n, f : n = Len(s) /\ n \in Nat /\ f = Offsets(s, a)
  BY LenProperties
<1>2. \A i \in 1..n : /\ f[i] \in Nat /\ s[i].data \in Nat
                      /\ i < n => f[i] + s[i].data <= f[i + 1]
  BY <1>1, OffsetsAre
<1> DEFINE G == {d \in Nat : \A i \in 1..n : i + 1 + d <= n => f[i] + s[i].data <= f[i + 1 + d]}
<1>3. 0 \in G
  BY <1>1, <1>2
<1>4. ASSUME NEW d \in Nat, d \in G
      PROVE  d + 1 \in G
  <2> SUFFICES ASSUME NEW i \in 1..n, i + 1 + (d + 1) <= n
               PROVE  f[i] + s[i].data <= f[i + 1 + (d + 1)]
    OBVIOUS
  <2>1. PICK k : k = i + 1 + d /\ k \in 1..n /\ k < n /\ i + 1 + (d + 1) = k + 1 /\ k + 1 \in 1..n
    BY <1>1
  <2>2. f[i] + s[i].data <= f[k]
    BY <1>4, <2>1
  <2>3. f[k] + s[k].data <= f[k + 1] /\ f[k] \in Nat /\ f[k + 1] \in Nat /\ s[k].data \in Nat
        /\ f[i] \in Nat /\ s[i].data \in Nat
    BY <1>2, <2>1
  <2>4. PICK u \in Nat, v \in Nat, w \in Nat, x \in Nat, y \in Nat :
          u = f[i] /\ v = f[k] /\ w = f[k + 1] /\ x = s[i].data /\ y = s[k].data
    BY <2>3
  <2>5. u + x <= v /\ v + y <= w
    BY <2>2, <2>3, <2>4
  <2>6. u + x <= w
    BY <2>5
  <2> QED
    BY <2>1, <2>4, <2>6
<1>5. Nat \subseteq G
  <2> HIDE DEF G
  <2> QED
    BY <1>3, <1>4, NatBySteps
<1>6. ASSUME NEW i \in 1..n, i < j
      PROVE  f[i] + s[i].data <= f[j]
  <2>1. PICK d : d = j - i - 1 /\ d \in Nat /\ i + 1 + d = j /\ j <= n
    BY <1>1, <1>6
  <2>2. d \in G
    BY <1>5, <2>1
  <2> QED
    BY <2>1, <2>2
<1> QED
  BY <1>1, <1>6

-----------------------------------------------------------------------------
(* Entries of the index.                                                   *)

\* What is read of its entry.
Info(t, offset) == [name |-> t.name, type |-> t.type, dims |-> t.dims, offset |-> offset]

LEMMA TensorIs ==
  ASSUME NEW t \in TensorType
  PROVE  /\ t.name \in STRING /\ Len(t.name) \in Nat /\ t.type \in DOMAIN TensorRaw
         /\ t.dims \in Seq(Nat) /\ Len(t.dims) \in Nat /\ Len(t.dims) <= 4 /\ t.data \in Nat
BY LenProperties DEF TensorType, Str, MAX_TENSOR_DIMS

LEMMA RawTensors ==
  ASSUME NEW t \in DOMAIN TensorRaw
  PROVE  TensorRaw[t] \in Nat /\ TensorTypeFromRaw(TensorRaw[t]) = t
<1>1. \A u \in DOMAIN TensorRaw : TensorRaw[u] \in Nat /\ (TensorRaw[u] = TensorRaw[t] => u = t)
  BY DEF TensorRaw
<1>2. TensorTypeFromRaw(TensorRaw[t]) = CHOOSE u \in DOMAIN TensorRaw : TensorRaw[u] = TensorRaw[t]
  BY DEF TensorTypeFromRaw
<1> HIDE DEF TensorRaw
<1> QED
  BY <1>1, <1>2

LEMMA InfoCells ==
  ASSUME NEW t \in TensorType, NEW offset \in Nat
  PROVE  \E a, b, c, d, e :
           /\ a = WriteStr(t.name) /\ b = <<Field(4, Len(t.dims))>> /\ c = CountCells(t.dims)
           /\ d = <<Field(4, TensorRaw[t.type])>> /\ e = <<Field(8, offset)>>
           /\ a \in Seq(Cell) /\ b \in Seq(Cell) /\ c \in Seq(Cell) /\ d \in Seq(Cell)
           /\ e \in Seq(Cell)
           /\ Len(a) = 1 /\ Len(b) = 1 /\ Len(c) = Len(t.dims) /\ Len(d) = 1 /\ Len(e) = 1
           /\ WriteInfo(t, offset) = ((a \o b) \o c) \o (d \o e)
<1>1. PICK a, b, c, d, e :
           /\ a = WriteStr(t.name) /\ b = <<Field(4, Len(t.dims))>> /\ c = CountCells(t.dims)
           /\ d = <<Field(4, TensorRaw[t.type])>> /\ e = <<Field(8, offset)>>
  OBVIOUS
<1>2. a \in Seq(Cell) /\ Len(a) = 1
  BY <1>1, TensorIs, StrCells
<1>3. b \in Seq(Cell) /\ Len(b) = 1
  <2>1. Field(4, Len(t.dims)) \in Cell
    BY TensorIs DEF Field, Cell
  <2> QED
    BY <1>1, <2>1, OneCell
<1>4. c \in Seq(Cell) /\ Len(c) = Len(t.dims)
  BY <1>1, TensorIs, CountsAre
<1>5. d \in Seq(Cell) /\ Len(d) = 1 /\ Field(4, TensorRaw[t.type]) \in Cell
  <2>1. Field(4, TensorRaw[t.type]) \in Cell
    BY TensorIs, RawTensors DEF Field, Cell
  <2> QED
    BY <1>1, <2>1, OneCell
<1>6. e \in Seq(Cell) /\ Len(e) = 1 /\ Field(8, offset) \in Cell
  <2>1. Field(8, offset) \in Cell
    BY DEF Field, Cell
  <2> QED
    BY <1>1, <2>1, OneCell
<1>7. WriteInfo(t, offset) = ((a \o b) \o c) \o (d \o e)
  <2>1. <<Field(4, TensorRaw[t.type]), Field(8, offset)>> = d \o e
    BY <1>1, <1>5, <1>6, TwoCells
  <2> QED
    BY <1>1, <2>1 DEF WriteInfo, CountCells
<1> QED
  BY <1>1, <1>2, <1>3, <1>4, <1>5, <1>6, <1>7

LEMMA InfoType ==
  ASSUME NEW t \in TensorType, NEW offset \in Nat
  PROVE  WriteInfo(t, offset) \in Seq(Cell) /\ Len(WriteInfo(t, offset)) = 4 + Len(t.dims)
<1>1. PICK a, b, c, d, e :
           /\ a = WriteStr(t.name) /\ b = <<Field(4, Len(t.dims))>> /\ c = CountCells(t.dims)
           /\ d = <<Field(4, TensorRaw[t.type])>> /\ e = <<Field(8, offset)>>
           /\ a \in Seq(Cell) /\ b \in Seq(Cell) /\ c \in Seq(Cell) /\ d \in Seq(Cell)
           /\ e \in Seq(Cell)
           /\ Len(a) = 1 /\ Len(b) = 1 /\ Len(c) = Len(t.dims) /\ Len(d) = 1 /\ Len(e) = 1
           /\ WriteInfo(t, offset) = ((a \o b) \o c) \o (d \o e)
  BY InfoCells
<1>2. PICK n : n = Len(t.dims) /\ n \in Nat
  BY TensorIs
<1>3. a \o b \in Seq(Cell) /\ Len(a \o b) = 2
  <2>1. a \o b \in Seq(Cell) /\ Len(a \o b) = Len(a) + Len(b)
    BY <1>1, ConcatProperties
  <2> QED
    BY <1>1, <2>1
<1>4. (a \o b) \o c \in Seq(Cell) /\ Len((a \o b) \o c) = 2 + n
  <2>1. (a \o b) \o c \in Seq(Cell) /\ Len((a \o b) \o c) = Len(a \o b) + Len(c)
    BY <1>1, <1>3, ConcatProperties
  <2> QED
    BY <1>1, <1>2, <1>3, <2>1
<1>5. d \o e \in Seq(Cell) /\ Len(d \o e) = 2
  <2>1. d \o e \in Seq(Cell) /\ Len(d \o e) = Len(d) + Len(e)
    BY <1>1, ConcatProperties
  <2> QED
    BY <1>1, <2>1
<1>6. /\ ((a \o b) \o c) \o (d \o e) \in Seq(Cell)
      /\ Len(((a \o b) \o c) \o (d \o e)) = Len((a \o b) \o c) + Len(d \o e)
  BY <1>4, <1>5, ConcatProperties
<1>7. (2 + n) + 2 = 4 + n
  BY <1>2
<1> QED
  BY <1>1, <1>2, <1>4, <1>5, <1>6, <1>7

LEMMA InfoReadsBack ==
  ASSUME NEW file, FileType(file), NEW t \in TensorType, NEW offset \in Nat, NEW k,
         Occurs(file, k, WriteInfo(t, offset)), Pos(file, k) <= file.len
  PROVE  Gives(file, k + Len(WriteInfo(t, offset)), Info(t, offset), TRUE,
               ReadInfo(file, From(Place(file, k))))
<1>1. PICK a, b, c, d, e :
           /\ a = WriteStr(t.name) /\ b = <<Field(4, Len(t.dims))>> /\ c = CountCells(t.dims)
           /\ d = <<Field(4, TensorRaw[t.type])>> /\ e = <<Field(8, offset)>>
           /\ a \in Seq(Cell) /\ b \in Seq(Cell) /\ c \in Seq(Cell) /\ d \in Seq(Cell)
           /\ e \in Seq(Cell)
           /\ Len(a) = 1 /\ Len(b) = 1 /\ Len(c) = Len(t.dims) /\ Len(d) = 1 /\ Len(e) = 1
           /\ WriteInfo(t, offset) = ((a \o b) \o c) \o (d \o e)
  BY InfoCells
<1>2. PICK m, l : /\ m = Len(t.dims) /\ m \in Nat /\ m <= 4
                  /\ l = Len(file.fields) /\ l \in Nat
  BY TensorIs, AtType
<1>3. k \in Nat \ {0} /\ k \in Nat /\ Len(WriteInfo(t, offset)) = 4 + m
  BY <1>2, InfoType DEF Occurs
<1>a. /\ (k + 1) + 1 = k + 2 /\ k + (2 + m) = k + 2 + m /\ (k + 2 + m) + 1 = k + 3 + m
      /\ (k + 3 + m) + 1 = k + 4 + m /\ k + (4 + m) = k + 4 + m
  <2>1. PICK x \in Nat, y \in Nat : x = k /\ y = m
    BY <1>2, <1>3
  <2>2. /\ (x + 1) + 1 = x + 2 /\ x + (2 + y) = x + 2 + y /\ (x + 2 + y) + 1 = x + 3 + y
        /\ (x + 3 + y) + 1 = x + 4 + y /\ x + (4 + y) = x + 4 + y
    OBVIOUS
  <2> QED
    BY <2>1, <2>2
<1>4. /\ a \o b \in Seq(Cell) /\ Len(a \o b) = 2 /\ (a \o b) \o c \in Seq(Cell)
      /\ Len((a \o b) \o c) = 2 + m /\ d \o e \in Seq(Cell)
  <2>1. a \o b \in Seq(Cell) /\ Len(a \o b) = Len(a) + Len(b)
    BY <1>1, ConcatProperties
  <2>2. Len(a \o b) = 2
    BY <1>1, <2>1
  <2>3. (a \o b) \o c \in Seq(Cell) /\ Len((a \o b) \o c) = Len(a \o b) + Len(c)
    BY <1>1, <2>1, ConcatProperties
  <2>4. d \o e \in Seq(Cell)
    BY <1>1, ConcatProperties
  <2> QED
    BY <1>1, <1>2, <2>1, <2>2, <2>3, <2>4
<1>5. /\ Occurs(file, k, a) /\ Occurs(file, k + 1, b) /\ Occurs(file, k + 2, c)
      /\ Occurs(file, k + 2 + m, d) /\ Occurs(file, k + 3 + m, e)
  <2>1. Occurs(file, k, ((a \o b) \o c) \o (d \o e))
    BY <1>1
  <2>2. /\ Occurs(file, k, (a \o b) \o c)
        /\ Occurs(file, k + Len((a \o b) \o c), d \o e)
    BY <1>4, <2>1, OccursPart
  <2>3. Occurs(file, k, a \o b) /\ Occurs(file, k + Len(a \o b), c)
    BY <1>1, <1>4, <2>2, OccursPart
  <2>4. Occurs(file, k, a) /\ Occurs(file, k + Len(a), b)
    <3>1. a \in Seq(Cell) /\ b \in Seq(Cell)
      BY <1>1
    <3> QED
      BY <2>3, <3>1, OccursPart
  <2>5. PICK q : q = k + (2 + m) /\ q = k + 2 + m /\ q + 1 = k + 3 + m
    BY <1>a
  <2>6. Occurs(file, q, d \o e)
    BY <1>4, <2>2, <2>5
  <2>7. Occurs(file, q, d) /\ Occurs(file, q + Len(d), e)
    BY <1>1, <2>6, OccursPart
  <2> QED
    BY <1>1, <1>4, <2>3, <2>4, <2>5, <2>7
<1>6. PICK name, n, dims, raw, off :
        /\ name = ReadStr(file, From(Place(file, k)))
        /\ n = Read(file, name, 4)
        /\ dims = ReadMany([p \in Cursor |-> Read(file, From(p), 8)], n, n.v)
        /\ raw = Read(file, dims, 4)
        /\ off = Read(file, raw, 8)
  OBVIOUS
<1>7. ReadInfo(file, From(Place(file, k)))
        = IF n.err = "Ok" /\ n.v > MAX_TENSOR_DIMS THEN Fail("TooManyDims")
          ELSE Yield(off, [name |-> name.v, type |-> TensorTypeFromRaw(raw.v),
                           dims |-> dims.v, offset |-> off.v])
  BY <1>6 DEF ReadInfo
<1>8. Gives(file, k + 1, t.name, TRUE, name)
  BY <1>1, <1>5, <1>6, FromGives, ReadStrGives
<1>9. Gives(file, k + 2, m, TRUE, n)
  <2>1. Gives(file, (k + 1) + 1, m, TRUE, n)
    BY <1>1, <1>2, <1>5, <1>6, <1>8, ReadCell
  <2>2. (k + 1) + 1 = k + 2
    BY <1>a
  <2> QED
    BY <2>1, <2>2
<1>10. n.err = "Ok" => n.v = m
  <2>1. n.err = "Ok" => n = Stands(file, k + 2, m)
    BY <1>9, Given
  <2> QED
    BY <2>1 DEF Stands
<1>11. Gives(file, k + 2 + m, t.dims, TRUE, dims)
  <2>1. t.dims \in Seq(Nat)
    BY TensorIs
  <2>2. Gives(file, (k + 2) + Len(t.dims), t.dims, TRUE, dims)
    BY <1>1, <1>2, <1>5, <1>6, <1>9, <1>10, <2>1, CountsReadBack
  <2> QED
    BY <1>2, <2>2
<1>12. Gives(file, k + 3 + m, TensorRaw[t.type], TRUE, raw)
  <2>1. Gives(file, (k + 2 + m) + 1, TensorRaw[t.type], TRUE, raw)
    BY <1>1, <1>5, <1>6, <1>11, ReadCell
  <2>2. (k + 2 + m) + 1 = k + 3 + m
    BY <1>a
  <2> QED
    BY <2>1, <2>2
<1>13. Gives(file, k + 4 + m, offset, TRUE, off)
  <2>1. Gives(file, (k + 3 + m) + 1, offset, TRUE, off)
    BY <1>1, <1>5, <1>6, <1>12, ReadCell
  <2>2. (k + 3 + m) + 1 = k + 4 + m
    BY <1>a
  <2> QED
    BY <2>1, <2>2
<1>14. /\ off.err = "Ok" => raw.err = "Ok"
       /\ raw.err = "Ok" => dims.err = "Ok"
       /\ dims.err = "Ok" => n.err = "Ok"
       /\ n.err = "Ok" => name.err = "Ok"
  BY <1>6 DEF Read, ReadMany
<1>15. ReadInfo(file, From(Place(file, k)))
         = Yield(off, [name |-> name.v, type |-> TensorTypeFromRaw(raw.v),
                       dims |-> dims.v, offset |-> off.v])
  <2>1. ~(n.err = "Ok" /\ n.v > MAX_TENSOR_DIMS)
    BY <1>2, <1>10 DEF MAX_TENSOR_DIMS
  <2> QED
    BY <1>7, <2>1
<1>16. off.err = "Ok" => [name |-> name.v, type |-> TensorTypeFromRaw(raw.v),
                          dims |-> dims.v, offset |-> off.v] = Info(t, offset)
  <2> SUFFICES ASSUME off.err = "Ok"
               PROVE  [name |-> name.v, type |-> TensorTypeFromRaw(raw.v),
                       dims |-> dims.v, offset |-> off.v] = Info(t, offset)
    OBVIOUS
  <2>1. name = Stands(file, k + 1, t.name)
    BY <1>8, <1>14, Given
  <2>2. dims = Stands(file, k + 2 + m, t.dims)
    BY <1>11, <1>14, Given
  <2>3. raw = Stands(file, k + 3 + m, TensorRaw[t.type])
    BY <1>12, <1>14, Given
  <2>4. off = Stands(file, k + 4 + m, offset)
    BY <1>13, Given
  <2>5. name.v = t.name /\ dims.v = t.dims /\ raw.v = TensorRaw[t.type] /\ off.v = offset
    BY <2>1, <2>2, <2>3, <2>4 DEF Stands
  <2>6. TensorTypeFromRaw(raw.v) = t.type
    BY <2>5, TensorIs, RawTensors
  <2> QED
    BY <2>5, <2>6 DEF Info
<1>17. Gives(file, k + 4 + m, Info(t, offset), TRUE, ReadInfo(file, From(Place(file, k))))
  BY <1>13, <1>15, <1>16, YieldGives
<1>18. k + Len(WriteInfo(t, offset)) = k + 4 + m
  BY <1>3, <1>a
<1> QED
  BY <1>17, <1>18

\* The header of a file with so many tensors and entries.
Header(nt, nk) == <<Field(4, "GGUF"), Field(4, 3), Field(8, nt), Field(8, nk)>>

LEMMA HeaderCells ==
  ASSUME NEW nt \in Nat, NEW nk \in Nat
  PROVE  /\ Header(nt, nk) \in Seq(Cell) /\ Len(Header(nt, nk)) = 4
         /\ Header(nt, nk)[1] = Field(4, "GGUF") /\ Header(nt, nk)[2] = Field(4, 3)
         /\ Header(nt, nk)[3] = Field(8, nt) /\ Header(nt, nk)[4] = Field(8, nk)
<1>1. PICK a, b, c, d : /\ a = Field(4, "GGUF") /\ b = Field(4, 3)
                        /\ c = Field(8, nt) /\ d = Field(8, nk)
  OBVIOUS
<1>2. a \in Cell /\ b \in Cell /\ c \in Cell /\ d \in Cell
  BY <1>1 DEF Field, Cell
<1>3. <<a, b, c, d>> \in Seq(Cell)
  BY <1>2
<1> QED
  BY <1>1, <1>3 DEF Header

LEMMA HeaderReadsBack ==
  ASSUME NEW file, FileType(file), NEW nt \in Nat, NEW nk \in Nat,
         Occurs(file, 1, Header(nt, nk))
  PROVE  Gives(file, 5, <<nt, nk>>, TRUE, ReadHeader(file))
<1>1. PICK counts, one, magic, version, both :
        /\ counts = <<nt, nk>>
        /\ one = [c \in Cursor |-> Read(file, From(c), 8)]
        /\ magic = Read(file, Begin, 4)
        /\ version = Read(file, magic, 4)
        /\ both = ReadMany(one, version, 2)
  OBVIOUS
<1>2. ReadHeader(file) = IF magic.err = "Ok" /\ magic.v # "GGUF" THEN Fail("BadMagic")
                         ELSE IF version.err = "Ok" /\ version.v \notin 2..3
                           THEN Fail("UnsupportedVersion")
                         ELSE both
  BY <1>1 DEF ReadHeader
<1>3. PICK l : l = Len(file.fields) /\ l \in Nat /\ 1 + 4 <= l + 1
  BY HeaderCells, AtType DEF Occurs
<1>4. /\ file.fields[1] = Field(4, "GGUF") /\ file.fields[2] = Field(4, 3)
      /\ file.fields[3] = Field(8, nt) /\ file.fields[4] = Field(8, nk)
  <2>1. \A j \in 1..4 : file.fields[1 + j - 1] = Header(nt, nk)[j]
    BY HeaderCells DEF Occurs
  <2>2. file.fields[1 + 1 - 1] = Header(nt, nk)[1] /\ file.fields[1 + 2 - 1] = Header(nt, nk)[2]
        /\ file.fields[1 + 3 - 1] = Header(nt, nk)[3] /\ file.fields[1 + 4 - 1] = Header(nt, nk)[4]
    BY <2>1
  <2>3. 1 + 1 - 1 = 1 /\ 1 + 2 - 1 = 2 /\ 1 + 3 - 1 = 3 /\ 1 + 4 - 1 = 4
    OBVIOUS
  <2>4. /\ file.fields[1] = Header(nt, nk)[1] /\ file.fields[2] = Header(nt, nk)[2]
        /\ file.fields[3] = Header(nt, nk)[3] /\ file.fields[4] = Header(nt, nk)[4]
    BY <2>2, <2>3
  <2> QED
    BY <2>4, HeaderCells
<1>5. Gives(file, 1, 0, TRUE, Begin)
  <2>1. Pos(file, 1) = 0 /\ file.len \in Nat
    BY StartsAre DEF Pos, FileType
  <2>2. Begin = Stands(file, 1, 0)
    BY <2>1 DEF Begin, Stands
  <2>3. Pos(file, 1) <= file.len
    BY <2>1
  <2> QED
    BY <2>2, <2>3, Zenon DEF Gives
<1>6. Gives(file, 2, "GGUF", TRUE, magic)
  <2>1. 1 \in 1..l /\ 4 = file.fields[1].w /\ file.fields[1].v = "GGUF" /\ 1 + 1 = 2
    BY <1>3, <1>4 DEF Field
  <2>2. Gives(file, 1 + 1, file.fields[1].v, TRUE, magic)
    BY <1>1, <1>3, <1>5, <2>1, ReadGives
  <2> QED
    BY <2>1, <2>2
<1>7. Gives(file, 3, 3, TRUE, version)
  <2>1. 2 \in 1..l /\ 4 = file.fields[2].w /\ file.fields[2].v = 3 /\ 2 + 1 = 3
    BY <1>3, <1>4 DEF Field
  <2>2. Gives(file, 2 + 1, file.fields[2].v, TRUE, version)
    BY <1>1, <1>3, <1>6, <2>1, ReadGives
  <2> QED
    BY <2>1, <2>2
<1>8. counts \in Seq(Nat) /\ Len(counts) = 2 /\ counts[1] = nt /\ counts[2] = nk
  BY <1>1
<1>9. Occurs(file, 3, CountCells(counts))
  <2>1. /\ Len(CountCells(counts)) = 2
        /\ \A j \in 1..2 : CountCells(counts)[j] = Field(8, counts[j])
    BY <1>8, CountsAre
  <2>2. \A j \in 1..2 : file.fields[3 + j - 1] = CountCells(counts)[j]
    <3>1. file.fields[3 + 1 - 1] = CountCells(counts)[1]
      BY <1>4, <1>8, <2>1
    <3>2. file.fields[3 + 2 - 1] = CountCells(counts)[2]
      BY <1>4, <1>8, <2>1
    <3> QED
      BY <3>1, <3>2
  <2>3. 3 \in Nat \ {0} /\ 3 + 2 <= l + 1
    BY <1>3
  <2> QED
    BY <1>3, <2>1, <2>2, <2>3 DEF Occurs
<1>10. Gives(file, 5, counts, TRUE, both)
  <2>1. Gives(file, 3 + Len(counts), counts, TRUE, both)
    BY <1>1, <1>7, <1>8, <1>9, CountsReadBack
  <2>2. 3 + Len(counts) = 5
    BY <1>8
  <2> QED
    BY <2>1, <2>2
<1>11. magic.err = "Ok" => magic.v = "GGUF"
  <2>1. magic.err = "Ok" => magic = Stands(file, 2, "GGUF")
    BY <1>6, Given
  <2> QED
    BY <2>1 DEF Stands
<1>12. version.err = "Ok" => version.v = 3
  <2>1. version.err = "Ok" => version = Stands(file, 3, 3)
    BY <1>7, Given
  <2> QED
    BY <2>1 DEF Stands
<1>13. ReadHeader(file) = both
  <2>1. 3 \in 2..3
    OBVIOUS
  <2> QED
    BY <1>2, <1>11, <1>12, <2>1
<1> QED
  BY <1>1, <1>10, <1>13

-----------------------------------------------------------------------------
(* How long an entry of the index is.                                      *)

LEMMA TotalOne ==
  ASSUME NEW c \in Cell
  PROVE  Total(<<c>>) = c.w
<1>1. <<>> \in Seq(Cell) /\ Append(<<>>, c) = <<c>>
  OBVIOUS
<1>2. Total(Append(<<>>, c)) = Total(<<>>) + c.w
  BY <1>1, TotalAppend
<1>3. c.w \in Nat
  BY DEF Cell
<1> QED
  BY <1>1, <1>2, <1>3, TotalEmpty

LEMMA TotalCounts ==
  ASSUME NEW counts \in Seq(Nat)
  PROVE  Total(CountCells(counts)) = 8 * Len(counts)
<1>1. PICK n, s, at : n = Len(counts) /\ n \in Nat /\ s = CountCells(counts) /\ at = Starts(s)
  BY CountsAre
<1>2. s \in Seq(Cell) /\ Len(s) = n /\ \A i \in 1..n : s[i] = Field(8, counts[i])
  BY <1>1, CountsAre
<1>3. at[1] = 0 /\ \A k \in 1..n : at[k + 1] = s[k].w + at[k]
  BY <1>1, <1>2, StartsAre
<1>4. \A k \in 1..n : s[k].w = 8
  BY <1>2 DEF Field
<1> DEFINE G == {k \in Nat : k <= n => at[k + 1] = 8 * k}
<1>5. 0 \in G
  BY <1>3
<1>6. ASSUME NEW k \in Nat, k \in G
      PROVE  k + 1 \in G
  <2> SUFFICES ASSUME k + 1 <= n
               PROVE  at[(k + 1) + 1] = 8 * (k + 1)
    OBVIOUS
  <2>1. k <= n /\ k + 1 \in 1..n
    BY <1>1
  <2>2. at[k + 1] = 8 * k
    BY <1>6, <2>1
  <2>3. at[(k + 1) + 1] = 8 + at[k + 1]
    BY <1>3, <1>4, <2>1
  <2> QED
    BY <2>2, <2>3
<1>7. Nat \subseteq G
  <2> HIDE DEF G
  <2> QED
    BY <1>5, <1>6, NatBySteps
<1>8. at[n + 1] = 8 * n
  BY <1>1, <1>7
<1>9. Total(s) = at[n + 1]
  BY <1>1, <1>2 DEF Total
<1> QED
  BY <1>1, <1>8, <1>9

LEMMA TotalInfo ==
  ASSUME NEW t \in TensorType, NEW offset \in Nat
  PROVE  Total(WriteInfo(t, offset)) = IndexEntryLen(t) /\ IndexEntryLen(t) \in Nat
<1>1. PICK a, b, c, d, e :
           /\ a = WriteStr(t.name) /\ b = <<Field(4, Len(t.dims))>> /\ c = CountCells(t.dims)
           /\ d = <<Field(4, TensorRaw[t.type])>> /\ e = <<Field(8, offset)>>
           /\ a \in Seq(Cell) /\ b \in Seq(Cell) /\ c \in Seq(Cell) /\ d \in Seq(Cell)
           /\ e \in Seq(Cell)
           /\ Len(a) = 1 /\ Len(b) = 1 /\ Len(c) = Len(t.dims) /\ Len(d) = 1 /\ Len(e) = 1
           /\ WriteInfo(t, offset) = ((a \o b) \o c) \o (d \o e)
  BY InfoCells
<1>2. PICK m \in Nat, x \in Nat : m = Len(t.dims) /\ x = Len(t.name)
  BY TensorIs
<1>3. Total(a) = 8 + x
  <2>1. Field(8 + x, t.name) \in Cell /\ Field(8 + x, t.name).w = 8 + x
    BY <1>2, TensorIs DEF Field, Cell
  <2> QED
    BY <1>1, <1>2, <2>1, TotalOne DEF WriteStr
<1>4. Total(b) = 4
  <2>1. Field(4, m) \in Cell /\ Field(4, m).w = 4
    BY <1>2 DEF Field, Cell
  <2> QED
    BY <1>1, <1>2, <2>1, TotalOne
<1>5. Total(c) = 8 * m
  BY <1>1, <1>2, TensorIs, TotalCounts
<1>6. Total(d) = 4
  <2>1. Field(4, TensorRaw[t.type]) \in Cell /\ Field(4, TensorRaw[t.type]).w = 4
    BY TensorIs, RawTensors DEF Field, Cell
  <2> QED
    BY <1>1, <2>1, TotalOne
<1>7. Total(e) = 8
  <2>1. Field(8, offset) \in Cell /\ Field(8, offset).w = 8
    BY DEF Field, Cell
  <2> QED
    BY <1>1, <2>1, TotalOne
<1>8. PICK p, q, r : p = a \o b /\ q = p \o c /\ r = d \o e
  OBVIOUS
<1>9. p \in Seq(Cell) /\ r \in Seq(Cell)
  BY <1>1, <1>8, ConcatProperties
<1>10. q \in Seq(Cell)
  BY <1>1, <1>8, <1>9, ConcatProperties
<1>11. Total(p) = Total(a) + Total(b)
  BY <1>1, <1>8, TotalConcat
<1>12. Total(q) = Total(p) + Total(c)
  BY <1>1, <1>8, <1>9, TotalConcat
<1>13. Total(r) = Total(d) + Total(e)
  BY <1>1, <1>8, TotalConcat
<1>14. Total(q \o r) = Total(q) + Total(r)
  BY <1>9, <1>10, TotalConcat
<1>15. Total(WriteInfo(t, offset)) = (((8 + x) + 4) + 8 * m) + (4 + 8)
  BY <1>1, <1>3, <1>4, <1>5, <1>6, <1>7, <1>8, <1>11, <1>12, <1>13, <1>14
<1>16. IndexEntryLen(t) = 8 + x + 4 + 8 * m + 4 + 8
  BY <1>2 DEF IndexEntryLen
<1>17. (((8 + x) + 4) + 8 * m) + (4 + 8) = 8 + x + 4 + 8 * m + 4 + 8
       /\ 8 + x + 4 + 8 * m + 4 + 8 \in Nat
  OBVIOUS
<1> QED
  BY <1>15, <1>16, <1>17

-----------------------------------------------------------------------------
(* The parts of a file.                                                    *)

LEMMA BuilderIs ==
  ASSUME NEW spec \in Builders
  PROVE  /\ spec.metadata \in Seq(EntryType) /\ spec.tensors \in Seq(TensorType)
         /\ spec.alignment \in Nat \ {0} /\ IsPowerOfTwo(spec.alignment)
         /\ Len(spec.metadata) \in Nat /\ Len(spec.tensors) \in Nat
<1>1. /\ spec.metadata \in Seq(EntryType) /\ spec.tensors \in Seq(TensorType)
      /\ spec.alignment \in {a \in Nat \ {0} : IsPowerOfTwo(a)}
  BY DEF Builders, EntryType, TensorType
<1> QED
  BY <1>1, LenProperties

\* The parts of a file: the header, the entries of the metadata, and those of
\* the index.
HeadAre(spec) ==
  /\ WriteHead(spec) \in Seq(Seq(Cell)) /\ Len(WriteHead(spec)) = 1 + Len(spec.metadata)
  /\ WriteHead(spec)[1] = Header(Len(spec.tensors), Len(spec.metadata))
  /\ \A i \in 1..Len(spec.metadata) :
       WriteHead(spec)[1 + i] = WriteEntry(spec.metadata[i])

LEMMA HeadParts ==
  ASSUME NEW spec \in Builders
  PROVE  HeadAre(spec)
<1>1. PICK nk, nt, T : nk = Len(spec.metadata) /\ nk \in Nat /\ DOMAIN spec.metadata = 1..nk
                       /\ nt = Len(spec.tensors) /\ nt \in Nat /\ T = Seq(Cell)
  BY BuilderIs, LenProperties
<1> DEFINE f == [i \in 1..nk |-> WriteEntry(spec.metadata[i])]
           h == <<Header(nt, nk)>>
<1>2. WriteHead(spec) = h \o f
  BY <1>1 DEF WriteHead, Header
<1>3. \A i \in 1..nk : f[i] = WriteEntry(spec.metadata[i])
  OBVIOUS
<1>4. f = [i \in 1..nk |-> f[i]]
  OBVIOUS
<1>5. h \in Seq(T) /\ Len(h) = 1 /\ h[1] = Header(nt, nk)
  <2>1. Header(nt, nk) \in T
    BY <1>1, HeaderCells
  <2> QED
    BY <2>1
<1> HIDE DEF f, h
<1>6. \A i \in 1..nk : f[i] \in T
  <2> SUFFICES ASSUME NEW i \in 1..nk
               PROVE  f[i] \in T
    OBVIOUS
  <2>1. spec.metadata[i] \in EntryType
    BY <1>1, BuilderIs, ElementOfSeq
  <2> QED
    BY <1>1, <1>3, <2>1, EntryCells
<1>7. f \in Seq(T) /\ Len(f) = nk
  BY <1>1, <1>4, <1>6, Listed
<1>8. /\ h \o f \in Seq(T) /\ Len(h \o f) = Len(h) + Len(f)
      /\ \A i \in 1..(Len(h) + Len(f)) : (h \o f)[i] = IF i <= Len(h) THEN h[i] ELSE f[i - Len(h)]
  BY <1>5, <1>7, ConcatProperties
<1>9. Len(h \o f) = 1 + nk /\ (h \o f)[1] = Header(nt, nk)
  BY <1>1, <1>5, <1>7, <1>8
<1>10. ASSUME NEW i \in 1..nk
       PROVE  (h \o f)[1 + i] = f[i]
  <2>1. 1 + i \in 1..(1 + nk) /\ ~(1 + i <= 1) /\ (1 + i) - 1 = i
    BY <1>1
  <2> QED
    BY <1>5, <1>7, <1>8, <2>1
<1> QED
  BY <1>1, <1>2, <1>3, <1>8, <1>9, <1>10 DEF HeadAre

OffsetsOf(spec) == Offsets(spec.tensors, spec.alignment)

IndexAre(spec) ==
  /\ WriteIndex(spec) \in Seq(Seq(Cell)) /\ Len(WriteIndex(spec)) = Len(spec.tensors)
  /\ \A i \in 1..Len(spec.tensors) :
       /\ spec.tensors[i] \in TensorType /\ OffsetsOf(spec)[i] \in Nat
       /\ WriteIndex(spec)[i] = WriteInfo(spec.tensors[i], OffsetsOf(spec)[i])

LEMMA IndexParts ==
  ASSUME NEW spec \in Builders
  PROVE  IndexAre(spec)
<1>1. PICK nt, T, o : nt = Len(spec.tensors) /\ nt \in Nat /\ DOMAIN spec.tensors = 1..nt
                      /\ T = Seq(Cell) /\ o = OffsetsOf(spec)
  BY BuilderIs, LenProperties
<1> DEFINE f == [i \in 1..nt |-> WriteInfo(spec.tensors[i], o[i])]
<1>2. WriteIndex(spec) = f
  BY <1>1 DEF WriteIndex, OffsetsOf
<1>3. \A i \in 1..nt : f[i] = WriteInfo(spec.tensors[i], o[i])
  OBVIOUS
<1>4. f = [i \in 1..nt |-> f[i]]
  OBVIOUS
<1> HIDE DEF f
<1>5. \A i \in 1..nt : spec.tensors[i] \in TensorType /\ o[i] \in Nat
  <2>1. spec.tensors \in Seq(TensorType) /\ spec.alignment \in Nat \ {0}
    BY BuilderIs
  <2>2. \A i \in 1..nt : o[i] \in Nat
    BY <1>1, <2>1, OffsetsAre DEF OffsetsOf
  <2> QED
    BY <1>1, <2>1, <2>2, ElementOfSeq
<1>6. \A i \in 1..nt : f[i] \in T
  BY <1>1, <1>3, <1>5, InfoType
<1>7. f \in Seq(T) /\ Len(f) = nt
  BY <1>1, <1>4, <1>6, Listed
<1> QED
  BY <1>1, <1>2, <1>3, <1>5, <1>7 DEF IndexAre

Parts(spec) == WriteHead(spec) \o WriteIndex(spec)

PartsAre(spec) ==
  /\ Parts(spec) \in Seq(Seq(Cell))
  /\ Len(Parts(spec)) = (1 + Len(spec.metadata)) + Len(spec.tensors)
  /\ Parts(spec)[1] = Header(Len(spec.tensors), Len(spec.metadata))
  /\ \A i \in 1..Len(spec.metadata) : Parts(spec)[1 + i] = WriteEntry(spec.metadata[i])
  /\ \A i \in 1..Len(spec.tensors) :
       Parts(spec)[(1 + Len(spec.metadata)) + i] = WriteInfo(spec.tensors[i], OffsetsOf(spec)[i])

LEMMA AllParts ==
  ASSUME NEW spec \in Builders
  PROVE  PartsAre(spec)
<1>0. PICK nk \in Nat, nt \in Nat : nk = Len(spec.metadata) /\ nt = Len(spec.tensors)
  BY BuilderIs
<1>1. PICK T, h, f : /\ nk = Len(spec.metadata) /\ nt = Len(spec.tensors) /\ T = Seq(Cell)
                     /\ h = WriteHead(spec) /\ f = WriteIndex(spec)
  BY <1>0
<1>2. /\ h \in Seq(T) /\ Len(h) = 1 + nk /\ h[1] = Header(nt, nk)
      /\ \A i \in 1..nk : h[1 + i] = WriteEntry(spec.metadata[i])
  BY <1>1, HeadParts DEF HeadAre
<1>3. /\ f \in Seq(T) /\ Len(f) = nt
      /\ \A i \in 1..nt : f[i] = WriteInfo(spec.tensors[i], OffsetsOf(spec)[i])
  BY <1>1, IndexParts DEF IndexAre
<1>4. /\ h \o f \in Seq(T) /\ Len(h \o f) = (1 + nk) + nt
      /\ \A i \in 1..((1 + nk) + nt) :
           (h \o f)[i] = IF i <= 1 + nk THEN h[i] ELSE f[i - (1 + nk)]
  <2>1. /\ h \o f \in Seq(T) /\ Len(h \o f) = Len(h) + Len(f)
        /\ \A i \in 1..(Len(h) + Len(f)) :
             (h \o f)[i] = IF i <= Len(h) THEN h[i] ELSE f[i - Len(h)]
    BY <1>2, <1>3, ConcatProperties
  <2>2. Len(h) = 1 + nk /\ Len(f) = nt
    BY <1>2, <1>3
  <2> QED
    BY <2>1, <2>2, Zenon
<1>5. (h \o f)[1] = h[1]
  <2>1. 1 \in 1..((1 + nk) + nt) /\ 1 <= 1 + nk
    OBVIOUS
  <2> QED
    BY <1>4, <2>1
<1>6. ASSUME NEW i \in 1..nk
      PROVE  (h \o f)[1 + i] = h[1 + i]
  <2>1. 1 + i \in 1..((1 + nk) + nt) /\ 1 + i <= 1 + nk
    OBVIOUS
  <2> QED
    BY <1>4, <2>1
<1>7. ASSUME NEW i \in 1..nt
      PROVE  (h \o f)[(1 + nk) + i] = f[i]
  <2>1. (1 + nk) + i \in 1..((1 + nk) + nt) /\ ~((1 + nk) + i <= 1 + nk)
        /\ ((1 + nk) + i) - (1 + nk) = i
    OBVIOUS
  <2> QED
    BY <1>4, <2>1
<1>8. Parts(spec) = h \o f
  BY <1>1 DEF Parts
<1> QED
  BY <1>1, <1>2, <1>3, <1>4, <1>5, <1>6, <1>7, <1>8 DEF PartsAre

\* The writer knows where its index ends before it writes it.
LEMMA IndexEndIs ==
  ASSUME NEW spec \in Builders
  PROVE  IndexEnd(spec) = Size(Parts(spec)) /\ Size(Parts(spec)) \in Nat
<1>1. PICK nt, T, h, f : nt = Len(spec.tensors) /\ nt \in Nat /\ DOMAIN spec.tensors = 1..nt
                         /\ T = Seq(Cell) /\ h = WriteHead(spec) /\ f = WriteIndex(spec)
  BY BuilderIs, LenProperties
<1>2. h \in Seq(T) /\ f \in Seq(T) /\ Len(f) = nt
  BY <1>1, HeadParts, IndexParts DEF HeadAre, IndexAre
<1>3. FlattenSeq(h \o f) = FlattenSeq(h) \o FlattenSeq(f)
  BY <1>1, <1>2, FlattenConcat
<1>4. FlattenSeq(h) \in Seq(Cell) /\ FlattenSeq(f) \in Seq(Cell) /\ h \o f \in Seq(T)
  BY <1>1, <1>2, FlattenType, ConcatProperties
<1>5. Size(h \o f) = Size(h) + Size(f)
  <2>1. Total(FlattenSeq(h \o f)) = Total(FlattenSeq(h)) + Total(FlattenSeq(f))
    BY <1>3, <1>4, TotalConcat
  <2> QED
    BY <1>1, <1>2, <1>4, <2>1, TotalFlatten
<1> DEFINE g == [i \in 1..nt |-> Field(IndexEntryLen(spec.tensors[i]), 0)]
<1>6. Sizes(f) = g
  <2>1. DOMAIN f = 1..nt
    BY <1>2, LenProperties
  <2>2. Sizes(f) = [i \in 1..nt |-> Field(Total(f[i]), 0)]
    BY <2>1 DEF Sizes
  <2>3. \A i \in 1..nt : Total(f[i]) = IndexEntryLen(spec.tensors[i])
    BY <1>1, IndexParts, TotalInfo DEF IndexAre
  <2> QED
    BY <2>2, <2>3
<1>7. Size(f) = Total(g)
  BY <1>1, <1>2, <1>6, SizesType
<1>8. IndexEnd(spec) = Size(h) + Total(g)
  BY <1>1 DEF IndexEnd
<1>9. Size(h \o f) \in Nat
  <2>1. FlattenSeq(h \o f) \in Seq(Cell)
    BY <1>1, <1>4, FlattenType
  <2> QED
    BY <1>1, <1>4, <2>1, TotalType, TotalFlatten
<1> QED
  BY <1>1, <1>5, <1>7, <1>8, <1>9 DEF Parts

\* A file, or the beginning of one.
LEMMA BuiltIs ==
  ASSUME NEW spec \in Builders
  PROVE  /\ Build(spec).fields = FlattenSeq(Parts(spec))
         /\ Build(spec).head = Size(Parts(spec)) /\ Build(spec).head \in Nat
         /\ Build(spec).len \in Nat /\ Build(spec).head <= Build(spec).len
         /\ AlignUp(Build(spec).head, spec.alignment) \in Nat
         /\ Build(spec).data =
              [i \in 1..Len(spec.tensors) |->
                 [at |-> AlignUp(Build(spec).head, spec.alignment) + OffsetsOf(spec)[i],
                  w |-> spec.tensors[i].data, v |-> spec.tensors[i].name]]
<1>0. PICK nt \in Nat, head \in Nat, a \in Nat \ {0} :
        nt = Len(spec.tensors) /\ head = Size(Parts(spec)) /\ a = spec.alignment
  BY BuilderIs, IndexEndIs
<1>1. PICK o : /\ nt = Len(spec.tensors) /\ head = Size(Parts(spec)) /\ a = spec.alignment
               /\ o = OffsetsOf(spec)
  BY <1>0
<1>2. PICK start : start = AlignUp(head, a) /\ start \in Nat /\ head <= start
  BY AlignUpIs
<1>3. Build(spec) =
        [fields |-> FlattenSeq(Parts(spec)), head |-> head,
         data |-> [i \in 1..nt |-> [at |-> start + o[i], w |-> spec.tensors[i].data,
                                    v |-> spec.tensors[i].name]],
         len |-> IF nt = 0 THEN head ELSE start + o[nt] + spec.tensors[nt].data]
  <2>1. DataStart(IndexEnd(spec), spec.alignment) = start
    BY <1>1, <1>2, IndexEndIs DEF DataStart
  <2> QED
    BY <1>1, <2>1, Zenon DEF Build, Parts, OffsetsOf
<1>4. /\ Build(spec).fields = FlattenSeq(Parts(spec)) /\ Build(spec).head = head
      /\ Build(spec).data = [i \in 1..nt |-> [at |-> start + o[i], w |-> spec.tensors[i].data,
                                              v |-> spec.tensors[i].name]]
      /\ Build(spec).len = IF nt = 0 THEN head ELSE start + o[nt] + spec.tensors[nt].data
  <2>1. PICK x, d, l : /\ x = FlattenSeq(Parts(spec))
                       /\ d = [i \in 1..nt |-> [at |-> start + o[i], w |-> spec.tensors[i].data,
                                                v |-> spec.tensors[i].name]]
                       /\ l = IF nt = 0 THEN head ELSE start + o[nt] + spec.tensors[nt].data
    BY Zenon
  <2>2. Build(spec) = [fields |-> x, head |-> head, data |-> d, len |-> l]
    BY <1>3, <2>1, Zenon
  <2>3. /\ Build(spec).fields = x /\ Build(spec).head = head /\ Build(spec).data = d
        /\ Build(spec).len = l
    BY <2>2
  <2> QED
    BY <2>1, <2>3, Zenon
<1>5. Build(spec).len \in Nat /\ head <= Build(spec).len
  <2>1. CASE nt = 0
    BY <1>4, <2>1
  <2>2. CASE nt # 0
    <3>1. nt \in 1..nt
      BY <2>2
    <3>2. o[nt] \in Nat /\ spec.tensors[nt].data \in Nat
      BY <1>1, <3>1, IndexParts, TensorIs DEF IndexAre
    <3>3. Build(spec).len = start + o[nt] + spec.tensors[nt].data
      BY <1>4, <2>2
    <3> QED
      BY <1>2, <3>2, <3>3
  <2> QED
    BY <2>1, <2>2
<1> QED
  BY <1>1, <1>2, <1>4, <1>5

LEMMA CutIs ==
  ASSUME NEW spec \in Builders, NEW n \in Nat, NEW file, file = Cut(Build(spec), n)
  PROVE  /\ file.fields = FlattenSeq(Parts(spec)) /\ file.head = Build(spec).head
         /\ file.data = Build(spec).data /\ file.len = IF n < Build(spec).len THEN n ELSE Build(spec).len
         /\ file.len \in Nat /\ FileType(file)
         /\ Pos(file, Len(file.fields) + 1) = file.head
         /\ file.head <= file.len <=> file.head <= n
<1>1. /\ file.fields = Build(spec).fields /\ file.head = Build(spec).head
      /\ file.data = Build(spec).data
      /\ file.len = IF n < Build(spec).len THEN n ELSE Build(spec).len
  <2>1. \E f, h, d, l : Build(spec) = [fields |-> f, head |-> h, data |-> d, len |-> l]
    BY Zenon DEF Build
  <2>2. PICK f, h, d, l : Build(spec) = [fields |-> f, head |-> h, data |-> d, len |-> l]
    BY <2>1
  <2>3. Cut(Build(spec), n) = [fields |-> f, head |-> h, data |-> d,
                               len |-> IF n < l THEN n ELSE l]
    BY <2>2 DEF Cut
  <2> QED
    BY <2>2, <2>3
<1>2. file.fields \in Seq(Cell)
  BY <1>1, BuiltIs, AllParts, FlattenType DEF PartsAre
<1>3. file.len \in Nat
  BY <1>1, BuiltIs
<1>4. Pos(file, Len(file.fields) + 1) = file.head
  <2>1. Total(FlattenSeq(Parts(spec))) = Size(Parts(spec))
    BY AllParts, TotalFlatten DEF PartsAre
  <2> QED
    BY <1>1, <2>1, BuiltIs DEF Pos, Total
<1>5. file.head <= file.len <=> file.head <= n
  <2>1. PICK h \in Nat, l \in Nat : h = file.head /\ l = Build(spec).len /\ h <= l
    BY <1>1, BuiltIs
  <2>2. file.len = IF n < l THEN n ELSE l
    BY <1>1, <2>1
  <2> QED
    BY <2>1, <2>2
<1> QED
  BY <1>1, <1>2, <1>3, <1>4, <1>5, BuiltIs DEF FileType

\* What is read of a whole file: its index, its alignment, and whether every
\* alignment it declares is one.
Infos(spec) == [i \in 1..Len(spec.tensors) |-> Info(spec.tensors[i], OffsetsOf(spec)[i])]

AlignmentOf(metadata) ==
  IF "general.alignment" \in DOMAIN metadata THEN metadata["general.alignment"].v
  ELSE DEFAULT_ALIGNMENT

AllGood(spec) == \A i \in 1..Len(spec.metadata) : GoodEntry(spec.metadata[i])

\* What Gguf::open makes of what GgufBuilder::build wrote, or of a beginning of
\* it (mod.rs, writer.rs): all that was written before the data, or an error if
\* some of that is cut off or a declared alignment is none.
THEOREM ParseGives ==
  ASSUME NEW spec \in Builders, NEW n \in Nat, NEW file, file = Cut(Build(spec), n)
  PROVE  IF AllGood(spec) /\ file.head <= file.len
         THEN Parse(file) = [err |-> "Ok", metadata |-> ToMap(spec.metadata),
                             tensors |-> Infos(spec), len |-> file.len,
                             alignment |-> AlignmentOf(ToMap(spec.metadata)),
                             data_offset |-> AlignUp(file.head, AlignmentOf(ToMap(spec.metadata)))]
         ELSE Parse(file).err # "Ok"
<1>0. PICK nk \in Nat, nt \in Nat, l \in Nat :
        nk = Len(spec.metadata) /\ nt = Len(spec.tensors) /\ l = Len(file.fields)
  BY BuilderIs, CutIs, AtType
<1>1. PICK pieces, o :
        /\ nk = Len(spec.metadata) /\ nt = Len(spec.tensors) /\ l = Len(file.fields)
        /\ pieces = Parts(spec) /\ o = OffsetsOf(spec)
  BY <1>0
<1>2. FileType(file) /\ file.fields = FlattenSeq(pieces) /\ Pos(file, l + 1) = file.head
      /\ file.len \in Nat
  BY <1>1, CutIs
<1>3. /\ pieces \in Seq(Seq(Cell)) /\ Len(pieces) = (1 + nk) + nt
      /\ pieces[1] = Header(nt, nk)
      /\ \A i \in 1..nk : pieces[1 + i] = WriteEntry(spec.metadata[i])
      /\ \A i \in 1..nt : pieces[(1 + nk) + i] = WriteInfo(spec.tensors[i], o[i])
  BY <1>1, AllParts DEF PartsAre
<1>4. Occurs(file, 1, FlattenSeq(pieces))
  <2>1. 1 + l <= l + 1 /\ \A j \in 1..l : file.fields[1 + j - 1] = file.fields[j]
    <3>1. \A j \in 1..l : 1 + j - 1 = j
      OBVIOUS
    <3> QED
      BY <3>1
  <2>2. 1 \in Nat \ {0}
    OBVIOUS
  <2> QED
    BY <1>1, <1>2, <2>1, <2>2 DEF Occurs
<1>5. PICK e : PartEnds(e, file, 1, pieces)
  BY <1>2, <1>3, <1>4, PartsOccur
<1>6. PICK m \in Nat : m = (1 + nk) + nt
  OBVIOUS
<1>7. /\ e[0] = 1 /\ e[m] = 1 + l
      /\ \A i \in 0..m : e[i] \in 1..(l + 1)
      /\ \A i \in 1..m : /\ e[i - 1] <= e[i] /\ e[i] = e[i - 1] + Len(pieces[i])
                         /\ Occurs(file, e[i - 1], pieces[i])
  BY <1>1, <1>2, <1>3, <1>5, <1>6 DEF PartEnds
<1>8. PICK header, entries, index : /\ header = ReadHeader(file)
                                    /\ entries = ReadMetadata(file, header, header.v[2])
                                    /\ index = ReadIndex(file, entries, header.v[1])
  OBVIOUS
<1>9. Gives(file, e[1], <<nt, nk>>, TRUE, header)
  <2>1. 1 \in 1..m /\ 1 - 1 = 0
    BY <1>6
  <2>2. Occurs(file, e[0], pieces[1]) /\ e[1] = e[0] + Len(pieces[1])
    BY <1>7, <2>1
  <2>3. Occurs(file, 1, Header(nt, nk)) /\ e[1] = 5
    <3>2. e[0] = 1 /\ pieces[1] = Header(nt, nk)
      BY <1>3, <1>7
    <3>1. Len(pieces[1]) = 4
      <4>1. Len(Header(nt, nk)) = 4
        BY HeaderCells
      <4> QED
        BY <3>2, <4>1, Zenon
    <3> QED
      BY <2>2, <3>1, <3>2
  <2>4. Gives(file, 5, <<nt, nk>>, TRUE, header)
    BY <1>2, <1>8, <2>3, HeaderReadsBack
  <2> QED
    BY <2>3, <2>4
<1>10. header.err = "Ok" => header.v[1] = nt /\ header.v[2] = nk
  <2>1. header.err = "Ok" => header = Stands(file, e[1], <<nt, nk>>)
    BY <1>9, Given
  <2>2. header.err = "Ok" => header.v = <<nt, nk>>
    BY <2>1 DEF Stands
  <2>3. <<nt, nk>>[1] = nt /\ <<nt, nk>>[2] = nk
    OBVIOUS
  <2> QED
    BY <2>2, <2>3
<1> DEFINE Good == {i \in 1..nk : GoodEntry(spec.metadata[i])}
           eK == [i \in 0..nk |-> e[1 + i]]
           eT == [i \in 0..nt |-> e[(1 + nk) + i]]
<1>11. ASSUME NEW i \in 0..nk
       PROVE  eK[i] = e[1 + i] /\ 1 + i \in 0..m
  BY <1>6
<1>12. ASSUME NEW i \in 1..nk
       PROVE  /\ eK[i - 1] = e[(1 + i) - 1] /\ eK[i] = e[1 + i] /\ 1 + i \in 1..m
              /\ eK[i - 1] <= eK[i]
  <2>1. i - 1 \in 0..nk /\ i \in 0..nk /\ 1 + (i - 1) = (1 + i) - 1 /\ 1 + i \in 1..m
    BY <1>6
  <2> QED
    BY <1>7, <2>1
<1>13. ASSUME NEW i \in 0..nt
       PROVE  eT[i] = e[(1 + nk) + i] /\ (1 + nk) + i \in 0..m
  BY <1>6
<1>14. ASSUME NEW i \in 1..nt
       PROVE  /\ eT[i - 1] = e[((1 + nk) + i) - 1] /\ eT[i] = e[(1 + nk) + i]
              /\ (1 + nk) + i \in 1..m /\ eT[i - 1] <= eT[i]
  <2>1. i - 1 \in 0..nt /\ i \in 0..nt /\ (1 + nk) + (i - 1) = ((1 + nk) + i) - 1
        /\ (1 + nk) + i \in 1..m
    BY <1>6
  <2> QED
    BY <1>7, <2>1
<1>15. eK[0] = e[1] /\ eT[0] = eK[nk] /\ eT[nt] = e[m]
  <2>1. 0 \in 0..nk /\ nk \in 0..nk /\ 0 \in 0..nt /\ nt \in 0..nt
        /\ 1 + 0 = 1 /\ (1 + nk) + 0 = 1 + nk
    OBVIOUS
  <2>2. eK[0] = e[1 + 0] /\ eK[nk] = e[1 + nk] /\ eT[0] = e[(1 + nk) + 0]
        /\ eT[nt] = e[(1 + nk) + nt]
    BY <2>1
  <2> QED
    BY <1>6, <2>1, <2>2
<1>16. \A i \in 1..nk : i \in Good <=> GoodEntry(spec.metadata[i])
  OBVIOUS
<1> HIDE DEF Good, eK, eT
<1>17. Gives(file, eK[nk], spec.metadata, TRUE /\ \A i \in 1..nk : i \in Good, entries)
  <2>1. PICK one : one = [c \in Cursor |-> ReadEntry(file, From(c))]
    OBVIOUS
  <2>2. ASSUME NEW i \in 1..nk, Pos(file, eK[i - 1]) <= file.len
        PROVE  Gives(file, eK[i], spec.metadata[i], i \in Good, one[Place(file, eK[i - 1])])
    <3>1. PICK q, kv : q = eK[i - 1] /\ kv = spec.metadata[i]
      OBVIOUS
    <3>2. kv \in EntryType
      BY <1>1, <3>1, BuilderIs, ElementOfSeq
    <3>3. /\ Occurs(file, q, WriteEntry(kv)) /\ eK[i] = q + Len(WriteEntry(kv))
          /\ q \in 1..(l + 1)
      <4>1. 1 + i \in 1..m /\ (1 + i) - 1 \in 0..m
        BY <1>12
      <4>2. pieces[1 + i] = WriteEntry(kv)
        BY <1>3, <3>1
      <4> QED
        BY <1>7, <1>12, <3>1, <4>1, <4>2
    <3>4. one[Place(file, q)] = ReadEntry(file, From(Place(file, q)))
      <4>1. Place(file, q) \in Cursor
        BY <1>1, <1>2, <3>3, PlaceType
      <4> QED
        BY <2>1, <4>1
    <3>5. Gives(file, eK[i], kv, GoodEntry(kv), one[Place(file, q)])
      BY <1>2, <2>2, <3>1, <3>2, <3>3, <3>4, EntryReadsBack
    <3>6. GoodEntry(kv) <=> i \in Good
      BY <1>16, <3>1
    <3>7. Gives(file, eK[i], kv, i \in Good, one[Place(file, q)])
      BY <3>5, <3>6, GivesSame
    <3> QED
      BY <3>1, <3>7
  <2>3. entries = ReadMany(one, header, header.v[2])
    BY <1>8, <2>1 DEF ReadMetadata
  <2>4. \A i \in 0..nk : eK[i] \in 1..(Len(file.fields) + 1)
    BY <1>1, <1>7, <1>11
  <2>5. \A i \in 1..nk : eK[i - 1] <= eK[i]
    BY <1>12
  <2>6. Gives(file, eK[0], <<nt, nk>>, TRUE, header)
    BY <1>9, <1>15
  <2>7. header.err = "Ok" => header.v[2] = nk
    BY <1>10
  <2>8. spec.metadata \in Seq(EntryType) /\ nk = Len(spec.metadata)
    BY <1>1, BuilderIs
  <2>9. PICK X, y, count : X = spec.metadata /\ y = <<nt, nk>> /\ count = header.v[2]
    OBVIOUS
  <2>a. FileType(file) /\ X \in Seq(EntryType) /\ nk = Len(X)
    BY <1>2, <2>8, <2>9
  <2>b. \A i \in 1..nk : Pos(file, eK[i - 1]) <= file.len =>
          Gives(file, eK[i], X[i], i \in Good, one[Place(file, eK[i - 1])])
    BY <2>2, <2>9
  <2>c. Gives(file, eK[0], y, TRUE, header) /\ (header.err = "Ok" => count = nk)
    BY <2>6, <2>7, <2>9
  <2>d. Gives(file, eK[nk], X, TRUE /\ \A i \in 1..nk : i \in Good, ReadMany(one, header, count))
    BY <2>4, <2>5, <2>a, <2>b, <2>c, ReadManyGives
  <2> QED
    BY <2>3, <2>9, <2>d
<1>18. (TRUE /\ \A i \in 1..nk : i \in Good) <=> AllGood(spec)
  BY <1>1, <1>16 DEF AllGood
<1>19. Gives(file, eK[nk], spec.metadata, AllGood(spec), entries)
  BY <1>17, <1>18, GivesSame
<1>20. entries.err = "Ok" => header.err = "Ok"
  BY <1>8 DEF ReadMetadata, ReadMany
<1>21. index.err = "Ok" => entries.err = "Ok"
  BY <1>8 DEF ReadIndex, ReadMany
<1> DEFINE ReadInfos(x) == /\ x = Infos(spec) /\ Len(x) = nt
                           /\ \A i \in 1..nt : x[i] = Info(spec.tensors[i], o[i])
                           /\ x \in Seq({x[j] : j \in 1..nt})
<1>22. PICK infos : ReadInfos(infos)
  <2> DEFINE f == [i \in 1..nt |-> Info(spec.tensors[i], o[i])]
  <2>1. f = Infos(spec)
    BY <1>1 DEF Infos
  <2>2. f = [i \in 1..nt |-> f[i]] /\ \A i \in 1..nt : f[i] = Info(spec.tensors[i], o[i])
    OBVIOUS
  <2> HIDE DEF f
  <2>3. \A i \in 1..nt : f[i] \in {f[j] : j \in 1..nt}
    OBVIOUS
  <2>4. f \in Seq({f[i] : i \in 1..nt}) /\ Len(f) = nt
    BY <2>2, <2>3, Listed
  <2>5. ReadInfos(f)
    BY <2>1, <2>2, <2>4
  <2> HIDE DEF ReadInfos
  <2> QED
    BY <2>5
<1>23. ASSUME AllGood(spec)
       PROVE  Gives(file, eT[nt], infos, TRUE /\ \A i \in 1..nt : i \in Nat, index)
  <2>1. PICK one : one = [c \in Cursor |-> ReadInfo(file, From(c))]
    OBVIOUS
  <2>2. ASSUME NEW i \in 1..nt, Pos(file, eT[i - 1]) <= file.len
        PROVE  Gives(file, eT[i], infos[i], i \in Nat, one[Place(file, eT[i - 1])])
    <3>1. PICK q, t : q = eT[i - 1] /\ t = spec.tensors[i]
      OBVIOUS
    <3>2. t \in TensorType /\ o[i] \in Nat
      BY <1>1, <3>1, IndexParts DEF IndexAre
    <3>3. /\ Occurs(file, q, WriteInfo(t, o[i])) /\ eT[i] = q + Len(WriteInfo(t, o[i]))
          /\ q \in 1..(l + 1)
      <4>1. (1 + nk) + i \in 1..m /\ ((1 + nk) + i) - 1 \in 0..m
        BY <1>14
      <4>2. pieces[(1 + nk) + i] = WriteInfo(t, o[i])
        BY <1>3, <3>1
      <4> QED
        BY <1>7, <1>14, <3>1, <4>1, <4>2
    <3>4. one[Place(file, q)] = ReadInfo(file, From(Place(file, q)))
      <4>1. Place(file, q) \in Cursor
        BY <1>1, <1>2, <3>3, PlaceType
      <4> QED
        BY <2>1, <4>1
    <3>5. Gives(file, eT[i], Info(t, o[i]), TRUE, one[Place(file, q)])
      BY <1>2, <2>2, <3>1, <3>2, <3>3, <3>4, InfoReadsBack
    <3>6. TRUE <=> i \in Nat
      OBVIOUS
    <3>7. Gives(file, eT[i], Info(t, o[i]), i \in Nat, one[Place(file, q)])
      BY <3>5, <3>6, GivesSame
    <3> QED
      BY <1>22, <3>1, <3>7
  <2>3. index = ReadMany(one, entries, header.v[1])
    BY <1>8, <2>1 DEF ReadIndex
  <2>4. \A i \in 0..nt : eT[i] \in 1..(Len(file.fields) + 1)
    BY <1>1, <1>7, <1>13
  <2>5. \A i \in 1..nt : eT[i - 1] <= eT[i]
    BY <1>14
  <2>6. Gives(file, eT[0], spec.metadata, TRUE, entries)
    <3>1. AllGood(spec) <=> TRUE
      BY <1>23
    <3>2. Gives(file, eK[nk], spec.metadata, TRUE, entries)
      BY <1>19, <3>1, GivesSame
    <3> QED
      BY <1>15, <3>2
  <2>7. entries.err = "Ok" => header.v[1] = nt
    BY <1>10, <1>20
  <2>8. PICK y, count, V : /\ y = spec.metadata /\ count = header.v[1]
                           /\ V = {infos[i] : i \in 1..nt}
    OBVIOUS
  <2>a. FileType(file) /\ infos \in Seq(V) /\ nt = Len(infos)
    <3>1. infos \in Seq({infos[j] : j \in 1..nt}) /\ Len(infos) = nt
      BY <1>22, Zenon DEF ReadInfos
    <3> QED
      BY <1>2, <2>8, <3>1
  <2>b. \A i \in 1..nt : Pos(file, eT[i - 1]) <= file.len =>
          Gives(file, eT[i], infos[i], i \in Nat, one[Place(file, eT[i - 1])])
    BY <2>2
  <2>c. Gives(file, eT[0], y, TRUE, entries) /\ (entries.err = "Ok" => count = nt)
    BY <2>6, <2>7, <2>8
  <2>d. Gives(file, eT[nt], infos, TRUE /\ \A i \in 1..nt : i \in Nat,
              ReadMany(one, entries, count))
    BY <2>4, <2>5, <2>a, <2>b, <2>c, ReadManyGives
  <2> QED
    BY <2>3, <2>8, <2>d
<1>24. Gives(file, l + 1, infos, AllGood(spec), index)
  <2>1. CASE AllGood(spec)
    <3>1. (TRUE /\ \A i \in 1..nt : i \in Nat) <=> AllGood(spec)
      BY <2>1
    <3>2. eT[nt] = l + 1
      BY <1>7, <1>15
    <3>3. Gives(file, eT[nt], infos, AllGood(spec), index)
      BY <1>23, <2>1, <3>1, GivesSame
    <3> QED
      BY <3>2, <3>3
  <2>2. CASE ~AllGood(spec)
    <3>1. entries.err # "Ok"
      BY <1>19, <2>2, Zenon DEF Gives
    <3>2. index.err # "Ok"
      BY <1>21, <3>1
    <3> QED
      BY <2>2, <3>2, Zenon DEF Gives
  <2> QED
    BY <2>1, <2>2
<1>25. Parse(file) = IF index.err # "Ok" THEN Fail(index.err)
         ELSE [err |-> "Ok", metadata |-> ToMap(entries.v), tensors |-> index.v, len |-> file.len,
               alignment |-> AlignmentOf(ToMap(entries.v)),
               data_offset |-> AlignUp(index.pos, AlignmentOf(ToMap(entries.v)))]
  BY <1>8, Zenon DEF Parse, Assembled, AlignmentOf
<1>26. CASE index.err # "Ok"
  <2>1. ~(AllGood(spec) /\ Pos(file, l + 1) <= file.len)
    BY <1>24, <1>26, NotGiven
  <2>2. Parse(file).err # "Ok"
    BY <1>25, <1>26 DEF Fail
  <2> QED
    BY <1>2, <2>1, <2>2, Zenon
<1>27. CASE index.err = "Ok"
  <2>1. AllGood(spec) /\ Pos(file, l + 1) <= file.len /\ index = Stands(file, l + 1, infos)
    BY <1>24, <1>27, Zenon DEF Gives
  <2>2. entries = Stands(file, eK[nk], spec.metadata)
    BY <1>19, <1>21, <1>27, Given
  <2>3. entries.v = spec.metadata /\ index.v = infos /\ index.pos = file.head
    BY <1>2, <2>1, <2>2 DEF Stands
  <2> QED
    BY <1>2, <1>22, <1>25, <1>27, <2>1, <2>3, Zenon
<1> QED
  BY <1>26, <1>27

-----------------------------------------------------------------------------
(* What a file is read as has its type.                                    *)

LEMMA ToMapIs ==
  ASSUME NEW s \in Seq(EntryType), NEW key \in DOMAIN ToMap(s)
  PROVE  \E i \in 1..Len(s) : s[i].key = key /\ ToMap(s)[key] = s[i].value
<1>1. PICK n \in Nat : n = Len(s) /\ DOMAIN s = 1..n
  BY LenProperties
<1> DEFINE I == {i \in 1..Len(s) : s[i].key = key}
           h == SelectLastInSeq(s, LAMBDA e : e.key = key)
<1>2. key \in {s[i].key : i \in 1..n} /\ ToMap(s)[key] = s[h].value
  BY <1>1 DEF ToMap
<1>3. h = IF I # {} THEN Max(I) ELSE 0
  BY DEF SelectLastInSeq
<1>4. I # {} /\ I \subseteq 0..n
  BY <1>1, <1>2
<1> HIDE DEF h
<1>5. h \in I
  <2> HIDE DEF I
  <2> QED
    BY <1>3, <1>4, MaxOfSet
<1> QED
  BY <1>1, <1>2, <1>5

\* Values that widen to 32 bits are no negative numbers.
LEMMA U32Is ==
  ASSUME NEW n \in 0..Nesting, NEW x \in Values[n], IsU32(x)
  PROVE  x.v \in Nat
<1>1. n \in 1..Nesting
  <2>1. n = 0 \/ n \in 1..Nesting
    BY NestingAssumption
  <2> QED
    BY <2>1, ValuesAre
<1>2. x \in Scalars \/ x \in Arrays(Values[n - 1])
  BY <1>1, ValuesAre
<1>3. CASE x \in Arrays(Values[n - 1])
  <2>1. x.type = "Array"
    BY <1>3, ArrayIs
  <2> QED
    BY <2>1 DEF IsU32
<1>4. CASE x \in Scalars
  <2>1. CASE x \in [type : {"U8", "U16", "U32", "U64"}, v : Nat]
    BY <2>1
  <2>2. CASE x \in [type : {"I8", "I16", "I32", "I64", "F32", "F64"}, v : Int]
    <3>1. x.type \in {"I8", "I16", "I32", "I64", "F32", "F64"} /\ x.v \in Int
      BY <2>2
    <3>2. x.v >= 0
      BY <3>1 DEF IsU32
    <3> QED
      BY <3>1, <3>2
  <2>3. CASE x \in [type : {"Bool"}, v : BOOLEAN]
    BY <2>3 DEF IsU32
  <2>4. CASE x \in [type : {"String"}, v : Str]
    BY <2>4 DEF IsU32
  <2> QED
    BY <1>4, <2>1, <2>2, <2>3, <2>4 DEF Scalars
<1> QED
  BY <1>2, <1>3, <1>4

LEMMA MetadataType ==
  ASSUME NEW spec \in Builders, NEW key \in DOMAIN ToMap(spec.metadata),
         IsU32(ToMap(spec.metadata)[key])
  PROVE  ToMap(spec.metadata)[key].v \in Nat
<1>1. spec.metadata \in Seq(EntryType)
  BY BuilderIs
<1>2. PICK i \in 1..Len(spec.metadata) : ToMap(spec.metadata)[key] = spec.metadata[i].value
  BY <1>1, ToMapIs
<1>3. spec.metadata[i].value \in Values[Nesting]
  <2>1. spec.metadata[i] \in EntryType
    BY <1>1, ElementOfSeq
  <2> QED
    BY <2>1 DEF EntryType
<1>4. Nesting \in 0..Nesting
  BY NestingAssumption
<1> QED
  BY <1>2, <1>3, <1>4, U32Is

LEMMA AlignmentIs ==
  ASSUME NEW spec \in Builders, AllGood(spec)
  PROVE  AlignmentOf(ToMap(spec.metadata)) \in Nat \ {0}
<1>1. CASE "general.alignment" \notin DOMAIN ToMap(spec.metadata)
  BY <1>1 DEF AlignmentOf, DEFAULT_ALIGNMENT
<1>2. CASE "general.alignment" \in DOMAIN ToMap(spec.metadata)
  <2>1. PICK key : key = "general.alignment"
    OBVIOUS
  <2>2. PICK i \in 1..Len(spec.metadata) :
          spec.metadata[i].key = key /\ ToMap(spec.metadata)[key] = spec.metadata[i].value
    BY <1>2, <2>1, BuilderIs, ToMapIs
  <2>3. IsAlignment(ToMap(spec.metadata)[key])
    BY <2>1, <2>2 DEF AllGood, GoodEntry
  <2>4. IsU32(ToMap(spec.metadata)[key]) /\ ToMap(spec.metadata)[key].v # 0
    BY <2>3 DEF IsAlignment, IsU32
  <2>5. ToMap(spec.metadata)[key].v \in Nat
    BY <1>2, <2>1, <2>4, MetadataType
  <2> QED
    BY <1>2, <2>1, <2>4, <2>5 DEF AlignmentOf
<1> QED
  BY <1>1, <1>2

LEMMA InfosAre ==
  ASSUME NEW spec \in Builders
  PROVE  /\ Infos(spec) \in Seq(TensorMeta) /\ Len(Infos(spec)) = Len(spec.tensors)
         /\ \A i \in 1..Len(spec.tensors) :
              Infos(spec)[i] = Info(spec.tensors[i], OffsetsOf(spec)[i])
<1>1. PICK nt \in Nat : nt = Len(spec.tensors)
  BY BuilderIs
<1> DEFINE f == [i \in 1..nt |-> Info(spec.tensors[i], OffsetsOf(spec)[i])]
<1>2. Infos(spec) = f
  BY <1>1 DEF Infos
<1>3. f = [i \in 1..nt |-> f[i]]
      /\ \A i \in 1..nt : f[i] = Info(spec.tensors[i], OffsetsOf(spec)[i])
  OBVIOUS
<1> HIDE DEF f
<1>4. ASSUME NEW i \in 1..nt
      PROVE  f[i] \in TensorMeta
  <2>1. PICK t, o : t = spec.tensors[i] /\ o = OffsetsOf(spec)[i]
    OBVIOUS
  <2>2. t \in TensorType /\ o \in Nat
    BY <1>1, <2>1, IndexParts DEF IndexAre
  <2>3. Info(t, o) \in TensorMeta
    BY <2>2, TensorIs DEF Info, TensorMeta
  <2> QED
    BY <1>3, <2>1, <2>3
<1> QED
  BY <1>1, <1>2, <1>3, <1>4, Listed

\* At the offset of a tensor with data the file has that data and no other.
LEMMA DataThere ==
  ASSUME NEW spec \in Builders, NEW n \in Nat, NEW file, file = Cut(Build(spec), n),
         NEW i \in 1..Len(spec.tensors), spec.tensors[i].data > 0, NEW start,
         start = AlignUp(file.head, spec.alignment) + OffsetsOf(spec)[i],
         start + spec.tensors[i].data <= file.len
  PROVE  Contents(file, start, spec.tensors[i].data) = spec.tensors[i].name
<1>a. PICK nt, s, o, a, from, ts :
        /\ nt = Len(spec.tensors) /\ ts = spec.tensors /\ o = OffsetsOf(spec)
        /\ a = spec.alignment /\ from = AlignUp(file.head, a) /\ s = spec.tensors[i].data
  OBVIOUS
<1>b. nt \in Nat /\ a \in Nat \ {0}
  BY <1>a, BuilderIs
<1>c. from \in Nat
  <2>1. file.head = Build(spec).head
    BY CutIs
  <2> QED
    BY <1>a, <2>1, BuiltIs
<1>1. /\ nt = Len(spec.tensors) /\ ts = spec.tensors /\ o = OffsetsOf(spec)
      /\ a = spec.alignment /\ from = AlignUp(file.head, a) /\ s = spec.tensors[i].data
      /\ nt \in Nat /\ a \in Nat \ {0} /\ from \in Nat
  BY <1>a, <1>b, <1>c
<1>2. \A j \in 1..nt : o[j] \in Nat /\ ts[j].data \in Nat
  BY <1>1, IndexParts, TensorIs DEF IndexAre
<1>3. \A j \in 1..nt : \A k \in 1..nt : k < j => o[k] + ts[k].data <= o[j]
  BY <1>1, BuilderIs, OffsetsApart DEF OffsetsOf
<1>4. file.data = [j \in 1..nt |-> [at |-> from + o[j], w |-> ts[j].data, v |-> ts[j].name]]
  <2>1. file.data = Build(spec).data /\ file.head = Build(spec).head
    BY CutIs
  <2> QED
    BY <1>1, <2>1, BuiltIs
<1>5. DOMAIN file.data = 1..nt
      /\ \A j \in 1..nt : /\ file.data[j].at = from + o[j] /\ file.data[j].w = ts[j].data
                          /\ file.data[j].v = ts[j].name
  BY <1>4
<1> DEFINE there == {j \in DOMAIN file.data : file.data[j].at = start /\ file.data[j].w = s}
<1>6. there = {i}
  <2>1. i \in there
    BY <1>1, <1>5
  <2>2. ASSUME NEW j \in there
        PROVE  j = i
    <3>1. j \in 1..nt /\ i \in 1..nt /\ from + o[j] = from + o[i] /\ ts[j].data = s /\ ts[i].data = s
      BY <1>1, <1>5
    <3>2. o[j] \in Nat /\ o[i] \in Nat /\ s \in Nat /\ s > 0
      BY <1>1, <1>2, <3>1
    <3>3. o[j] = o[i]
      <4>1. PICK x \in Nat, y \in Nat : x = o[j] /\ y = o[i]
        BY <3>2
      <4>2. from + x = from + y /\ from \in Nat
        BY <1>1, <3>1, <4>1
      <4>3. x = y
        BY <4>2
      <4> QED
        BY <4>1, <4>3
    <3>4. ~(j < i) /\ ~(i < j)
      <4>1. j < i => o[j] + s <= o[i]
        BY <1>3, <3>1
      <4>2. i < j => o[i] + s <= o[j]
        BY <1>3, <3>1
      <4> QED
        BY <3>2, <3>3, <4>1, <4>2
    <3> QED
      BY <3>1, <3>4
  <2> QED
    BY <2>1, <2>2
<1>7. (CHOOSE j \in there : TRUE) = i
  <2> HIDE DEF there
  <2> QED
    BY <1>6
<1>8. Contents(file, start, s) = file.data[CHOOSE j \in there : TRUE].v
  BY <1>1, <1>6 DEF Contents
<1> QED
  BY <1>1, <1>5, <1>7, <1>8

-----------------------------------------------------------------------------
(* The inductive invariant.                                                *)

\* What a disk may hold.
Installed == {Filled(d) : d \in Disks}

\* A file that could be opened.
Opened == {[path |-> p, gguf |-> Open(p)] : p \in {q \in FileName : Open(q).err = "Ok"}}

\* The siblings were counted in the first file.
SiblingNames ==
  /\ paths \in Seq(FileName)
  /\ pc = "probe" => paths = <<>>
  /\ pc \in {"open", "index", "ready", "loaded", "panic"} => paths # <<>>
  /\ Len(paths) > 1 => \A i \in DOMAIN paths : paths[i].idx = i /\ paths[i].of = Len(paths)
  /\ Len(paths) = 1 => /\ paths[1] = disk.first
                       /\ ~(SplitCount(Open(disk.first).metadata) > 1)

ShardsOpen ==
  /\ shards \in Seq(Opened)
  /\ Len(shards) <= Len(paths)
  /\ \A i \in DOMAIN shards : shards[i].path = paths[i]
  /\ pc \in {"index", "ready", "loaded", "panic"} => Len(shards) = Len(paths)

ReadOnce == FromMetadata(ConfigShard.gguf.metadata, disk.debug)

Configured ==
  /\ pc \in {"probe", "open"} => cfg = <<>>
  /\ pc \in {"index", "ready", "loaded"} => cfg # <<>>
  /\ cfg # <<>> => /\ SelectInSeq(shards, DeclaresArchitecture) # 0
                   /\ ReadOnce.err = "Ok" /\ cfg = ReadOnce.c
  /\ pc = "panic" /\ cfg = <<>> => /\ SelectInSeq(shards, DeclaresArchitecture) # 0
                                   /\ ReadOnce.err = "panic"

\* Every listed tensor has an entry, one that fits if there is such a one.
Lists(map) ==
  /\ DOMAIN map = UNION {{t.name : t \in ToSet(shards[k].gguf.tensors)} : k \in DOMAIN shards}
  /\ \A name \in DOMAIN map :
       /\ map[name] \in Listings(name)
       /\ Fitting(name) # {} => map[name] \in Fitting(name)

Indexed ==
  /\ pc \in {"probe", "open", "index"} => by_name = <<>>
  /\ pc \in {"ready", "loaded"} \/ error.kind = "Load" => Lists(by_name)
  /\ by_name = <<>> \/ Lists(by_name)

Loadable == \A name \in Needed : name \in DOMAIN by_name /\ SizedHere(name)

Taken ==
  /\ pc = "loaded" => Loadable /\ weights = [name \in Needed |-> Raw(name)]
  /\ pc \notin {"loaded", "panic"} => weights = <<>>
  /\ error.kind = "Load" => ~Loadable /\ cfg # <<>> /\ Len(shards) = Len(paths)
  /\ pc \in {"probe", "open", "index"} => got = <<>>

LoaderInv ==
  /\ disk \in Installed
  /\ pc \in {"probe", "open", "config", "index", "ready", "loaded", "error", "panic"}
  /\ pc = "error" <=> error.kind # ""
  /\ SiblingNames /\ ShardsOpen /\ Configured /\ Indexed /\ Taken /\ MissingNowhereElse

-----------------------------------------------------------------------------
(* Opened files.                                                           *)

LEMMA InstalledIs ==
  ASSUME disk \in Installed
  PROVE  /\ disk.first \in FileName
         /\ \A path \in DOMAIN disk.files :
              /\ Written(path) \in Builders /\ disk.cut[path] \in Nat
              /\ OnDisk(path) = Cut(Build(Written(path)), disk.cut[path])
<1>1. PICK d \in Disks : disk = Filled(d)
  BY DEF Installed
<1>2. PICK bytes : bytes = [path \in DOMAIN d.files |-> Cut(Build(d.files[path]), d.cut[path])]
  OBVIOUS
<1>3. disk = [files |-> d.files, cut |-> d.cut, first |-> d.first, debug |-> d.debug,
              bytes |-> bytes]
  BY <1>1, <1>2, Zenon DEF Filled
<1>4. /\ disk.files = d.files /\ disk.cut = d.cut /\ disk.first = d.first
      /\ disk.bytes = bytes
  BY <1>3
<1>5. \A path \in DOMAIN d.files : d.files[path] \in Builders /\ d.cut[path] \in Nat
  BY DisksAssumption
<1>6. \A path \in DOMAIN d.files : bytes[path] = Cut(Build(d.files[path]), d.cut[path])
  BY <1>2
<1>7. \A path \in DOMAIN disk.files :
        /\ Written(path) \in Builders /\ disk.cut[path] \in Nat
        /\ OnDisk(path) = Cut(Build(Written(path)), disk.cut[path])
  BY <1>4, <1>5, <1>6, Zenon DEF Written, OnDisk
<1> QED
  BY <1>4, <1>7, DisksAssumption

\* What is read of a file whose head is all there.
Content(spec, file) ==
  [err |-> "Ok", metadata |-> ToMap(spec.metadata), tensors |-> Infos(spec), len |-> file.len,
   alignment |-> AlignmentOf(ToMap(spec.metadata)),
   data_offset |-> AlignUp(file.head, AlignmentOf(ToMap(spec.metadata)))]

LEMMA AlignedIs ==
  ASSUME NEW spec \in Builders
  PROVE  Aligned(spec) <=> AllGood(spec)
<1>1. DOMAIN spec.metadata = 1..Len(spec.metadata)
  BY BuilderIs, LenProperties
<1> QED
  BY <1>1 DEF Aligned, AllGood, GoodEntry

\* A file is opened exactly if its head is all there and its alignment is one.
LEMMA OpenGives ==
  ASSUME disk \in Installed, NEW path
  PROVE  IF WholeHead(path) /\ Aligned(Written(path))
         THEN Open(path) = Content(Written(path), OnDisk(path))
         ELSE Open(path).err # "Ok"
<1>1. CASE path \notin DOMAIN disk.files
  <2>1. Open(path).err = "Io"
    BY <1>1 DEF Open, Reject
  <2> QED
    BY <1>1, <2>1 DEF WholeHead
<1>2. CASE path \in DOMAIN disk.files
  <2>1. PICK spec, n, file : spec = Written(path) /\ n = disk.cut[path] /\ file = OnDisk(path)
    OBVIOUS
  <2>2. spec \in Builders /\ n \in Nat /\ file = Cut(Build(spec), n)
    BY <1>2, <2>1, InstalledIs, Zenon
  <2>3. file.head <= file.len <=> file.head <= n
    BY <2>2, CutIs
  <2>4. WholeHead(path) <=> file.head <= file.len
    <3>1. file.head \in Nat /\ (WholeHead(path) <=> n >= file.head)
      <4>1. file.head = Build(spec).head /\ Build(spec).head \in Nat
        BY <2>2, CutIs, BuiltIs
      <4>2. WholeHead(path) <=> n >= file.head
        BY <1>2, <2>1 DEF WholeHead, OnDisk
      <4> QED
        BY <4>1, <4>2
    <3> QED
      BY <2>2, <2>3, <3>1
  <2>5. Open(path) = Parse(file)
    BY <1>2, <2>1 DEF Open
  <2>6. Aligned(spec) <=> AllGood(spec)
    BY <2>2, AlignedIs
  <2>7. IF AllGood(spec) /\ file.head <= file.len
        THEN Parse(file) = Content(spec, file)
        ELSE Parse(file).err # "Ok"
    BY <2>2, ParseGives, Zenon DEF Content
  <2> QED
    BY <2>1, <2>4, <2>5, <2>6, <2>7, Zenon
<1> QED
  BY <1>1, <1>2

LEMMA ContentIs ==
  ASSUME NEW spec, NEW file
  PROVE  /\ Content(spec, file).err = "Ok" /\ Content(spec, file).metadata = ToMap(spec.metadata)
         /\ Content(spec, file).tensors = Infos(spec) /\ Content(spec, file).len = file.len
         /\ Content(spec, file).alignment = AlignmentOf(ToMap(spec.metadata))
         /\ Content(spec, file).data_offset = AlignUp(file.head, AlignmentOf(ToMap(spec.metadata)))
<1>1. PICK m, t, l, a, o : /\ m = ToMap(spec.metadata) /\ t = Infos(spec) /\ l = file.len
                           /\ a = AlignmentOf(ToMap(spec.metadata))
                           /\ o = AlignUp(file.head, AlignmentOf(ToMap(spec.metadata)))
  BY Zenon
<1>2. PICK c : c = Content(spec, file)
  OBVIOUS
<1>3. c = [err |-> "Ok", metadata |-> m, tensors |-> t, len |-> l, alignment |-> a,
           data_offset |-> o]
  BY <1>1, <1>2, Zenon DEF Content
<1>4. /\ c.err = "Ok" /\ c.metadata = m /\ c.tensors = t /\ c.len = l /\ c.alignment = a
      /\ c.data_offset = o
  BY <1>3
<1> QED
  BY <1>1, <1>2, <1>4, Zenon

\* What was opened is what was written.
LEMMA OpenIs ==
  ASSUME disk \in Installed, NEW path, Open(path).err = "Ok"
  PROVE  /\ WholeHead(path) /\ Aligned(Written(path)) /\ Written(path) \in Builders
         /\ OnDisk(path) = Cut(Build(Written(path)), disk.cut[path]) /\ disk.cut[path] \in Nat
         /\ Open(path) = Content(Written(path), OnDisk(path))
<1>1. WholeHead(path) /\ Aligned(Written(path)) /\ Open(path) = Content(Written(path), OnDisk(path))
  BY OpenGives, Zenon
<1>2. path \in DOMAIN disk.files
  BY <1>1 DEF WholeHead
<1> QED
  BY <1>1, <1>2, InstalledIs, Zenon

LEMMA OpenType ==
  ASSUME disk \in Installed, NEW path, Open(path).err = "Ok"
  PROVE  /\ Open(path).tensors \in Seq(TensorMeta)
         /\ Open(path).data_offset \in Nat /\ Open(path).len \in Nat
         /\ \A key \in DOMAIN Open(path).metadata :
              IsU32(Open(path).metadata[key]) => Open(path).metadata[key].v \in Nat
<1>1. PICK spec, n, file, g : /\ spec = Written(path) /\ n = disk.cut[path]
                              /\ file = OnDisk(path) /\ g = Open(path)
  BY Zenon
<1>2. /\ Aligned(spec) /\ spec \in Builders /\ n \in Nat /\ file = Cut(Build(spec), n)
      /\ g = Content(spec, file)
  BY <1>1, OpenIs, Zenon
<1>3. /\ g.metadata = ToMap(spec.metadata) /\ g.tensors = Infos(spec) /\ g.len = file.len
      /\ g.data_offset = AlignUp(file.head, AlignmentOf(ToMap(spec.metadata)))
  BY <1>2, ContentIs, Zenon
<1>4. g.tensors \in Seq(TensorMeta)
  BY <1>2, <1>3, InfosAre
<1>5. g.len \in Nat /\ g.data_offset \in Nat
  <2>1. file.len \in Nat /\ file.head \in Nat
    BY <1>2, CutIs, BuiltIs
  <2>2. AlignmentOf(ToMap(spec.metadata)) \in Nat \ {0}
    BY <1>2, AlignedIs, AlignmentIs
  <2> QED
    BY <1>3, <2>1, <2>2, AlignUpIs
<1>6. \A key \in DOMAIN g.metadata : IsU32(g.metadata[key]) => g.metadata[key].v \in Nat
  BY <1>2, <1>3, MetadataType
<1> QED
  BY <1>1, <1>4, <1>5, <1>6

LEMMA ShardType ==
  ASSUME disk \in Installed, shards \in Seq(Opened), NEW k \in DOMAIN shards
  PROVE  /\ shards[k].gguf = Open(shards[k].path) /\ Open(shards[k].path).err = "Ok"
         /\ shards[k].path \in FileName
         /\ shards[k].gguf.tensors \in Seq(TensorMeta)
         /\ k \in 1..Len(shards) /\ k \in Nat
<1>1. k \in 1..Len(shards) /\ k \in Nat
  BY LenProperties
<1>2. shards[k] \in Opened
  BY <1>1, ElementOfSeq
<1>3. /\ shards[k].gguf = Open(shards[k].path) /\ Open(shards[k].path).err = "Ok"
      /\ shards[k].path \in FileName
  <2>1. PICK p \in FileName : Open(p).err = "Ok" /\ shards[k] = [path |-> p, gguf |-> Open(p)]
    BY <1>2, Zenon DEF Opened
  <2>2. shards[k].path = p /\ shards[k].gguf = Open(p)
    <3>1. PICK g : g = Open(p)
      OBVIOUS
    <3>2. shards[k] = [path |-> p, gguf |-> g]
      BY <2>1, <3>1, Zenon
    <3> QED
      BY <3>1, <3>2
  <2> QED
    BY <2>1, <2>2
<1> QED
  BY <1>1, <1>3, OpenType

-----------------------------------------------------------------------------
(* The merge.                                                              *)

\* Of the listings L, the map has each tensor's name, one listing of it, and
\* one that fits if there is such a one.
Best(map, L) ==
  /\ DOMAIN map = {e.meta.name : e \in L}
  /\ \A n \in DOMAIN map :
       /\ map[n] \in L /\ map[n].meta.name = n
       /\ \A e \in L : e.meta.name = n /\ Fits(shards[e.shard], e.meta)
                         => Fits(shards[map[n].shard], map[n].meta)

LEMMA MergedBest ==
  ASSUME NEW map, NEW L, NEW si, NEW meta, Best(map, L)
  PROVE  Best(Merged(map, si, meta), L \cup {Entry(si, meta)})
<1>1. PICK e, n, m : e = Entry(si, meta) /\ n = meta.name /\ m = Merged(map, si, meta)
  OBVIOUS
<1>2. e.meta = meta /\ e.shard = si /\ e.meta.name = n
  BY <1>1 DEF Entry
<1> DEFINE Fit(x) == Fits(shards[x.shard], x.meta)
<1>3. m = IF n \in DOMAIN map /\ ~Fit(e) /\ Fit(map[n]) THEN map ELSE Inserted(map, n, e)
  BY <1>1, <1>2 DEF Merged
<1>4. /\ DOMAIN map = {x.meta.name : x \in L}
      /\ \A k \in DOMAIN map :
           /\ map[k] \in L /\ map[k].meta.name = k
           /\ \A x \in L : x.meta.name = k /\ Fit(x) => Fit(map[k])
  BY DEF Best
<1> HIDE DEF Fit
<1>5. CASE n \in DOMAIN map /\ ~Fit(e) /\ Fit(map[n])
  <2>1. m = map
    BY <1>3, <1>5
  <2>2. DOMAIN m = {x.meta.name : x \in L \cup {e}}
    BY <1>2, <1>4, <1>5, <2>1
  <2>3. ASSUME NEW k \in DOMAIN m, NEW x \in L \cup {e}, x.meta.name = k, Fit(x)
        PROVE  Fit(m[k])
    BY <1>4, <1>5, <2>1, <2>3
  <2> QED
    BY <1>1, <1>4, <2>1, <2>2, <2>3 DEF Best, Fit
<1>6. CASE ~(n \in DOMAIN map /\ ~Fit(e) /\ Fit(map[n]))
  <2>1. /\ DOMAIN m = DOMAIN map \cup {n} /\ m[n] = e
        /\ \A k \in DOMAIN map : k # n => m[k] = map[k]
    BY <1>3, <1>6 DEF Inserted
  <2>2. DOMAIN m = {x.meta.name : x \in L \cup {e}}
    BY <1>2, <1>4, <2>1
  <2>3. ASSUME NEW k \in DOMAIN m
        PROVE  /\ m[k] \in L \cup {e} /\ m[k].meta.name = k
               /\ \A x \in L \cup {e} : x.meta.name = k /\ Fit(x) => Fit(m[k])
    <3>1. CASE k = n
      <4>1. ASSUME NEW x \in L, x.meta.name = n, Fit(x)
            PROVE  Fit(e)
        BY <1>4, <1>6, <4>1
      <4> QED
        BY <1>2, <2>1, <3>1, <4>1
    <3>2. CASE k # n
      <4>1. k \in DOMAIN map /\ m[k] = map[k]
        BY <2>1, <2>3, <3>2
      <4> QED
        BY <1>2, <1>4, <3>2, <4>1
    <3> QED
      BY <3>1, <3>2
  <2> QED
    BY <1>1, <2>2, <2>3 DEF Best, Fit
<1> QED
  BY <1>5, <1>6

LEMMA MergeDefined ==
  ASSUME NEW map, NEW si, NEW tensors
  PROVE  \A k \in Nat :
           \E f : f = [j \in 0..k |-> IF j = 0 THEN map ELSE Merged(f[j-1], si, tensors[j])]
<1> DEFINE P(k) == \E f : f = [j \in 0..k |-> IF j = 0 THEN map ELSE Merged(f[j-1], si, tensors[j])]
           G == {k \in Nat : P(k)}
<1>1. P(0)
  <2> DEFINE f == [j \in 0..0 |-> map]
  <2>1. f = [j \in 0..0 |-> IF j = 0 THEN map ELSE Merged(f[j-1], si, tensors[j])]
    OBVIOUS
  <2> QED
    BY <2>1
<1>2. ASSUME NEW k \in Nat, P(k)
      PROVE  P(k + 1)
  <2>1. PICK f : f = [j \in 0..k |-> IF j = 0 THEN map ELSE Merged(f[j-1], si, tensors[j])]
    BY <1>2
  <2> DEFINE e(j) == IF j = 0 THEN map ELSE Merged(f[j-1], si, tensors[j])
             g == [j \in 0..(k+1) |-> e(j)]
  <2>2. ASSUME NEW j \in 0..(k+1), j # 0
        PROVE  g[j-1] = f[j-1]
    <3>1. j - 1 \in 0..k /\ j - 1 \in 0..(k+1)
      BY <2>2
    <3>2. f[j-1] = e(j-1)
      BY <2>1, <3>1
    <3>3. g[j-1] = e(j-1)
      BY <3>1
    <3> QED
      BY <3>2, <3>3
  <2> DEFINE r == [j \in 0..(k+1) |-> IF j = 0 THEN map ELSE Merged(g[j-1], si, tensors[j])]
  <2>3. \A j \in 0..(k+1) : g[j] = r[j]
    BY <2>2
  <2>4. g = r
    BY <2>3
  <2> QED
    BY <2>4
<1>3. 0 \in G /\ \A k \in Nat : k \in G => k + 1 \in G
  <2> HIDE DEF P
  <2> QED
    BY <1>1, <1>2
<1>4. Nat \subseteq G
  <2> HIDE DEF G
  <2> QED
    BY <1>3, NatBySteps
<1> QED
  BY <1>4

\* f holds the maps after each of n tensors of the shard.
Merges(f, map, si, n) ==
  /\ f[0] = map /\ \A j \in 1..n : f[j] = Merged(f[j-1], si, shards[si].gguf.tensors[j])
  /\ MergedShard(map, si) = f[n]

LEMMA MergeUnfolds ==
  ASSUME NEW map, NEW si, NEW n \in Nat, n = Len(shards[si].gguf.tensors)
  PROVE  \E f : Merges(f, map, si, n)
<1>0. PICK ts : ts = shards[si].gguf.tensors
  OBVIOUS
<1> DEFINE f == CHOOSE f : f = [j \in 0..n |-> IF j = 0 THEN map ELSE Merged(f[j-1], si, ts[j])]
<1>1. f = [j \in 0..n |-> IF j = 0 THEN map ELSE Merged(f[j-1], si, ts[j])]
  BY MergeDefined
<1>2. MergedShard(map, si) = f[n]
  BY <1>0 DEF MergedShard
<1> HIDE DEF f
<1>3. f[0] = map /\ \A j \in 1..n : f[j] = Merged(f[j-1], si, ts[j])
  BY <1>1
<1> QED
  BY <1>0, <1>2, <1>3 DEF Merges

LEMMA IndexDefined ==
  \A k \in Nat : \E f : f = [j \in 0..k |-> IF j = 0 THEN <<>> ELSE MergedShard(f[j-1], j)]
<1> DEFINE P(k) == \E f : f = [j \in 0..k |-> IF j = 0 THEN <<>> ELSE MergedShard(f[j-1], j)]
           G == {k \in Nat : P(k)}
<1>1. P(0)
  <2> DEFINE f == [j \in 0..0 |-> <<>>]
  <2>1. f = [j \in 0..0 |-> IF j = 0 THEN <<>> ELSE MergedShard(f[j-1], j)]
    OBVIOUS
  <2> QED
    BY <2>1
<1>2. ASSUME NEW k \in Nat, P(k)
      PROVE  P(k + 1)
  <2>1. PICK f : f = [j \in 0..k |-> IF j = 0 THEN <<>> ELSE MergedShard(f[j-1], j)]
    BY <1>2
  <2> DEFINE e(j) == IF j = 0 THEN <<>> ELSE MergedShard(f[j-1], j)
             g == [j \in 0..(k+1) |-> e(j)]
  <2>2. ASSUME NEW j \in 0..(k+1), j # 0
        PROVE  g[j-1] = f[j-1]
    <3>1. j - 1 \in 0..k /\ j - 1 \in 0..(k+1)
      BY <2>2
    <3>2. f[j-1] = e(j-1)
      BY <2>1, <3>1
    <3>3. g[j-1] = e(j-1)
      BY <3>1
    <3> QED
      BY <3>2, <3>3
  <2> DEFINE r == [j \in 0..(k+1) |-> IF j = 0 THEN <<>> ELSE MergedShard(g[j-1], j)]
  <2>3. \A j \in 0..(k+1) : g[j] = r[j]
    BY <2>2
  <2>4. g = r
    BY <2>3
  <2> QED
    BY <2>4
<1>3. 0 \in G /\ \A k \in Nat : k \in G => k + 1 \in G
  <2> HIDE DEF P
  <2> QED
    BY <1>1, <1>2
<1>4. Nat \subseteq G
  <2> HIDE DEF G
  <2> QED
    BY <1>3, NatBySteps
<1> QED
  BY <1>4

LEMMA IndexUnfolds ==
  ASSUME NEW n \in Nat, n = Len(shards)
  PROVE  \E f : f[0] = <<>> /\ (\A j \in 1..n : f[j] = MergedShard(f[j-1], j)) /\ Index = f[n]
<1> DEFINE f == CHOOSE f : f = [j \in 0..n |-> IF j = 0 THEN <<>> ELSE MergedShard(f[j-1], j)]
<1>1. f = [j \in 0..n |-> IF j = 0 THEN <<>> ELSE MergedShard(f[j-1], j)]
  BY IndexDefined
<1>2. Index = f[n]
  BY DEF Index
<1> HIDE DEF f
<1>3. f[0] = <<>> /\ \A j \in 1..n : f[j] = MergedShard(f[j-1], j)
  BY <1>1
<1> QED
  BY <1>2, <1>3

\* The first k listings of a shard, and those of the first k shards.
ListedIn(si, k) == {Entry(si, shards[si].gguf.tensors[j]) : j \in 1..k}

ListedBy(k) == UNION {ListedIn(si, Len(shards[si].gguf.tensors)) : si \in 1..k}

LEMMA ShardBest ==
  ASSUME NEW map, NEW L, NEW si, NEW n \in Nat, n = Len(shards[si].gguf.tensors), Best(map, L)
  PROVE  Best(MergedShard(map, si), L \cup ListedIn(si, n))
<1>1. PICK f : Merges(f, map, si, n)
  BY MergeUnfolds
<1>2. /\ f[0] = map /\ \A j \in 1..n : f[j] = Merged(f[j-1], si, shards[si].gguf.tensors[j])
      /\ MergedShard(map, si) = f[n]
  BY <1>1 DEF Merges
<1> DEFINE P(k) == Best(f[k], L \cup ListedIn(si, k))
           G == {k \in Nat : k <= n => P(k)}
<1>3. P(0)
  <2>1. ListedIn(si, 0) = {}
    BY DEF ListedIn
  <2>2. L \cup ListedIn(si, 0) = L
    BY <2>1
  <2> QED
    BY <1>2, <2>2
<1>4. ASSUME NEW k \in Nat, k + 1 <= n, P(k)
      PROVE  P(k + 1)
  <2>1. PICK m : m = shards[si].gguf.tensors[k+1]
    OBVIOUS
  <2>2. f[k+1] = Merged(f[k], si, m)
    <3>1. k + 1 \in 1..n /\ (k + 1) - 1 = k
      BY <1>4
    <3> QED
      BY <1>2, <2>1, <3>1
  <2>3. Best(Merged(f[k], si, m), (L \cup ListedIn(si, k)) \cup {Entry(si, m)})
    BY <1>4, MergedBest
  <2>4. (L \cup ListedIn(si, k)) \cup {Entry(si, m)} = L \cup ListedIn(si, k + 1)
    <3> DEFINE e(j) == Entry(si, shards[si].gguf.tensors[j])
    <3>1. 1..(k+1) = 1..k \cup {k+1}
      OBVIOUS
    <3>2. Entry(si, m) = e(k+1)
      BY <2>1
    <3> HIDE DEF e
    <3>3. {e(j) : j \in 1..(k+1)} = {e(j) : j \in 1..k} \cup {Entry(si, m)}
      BY <3>1, <3>2
    <3>4. ListedIn(si, k+1) = ListedIn(si, k) \cup {Entry(si, m)}
      BY <3>3 DEF ListedIn, e
    <3> QED
      BY <3>4
  <2> QED
    BY <2>2, <2>3, <2>4
<1>5. 0 \in G /\ \A k \in Nat : k \in G => k + 1 \in G
  <2> HIDE DEF P
  <2> QED
    BY <1>3, <1>4
<1>6. Nat \subseteq G
  <2> HIDE DEF G
  <2> QED
    BY <1>5, NatBySteps
<1>7. P(n)
  <2> HIDE DEF P
  <2> QED
    BY <1>6
<1> QED
  BY <1>2, <1>7

LEMMA IndexBest ==
  ASSUME disk \in Installed, shards \in Seq(Opened)
  PROVE  Best(Index, ListedBy(Len(shards)))
<1>1. PICK n \in Nat : n = Len(shards)
  BY LenProperties
<1>2. PICK f : f[0] = <<>> /\ (\A j \in 1..n : f[j] = MergedShard(f[j-1], j)) /\ Index = f[n]
  BY <1>1, IndexUnfolds
<1> DEFINE P(k) == Best(f[k], ListedBy(k))
           G == {k \in Nat : k <= n => P(k)}
<1>3. P(0)
  <2>1. ListedBy(0) = {}
    BY DEF ListedBy
  <2>2. f[0] = <<>> /\ DOMAIN <<>> = {}
    BY <1>2
  <2> QED
    BY <2>1, <2>2 DEF Best
<1>4. ASSUME NEW k \in Nat, k + 1 <= n, P(k)
      PROVE  P(k + 1)
  <2>1. f[k+1] = MergedShard(f[k], k+1)
    <3>1. k + 1 \in 1..n /\ (k + 1) - 1 = k
      BY <1>4
    <3> QED
      BY <1>2, <3>1
  <2>2. Len(shards[k+1].gguf.tensors) \in Nat
    <3>1. k + 1 \in DOMAIN shards
      BY <1>1, <1>4, LenProperties
    <3>2. shards[k+1].gguf.tensors \in Seq(TensorMeta)
      BY <3>1, ShardType
    <3> QED
      BY <3>2, LenProperties
  <2>3. PICK c \in Nat : c = Len(shards[k+1].gguf.tensors)
    BY <2>2
  <2>4. Best(MergedShard(f[k], k+1), ListedBy(k) \cup ListedIn(k+1, c))
    BY <1>4, <2>3, ShardBest
  <2>5. ListedBy(k) \cup ListedIn(k+1, c) = ListedBy(k+1)
    <3> DEFINE e(j) == ListedIn(j, Len(shards[j].gguf.tensors))
    <3>1. 1..(k+1) = 1..k \cup {k+1}
      OBVIOUS
    <3>2. ListedIn(k+1, c) = e(k+1)
      BY <2>3
    <3> HIDE DEF e
    <3>3. (UNION {e(j) : j \in 1..(k+1)}) = (UNION {e(j) : j \in 1..k}) \cup ListedIn(k+1, c)
      BY <3>1, <3>2
    <3> QED
      BY <3>3 DEF ListedBy, e
  <2> QED
    BY <2>1, <2>4, <2>5
<1>5. 0 \in G /\ \A k \in Nat : k \in G => k + 1 \in G
  <2> HIDE DEF P
  <2> QED
    BY <1>3, <1>4
<1>6. Nat \subseteq G
  <2> HIDE DEF G
  <2> QED
    BY <1>5, NatBySteps
<1>7. P(n)
  <2> HIDE DEF P
  <2> QED
    BY <1>6
<1> QED
  BY <1>1, <1>2, <1>7

\* A listing is one of a shard's tensors.
LEMMA ListingsAre ==
  ASSUME disk \in Installed, shards \in Seq(Opened), NEW name
  PROVE  Listings(name) = {e \in ListedBy(Len(shards)) : e.meta.name = name}
<1>1. PICK n \in Nat : n = Len(shards) /\ DOMAIN shards = 1..n
  BY LenProperties
<1> DEFINE T(k) == shards[k].gguf.tensors
<1>2. ASSUME NEW k \in 1..n
      PROVE  Len(T(k)) \in Nat /\ DOMAIN T(k) = 1..Len(T(k))
  <2>1. T(k) \in Seq(TensorMeta)
    BY <1>1, ShardType
  <2> QED
    BY <2>1, LenProperties
<1>3. ASSUME NEW e \in Listings(name)
      PROVE  e \in ListedBy(n) /\ e.meta.name = name
  <2>1. PICK si \in 1..n, m \in UNION {ToSet(shards[k].gguf.tensors) : k \in DOMAIN shards} :
             e = Entry(si, m)
    BY <1>1 DEF Listings
  <2>2. e.shard = si /\ e.meta = m
    BY <2>1 DEF Entry
  <2>3. Contains(T(si), m) /\ e.meta.name = name
    BY <2>2 DEF Listings
  <2>4. PICK j \in 1..Len(T(si)) : T(si)[j] = m
    BY <2>3 DEF Contains
  <2>5. e \in ListedIn(si, Len(T(si)))
    BY <2>1, <2>4 DEF ListedIn
  <2> QED
    BY <2>3, <2>5 DEF ListedBy
<1>4. ASSUME NEW e \in ListedBy(n), e.meta.name = name
      PROVE  e \in Listings(name)
  <2>1. PICK si \in 1..n : e \in ListedIn(si, Len(T(si)))
    BY DEF ListedBy
  <2>2. PICK j \in 1..Len(T(si)) : e = Entry(si, T(si)[j])
    BY <2>1 DEF ListedIn
  <2>3. PICK m : m = T(si)[j]
    OBVIOUS
  <2>4. e.shard = si /\ e.meta = m
    BY <2>2, <2>3 DEF Entry
  <2>5. Contains(T(si), m)
    BY <2>3 DEF Contains
  <2>6. m \in ToSet(T(si))
    BY <1>2, <2>3 DEF ToSet
  <2>7. m \in UNION {ToSet(shards[k].gguf.tensors) : k \in DOMAIN shards}
    BY <1>1, <2>6
  <2>8. e = Entry(si, m)
    BY <2>2, <2>3
  <2> QED
    BY <1>1, <1>4, <2>4, <2>5, <2>7, <2>8 DEF Listings
<1> QED
  <2>1. Listings(name) \subseteq {e \in ListedBy(n) : e.meta.name = name}
    BY <1>3
  <2>2. {e \in ListedBy(n) : e.meta.name = name} \subseteq Listings(name)
    BY <1>4
  <2> QED
    BY <1>1, <2>1, <2>2

LEMMA BestLists ==
  ASSUME disk \in Installed, shards \in Seq(Opened), NEW map, Best(map, ListedBy(Len(shards)))
  PROVE  Lists(map)
<1>1. PICK n \in Nat : n = Len(shards) /\ DOMAIN shards = 1..n
  BY LenProperties
<1>2. \A name : Listings(name) = {e \in ListedBy(n) : e.meta.name = name}
  BY <1>1, ListingsAre
<1>3. /\ DOMAIN map = {e.meta.name : e \in ListedBy(n)}
      /\ \A k \in DOMAIN map :
           /\ map[k] \in ListedBy(n) /\ map[k].meta.name = k
           /\ \A e \in ListedBy(n) : e.meta.name = k /\ Fits(shards[e.shard], e.meta)
                                       => Fits(shards[map[k].shard], map[k].meta)
  BY <1>1 DEF Best
<1> DEFINE T(k) == shards[k].gguf.tensors
           names == UNION {{t.name : t \in ToSet(shards[k].gguf.tensors)} : k \in DOMAIN shards}
<1>4. ASSUME NEW k \in 1..n
      PROVE  Len(T(k)) \in Nat /\ DOMAIN T(k) = 1..Len(T(k))
  <2>1. T(k) \in Seq(TensorMeta)
    BY <1>1, ShardType
  <2> QED
    BY <2>1, LenProperties
<1>5. ASSUME NEW x \in DOMAIN map
      PROVE  x \in names
  <2>1. PICK e \in ListedBy(n) : e.meta.name = x
    BY <1>3
  <2>2. PICK si \in 1..n : e \in ListedIn(si, Len(T(si)))
    BY <2>1 DEF ListedBy
  <2>3. PICK j \in 1..Len(T(si)) : e = Entry(si, T(si)[j])
    BY <2>2 DEF ListedIn
  <2>4. PICK m : m = T(si)[j]
    OBVIOUS
  <2>5. e.meta = m
    BY <2>3, <2>4 DEF Entry
  <2>6. m \in ToSet(T(si))
    BY <1>4, <2>4 DEF ToSet
  <2>7. x \in {t.name : t \in ToSet(T(si))}
    BY <2>1, <2>5, <2>6
  <2> QED
    BY <1>1, <2>7
<1>6. ASSUME NEW x \in names
      PROVE  x \in DOMAIN map
  <2>1. PICK si \in 1..n : x \in {t.name : t \in ToSet(T(si))}
    BY <1>1
  <2>2. PICK m \in ToSet(T(si)) : x = m.name
    BY <2>1
  <2>3. PICK j \in 1..Len(T(si)) : m = T(si)[j]
    BY <1>4, <2>2 DEF ToSet
  <2>4. PICK e : e = Entry(si, m)
    OBVIOUS
  <2>5. e \in ListedBy(n)
    <3>1. e \in ListedIn(si, Len(T(si)))
      BY <2>3, <2>4 DEF ListedIn
    <3> QED
      BY <3>1 DEF ListedBy
  <2>6. e.meta.name = x
    BY <2>2, <2>4 DEF Entry
  <2> QED
    BY <1>3, <2>5, <2>6
<1>7. DOMAIN map = names
  <2> HIDE DEF names
  <2> QED
    BY <1>5, <1>6
<1>8. ASSUME NEW x \in DOMAIN map
      PROVE  /\ map[x] \in Listings(x)
             /\ Fitting(x) # {} => map[x] \in Fitting(x)
  <2>1. map[x] \in Listings(x)
    BY <1>2, <1>3
  <2>2. ASSUME NEW e \in Fitting(x)
        PROVE  map[x] \in Fitting(x)
    <3>1. e \in Listings(x) /\ Fits(shards[e.shard], e.meta)
      BY DEF Fitting
    <3>2. Fits(shards[map[x].shard], map[x].meta)
      BY <1>2, <1>3, <3>1
    <3> QED
      BY <2>1, <3>2 DEF Fitting
  <2> QED
    BY <2>1, <2>2
<1> QED
  BY <1>7, <1>8 DEF Lists

-----------------------------------------------------------------------------
(* What a step leaves alone.                                               *)

LEMMA OpenSame ==
  ASSUME disk' = disk
  PROVE  Opened' = Opened /\ \A p : Open(p)' = Open(p)
BY DEF Opened, Open, OnDisk

LEMMA ShardsSame ==
  ASSUME disk' = disk, shards' = shards
  PROVE  /\ SelectInSeq(shards, DeclaresArchitecture)' = SelectInSeq(shards, DeclaresArchitecture)
         /\ ReadOnce' = ReadOnce
         /\ \A name : Fitting(name)' = Fitting(name)
         /\ \A map : Lists(map)' <=> Lists(map)
<1>1. SelectInSeq(shards, DeclaresArchitecture)' = SelectInSeq(shards, DeclaresArchitecture)
  BY DEF SelectInSeq
<1>2. ReadOnce' = ReadOnce
  BY <1>1 DEF ReadOnce, ConfigShard
<1>3. \A name : Listings(name)' = Listings(name)
  BY DEF Listings
<1>4. \A name : Fitting(name)' = Fitting(name)
  BY <1>3 DEF Fitting
<1>5. \A map : Lists(map)' <=> Lists(map)
  BY <1>3, <1>4 DEF Lists
<1> QED
  BY <1>1, <1>2, <1>4, <1>5

LEMMA NeededSame ==
  ASSUME disk' = disk, shards' = shards, cfg' = cfg, by_name' = by_name
  PROVE  /\ Needed' = Needed /\ (Loadable' <=> Loadable)
         /\ \A name : Raw(name)' = Raw(name)
<1>1. Needed' = Needed
  BY DEF Needed, LayerWeights, MoeWeights
<1>2. \A name : SizedHere(name)' <=> SizedHere(name)
  BY DEF SizedHere
<1>3. Loadable' <=> Loadable
  BY <1>1, <1>2 DEF Loadable
<1>4. \A name : Raw(name)' = Raw(name)
  BY DEF Raw
<1> QED
  BY <1>1, <1>3, <1>4

-----------------------------------------------------------------------------
(* The steps.                                                              *)

LEMMA CountType ==
  ASSUME disk \in Installed, NEW path, Open(path).err = "Ok"
  PROVE  SplitCount(Open(path).metadata) \in Nat
BY OpenType DEF SplitCount, Has

LEMMA ProbeKeeps ==
  ASSUME LoaderInv, Probe
  PROVE  LoaderInv'
<1> DEFINE n == SplitCount(Open(disk.first).metadata)
<1>1. /\ disk' = disk /\ shards' = shards /\ cfg' = cfg /\ by_name' = by_name
      /\ weights' = weights /\ got' = got /\ pc = "probe"
  BY DEF Probe
<1>2. /\ disk \in Installed /\ cfg = <<>> /\ by_name = <<>> /\ weights = <<>> /\ got = <<>>
      /\ paths = <<>> /\ shards \in Seq(Opened) /\ Len(shards) <= Len(paths)
      /\ error.kind = "" /\ SiblingNames /\ ShardsOpen
  BY <1>1 DEF LoaderInv, SiblingNames, ShardsOpen, Configured, Indexed, Taken
<1>3. shards = <<>> /\ Len(shards) = 0 /\ DOMAIN shards = {}
  <2>1. Len(paths) = 0
    BY <1>2
  <2>2. Len(shards) \in Nat
    BY <1>2, LenProperties
  <2>3. Len(shards) <= Len(paths) /\ shards \in Seq(Opened)
    BY <1>2
  <2>4. Len(shards) = 0
    BY <2>1, <2>2, <2>3
  <2>5. shards = <<>>
    BY <2>3, <2>4, EmptySeq
  <2> QED
    BY <2>4, <2>5
<1>4. \/ /\ pc' = "error" /\ error'.kind \in {"ShardOpen", "ShardDiscovery"} /\ paths' = paths
      \/ /\ Open(disk.first).err = "Ok" /\ pc' = "open" /\ error' = error
         /\ n > 1 => disk.first.of = n
         /\ paths' = IF n > 1 THEN [i \in 1..n |-> Sibling(i)] ELSE <<disk.first>>
  <2>1. CASE Open(disk.first).err # "Ok"
    <3>1. Errs("ShardOpen", disk.first) /\ UNCHANGED paths
      BY <2>1, Zenon DEF Probe
    <3> QED
      BY <3>1 DEF Errs
  <2>2. CASE Open(disk.first).err = "Ok" /\ n > 1 /\ (~HasSuffix(disk.first) \/ disk.first.of # n)
    <3>1. Errs("ShardDiscovery", disk.first) /\ UNCHANGED paths
      BY <2>2, Zenon DEF Probe
    <3> QED
      BY <3>1 DEF Errs
  <2>3. CASE Open(disk.first).err = "Ok" /\ ~(n > 1 /\ (~HasSuffix(disk.first) \/ disk.first.of # n))
    <3>1. /\ paths' = IF n > 1 THEN [i \in 1..n |-> Sibling(i)] ELSE <<disk.first>>
          /\ pc' = "open" /\ UNCHANGED error
      BY <2>3, Zenon DEF Probe
    <3> HIDE DEF n
    <3> QED
      BY <2>3, <3>1, Zenon
  <2> QED
    BY <2>1, <2>2, <2>3, Zenon
<1>5. Opened' = Opened /\ Open(disk.first)' = Open(disk.first)
  BY <1>1, OpenSame
<1>6. SiblingNames'
  <2>1. disk.first \in FileName /\ paths \in Seq(FileName) /\ Len(paths) = 0
    BY <1>2, InstalledIs DEF SiblingNames
  <2>2. CASE pc' = "error"
    <3>1. paths' = paths
      <4> HIDE DEF n
      <4> QED
        BY <1>4, <2>2
    <3>2. paths' = <<>>
      BY <1>2, <3>1
    <3> QED
      BY <2>1, <2>2, <3>1, <3>2 DEF SiblingNames
  <2>3. CASE Open(disk.first).err = "Ok" /\ pc' = "open" /\ n > 1
    <3>0. n \in Nat
      BY <1>2, <2>3, CountType
    <3>1. PICK N \in Nat : N = n
      BY <3>0
    <3>2. N > 1 /\ disk.first.of = N /\ paths' = [i \in 1..N |-> Sibling(i)]
      BY <1>4, <2>3, <3>1
    <3>3. ASSUME NEW i \in 1..N
          PROVE  Sibling(i) \in FileName /\ Sibling(i).idx = i /\ Sibling(i).of = N
      BY <2>1, <3>2 DEF Sibling, FileName
    <3> DEFINE e(i) == Sibling(i)
    <3>4. paths' = [i \in 1..N |-> e(i)] /\ \A i \in 1..N : e(i) \in FileName
      BY <3>2, <3>3
    <3>5. paths' \in Seq(FileName)
      <4> HIDE DEF e
      <4> QED
        BY <3>4, IsASeq
    <3>6. Len(paths') = N /\ DOMAIN paths' = 1..N /\ \A i \in 1..N : paths'[i] = Sibling(i)
      BY <3>2
    <3>7. paths' # <<>>
      BY <3>2, <3>6
    <3>8. \A i \in DOMAIN paths' : paths'[i].idx = i /\ paths'[i].of = Len(paths')
      BY <3>3, <3>6
    <3>9. Len(paths') # 1
      BY <3>2, <3>6
    <3>10. pc' # "probe"
      BY <2>3
    <3> QED
      BY <3>5, <3>7, <3>8, <3>9, <3>10, Zenon DEF SiblingNames
  <2>4. CASE Open(disk.first).err = "Ok" /\ pc' = "open" /\ ~(n > 1)
    <3>1. paths' = <<disk.first>>
      BY <1>4, <2>4
    <3>2. paths' \in Seq(FileName) /\ Len(paths') = 1 /\ paths'[1] = disk.first /\ paths' # <<>>
      BY <2>1, <3>1
    <3>3. Open(disk.first)' = Open(disk.first)
      BY <1>5
    <3>4. ~(SplitCount(Open(disk.first).metadata) > 1)'
      BY <2>4, <3>3 DEF SplitCount
    <3>5. ~(Len(paths') > 1)
      BY <3>2
    <3>6. pc' # "probe" /\ paths'[1] = (disk.first)'
      BY <1>1, <2>4, <3>2
    <3> QED
      BY <3>2, <3>4, <3>5, <3>6, Zenon DEF SiblingNames
  <2> QED
    BY <1>4, <2>2, <2>3, <2>4
<1>7. ShardsOpen'
  <2>1. Len(paths') \in Nat
    BY <1>6, LenProperties DEF SiblingNames
  <2>2. shards' \in Seq(Opened')
    BY <1>1, <1>2, <1>5
  <2>3. Len(shards') <= Len(paths') /\ DOMAIN shards' = {}
    BY <1>1, <1>3, <2>1
  <2>4. pc' \notin {"index", "ready", "loaded", "panic"}
    <3> HIDE DEF n
    <3> QED
      BY <1>4
  <2> QED
    BY <2>2, <2>3, <2>4, Zenon DEF ShardsOpen
<1>8. Configured' /\ Indexed' /\ Taken' /\ MissingNowhereElse'
  BY <1>1, <1>2, <1>4 DEF Configured, Indexed, Taken, MissingNowhereElse
<1> QED
  BY <1>1, <1>2, <1>4, <1>6, <1>7, <1>8 DEF LoaderInv

\* A step that neither finds shards nor opens one.
LEMMA ShardsKeep ==
  ASSUME LoaderInv, disk' = disk, paths' = paths, shards' = shards,
         pc' # "probe", pc # "probe",
         pc' \in {"index", "ready", "loaded", "panic"} => Len(shards) = Len(paths) /\ paths # <<>>,
         pc' = "open" => paths # <<>>
  PROVE  SiblingNames' /\ ShardsOpen'
<1>1. Opened' = Opened /\ Open(disk.first)' = Open(disk.first)
  BY OpenSame
<1>2. SiblingNames'
  <2>1. SplitCount(Open(disk.first).metadata)' = SplitCount(Open(disk.first).metadata)
    BY <1>1 DEF SplitCount
  <2>2. SiblingNames
    BY DEF LoaderInv
  <2>3. /\ paths \in Seq(FileName)
        /\ Len(paths) > 1 => \A i \in DOMAIN paths : paths[i].idx = i /\ paths[i].of = Len(paths)
        /\ Len(paths) = 1 => /\ paths[1] = disk.first
                             /\ ~(SplitCount(Open(disk.first).metadata) > 1)
    BY <2>2, Zenon DEF SiblingNames
  <2>4. pc' \in {"open", "index", "ready", "loaded", "panic"} => paths # <<>>
    OBVIOUS
  <2> QED
    BY <2>1, <2>3, <2>4, Zenon DEF SiblingNames
<1>3. ShardsOpen'
  <2>1. ShardsOpen
    BY DEF LoaderInv
  <2> QED
    BY <1>1, <2>1, Zenon DEF ShardsOpen
<1> QED
  BY <1>2, <1>3

LEMMA OpenShardKeeps ==
  ASSUME LoaderInv, OpenShard
  PROVE  LoaderInv'
<1> DEFINE p == paths[Len(shards) + 1]
<1>1. /\ disk' = disk /\ paths' = paths /\ cfg' = cfg /\ by_name' = by_name
      /\ weights' = weights /\ got' = got /\ pc = "open" /\ Len(shards) < Len(paths)
  BY DEF OpenShard
<1>2. /\ disk \in Installed /\ cfg = <<>> /\ by_name = <<>> /\ weights = <<>> /\ got = <<>>
      /\ error.kind = "" /\ paths # <<>>
  BY <1>1 DEF LoaderInv, SiblingNames, Configured, Indexed, Taken
<1>3. /\ paths \in Seq(FileName) /\ shards \in Seq(Opened)
      /\ Len(shards) <= Len(paths) /\ \A i \in DOMAIN shards : shards[i].path = paths[i]
  BY DEF LoaderInv, SiblingNames, ShardsOpen
<1>4. \/ /\ Open(p).err # "Ok" /\ pc' = "error" /\ error'.kind = "ShardOpen" /\ shards' = shards
      \/ /\ Open(p).err = "Ok" /\ pc' = pc /\ error' = error
         /\ shards' = Append(shards, [path |-> p, gguf |-> Open(p)])
  <2>1. CASE Open(p).err # "Ok"
    <3>1. Errs("ShardOpen", p) /\ UNCHANGED shards
      BY <2>1, Zenon DEF OpenShard
    <3> QED
      BY <2>1, <3>1 DEF Errs
  <2>2. CASE Open(p).err = "Ok"
    <3>1. /\ shards' = Append(shards, [path |-> p, gguf |-> Open(p)])
          /\ UNCHANGED <<pc, error>>
      BY <2>2, Zenon DEF OpenShard
    <3> QED
      BY <2>2, <3>1
  <2> QED
    BY <2>1, <2>2
<1>5. Opened' = Opened /\ Open(disk.first)' = Open(disk.first)
  BY <1>1, OpenSame
<1>6. SiblingNames' /\ ShardsOpen'
  <2>1. CASE shards' = shards /\ pc' = "error"
    BY <1>1, <2>1, ShardsKeep
  <2>2. CASE Open(p).err = "Ok" /\ pc' = pc /\ shards' = Append(shards, [path |-> p, gguf |-> Open(p)])
    <3>1. SiblingNames'
      <4>1. SplitCount(Open(disk.first).metadata)' = SplitCount(Open(disk.first).metadata)
        BY <1>5 DEF SplitCount
      <4>2. SiblingNames
        BY DEF LoaderInv
      <4>3. pc' = pc
        BY <2>2
      <4> QED
        BY <1>1, <4>1, <4>2, <4>3, Zenon DEF SiblingNames
    <3>2. PICK n \in Nat : n = Len(shards) /\ DOMAIN shards = 1..n
      BY <1>3, LenProperties
    <3>3. PICK m \in Nat : m = Len(paths) /\ DOMAIN paths = 1..m
      BY <1>3, LenProperties
    <3>4. n < m
      BY <1>1, <3>2, <3>3
    <3>5. p \in FileName
      <4>1. n + 1 \in 1..m
        BY <3>4
      <4> QED
        BY <1>3, <3>2, <3>3, <4>1, ElementOfSeq
    <3>6. PICK s : s = [path |-> p, gguf |-> Open(p)]
      OBVIOUS
    <3>7. s \in Opened
      BY <2>2, <3>5, <3>6 DEF Opened
    <3>8. s.path = p
      BY <3>6
    <3>9. shards' = Append(shards, s)
      BY <2>2, <3>6
    <3>10. shards' \in Seq(Opened) /\ Len(shards') = n + 1 /\ shards'[n+1] = s
           /\ DOMAIN shards' = 1..(n+1) /\ \A i \in 1..n : shards'[i] = shards[i]
      <4>1. PICK T : T = Opened
        OBVIOUS
      <4>2. shards \in Seq(T) /\ s \in T
        BY <1>3, <3>7, <4>1
      <4>3. /\ Append(shards, s) \in Seq(T) /\ Len(Append(shards, s)) = Len(shards) + 1
            /\ \A i \in 1..Len(shards) : Append(shards, s)[i] = shards[i]
            /\ Append(shards, s)[Len(shards) + 1] = s
        BY <4>2, AppendProperties
      <4>4. DOMAIN Append(shards, s) = 1..(Len(shards) + 1)
        BY <4>3, LenProperties
      <4> QED
        BY <3>2, <3>9, <4>1, <4>3, <4>4
    <3>11. \A i \in DOMAIN shards' : shards'[i].path = paths'[i]
      <4>1. ASSUME NEW i \in 1..(n+1)
            PROVE  shards'[i].path = paths[i]
        <5>1. CASE i = n + 1
          BY <3>2, <3>8, <3>10, <5>1
        <5>2. CASE i # n + 1
          <6>1. i \in 1..n
            BY <5>2
          <6> QED
            BY <1>3, <3>2, <3>10, <6>1
        <5> QED
          BY <5>1, <5>2
      <4> QED
        BY <1>1, <3>10, <4>1
    <3>12. Len(shards') <= Len(paths')
      BY <1>1, <3>3, <3>4, <3>10
    <3>13. pc' \notin {"index", "ready", "loaded", "panic"}
      BY <1>1, <2>2
    <3>14. shards' \in Seq(Opened')
      BY <1>5, <3>10
    <3>15. ShardsOpen'
      BY <3>11, <3>12, <3>13, <3>14, Zenon DEF ShardsOpen
    <3> QED
      BY <3>1, <3>15
  <2> QED
    BY <1>4, <2>1, <2>2
<1>7. pc' \in {"open", "error"} /\ (pc' = "error" <=> error'.kind # "") /\ error'.kind # "Load"
  <2> HIDE DEF p
  <2> QED
    BY <1>1, <1>2, <1>4
<1>8. Configured' /\ Indexed' /\ Taken' /\ MissingNowhereElse'
  BY <1>1, <1>2, <1>7 DEF Configured, Indexed, Taken, MissingNowhereElse
<1> QED
  BY <1>1, <1>2, <1>6, <1>7, <1>8 DEF LoaderInv

\* What the metadata makes of the configuration.
LEMMA ReadKinds ==
  ASSUME NEW metadata, NEW debug
  PROVE  LET read == FromMetadata(metadata, debug)
         IN read.err \in {"Ok", "panic", "error"} /\ (read.err = "Ok" => read.c # <<>>)
<1> DEFINE read == FromMetadata(metadata, debug)
           keys == ReadKeys(metadata)
           derived == Derived(InnerSize(metadata), keys)
           c == [k \in DOMAIN keys \cup DOMAIN derived |-> IF k \in DOMAIN keys THEN keys[k] ELSE derived[k]]
<1>1. read \in {Reject("error"), Reject("panic"), [err |-> "Ok", c |-> c]}
  BY DEF FromMetadata
<1>2. c # <<>>
  <2>1. "block_count" \in DOMAIN keys
    BY DEF ReadKeys, Required
  <2>2. "block_count" \in DOMAIN c
    BY <2>1
  <2> QED
    BY <2>2
<1> HIDE DEF c, read
<1>3. read.err \in {"Ok", "panic", "error"} /\ (read.err = "Ok" => read.c # <<>>)
  <2>1. CASE read = Reject("error")
    BY <2>1 DEF Reject
  <2>2. CASE read = Reject("panic")
    BY <2>2 DEF Reject
  <2>3. CASE read = [err |-> "Ok", c |-> c]
    BY <1>2, <2>3
  <2> QED
    BY <1>1, <2>1, <2>2, <2>3
<1> QED
  BY <1>3 DEF read

LEMMA ReadConfigKeeps ==
  ASSUME LoaderInv, ReadConfig
  PROVE  LoaderInv'
<1> DEFINE k == SelectInSeq(shards, DeclaresArchitecture)
<1>1. /\ disk' = disk /\ paths' = paths /\ shards' = shards /\ by_name' = by_name
      /\ weights' = weights /\ got' = got /\ pc = "open" /\ Len(shards) = Len(paths)
  BY DEF ReadConfig
<1>2. /\ disk \in Installed /\ cfg = <<>> /\ by_name = <<>> /\ weights = <<>> /\ got = <<>>
      /\ error.kind = "" /\ paths # <<>>
  BY <1>1 DEF LoaderInv, SiblingNames, Configured, Indexed, Taken
<1>3. ReadOnce.err \in {"Ok", "panic", "error"} /\ (ReadOnce.err = "Ok" => ReadOnce.c # <<>>)
  BY ReadKinds DEF ReadOnce
<1>4. \/ /\ pc' = "error" /\ error'.kind \in {"NoConfigShard", "Config"} /\ cfg' = cfg
      \/ /\ k # 0 /\ ReadOnce.err = "panic" /\ pc' = "panic" /\ error' = error /\ cfg' = cfg
      \/ /\ k # 0 /\ ReadOnce.err = "Ok" /\ pc' = "index" /\ error' = error /\ cfg' = ReadOnce.c
  <2>1. CASE k = 0
    <3>1. Errs("NoConfigShard", "") /\ UNCHANGED cfg
      BY <2>1, Zenon DEF ReadConfig
    <3> QED
      BY <3>1 DEF Errs
  <2>2. CASE k # 0 /\ ReadOnce.err = "panic"
    <3>1. pc' = "panic" /\ UNCHANGED <<error, cfg>>
      BY <2>2, Zenon DEF ReadConfig, ReadOnce, ConfigShard
    <3> QED
      BY <2>2, <3>1
  <2>3. CASE k # 0 /\ ReadOnce.err = "error"
    <3>1. Errs("Config", shards[k].path) /\ UNCHANGED cfg
      <4>1. ReadOnce.err # "panic" /\ ReadOnce.err # "Ok"
        BY <2>3
      <4> QED
        BY <2>3, <4>1, Zenon DEF ReadConfig, ReadOnce, ConfigShard
    <3> QED
      BY <3>1 DEF Errs
  <2>4. CASE k # 0 /\ ReadOnce.err = "Ok"
    <3>1. cfg' = ReadOnce.c /\ pc' = "index" /\ UNCHANGED error
      <4>1. ReadOnce.err # "panic"
        BY <2>4
      <4> QED
        BY <2>4, <4>1, Zenon DEF ReadConfig, ReadOnce, ConfigShard
    <3> QED
      BY <2>4, <3>1
  <2> QED
    BY <1>3, <2>1, <2>2, <2>3, <2>4
<1>5. /\ SelectInSeq(shards, DeclaresArchitecture)' = k
      /\ ReadOnce' = ReadOnce
  BY <1>1, ShardsSame
<1> HIDE DEF k
<1>6. /\ pc' \in {"index", "panic", "error"} /\ (pc' = "error" <=> error'.kind # "")
      /\ error'.kind # "Load"
  BY <1>2, <1>4
<1>7. SiblingNames' /\ ShardsOpen'
  BY <1>1, <1>2, <1>6, ShardsKeep
<1>8. Configured'
  <2>1. CASE cfg' = cfg /\ pc' = "error"
    BY <1>2, <2>1 DEF Configured
  <2>2. CASE k # 0 /\ ReadOnce.err = "panic" /\ pc' = "panic" /\ cfg' = cfg
    BY <1>2, <1>5, <2>2 DEF Configured, k
  <2>3. CASE k # 0 /\ ReadOnce.err = "Ok" /\ pc' = "index" /\ cfg' = ReadOnce.c
    BY <1>3, <1>5, <2>3 DEF Configured, k
  <2> QED
    BY <1>4, <2>1, <2>2, <2>3
<1>9. Indexed' /\ Taken' /\ MissingNowhereElse'
  BY <1>1, <1>2, <1>6 DEF Indexed, Taken, MissingNowhereElse
<1> QED
  BY <1>1, <1>2, <1>6, <1>7, <1>8, <1>9 DEF LoaderInv

LEMMA IndexShardsKeeps ==
  ASSUME LoaderInv, IndexShards
  PROVE  LoaderInv'
<1>1. /\ disk' = disk /\ paths' = paths /\ shards' = shards /\ cfg' = cfg /\ error' = error
      /\ weights' = weights /\ got' = got /\ pc = "index" /\ pc' = "ready" /\ by_name' = Index
  BY DEF IndexShards
<1>2. /\ disk \in Installed /\ cfg # <<>> /\ weights = <<>> /\ got = <<>> /\ error.kind = ""
      /\ paths # <<>> /\ shards \in Seq(Opened) /\ Len(shards) = Len(paths)
  BY <1>1 DEF LoaderInv, SiblingNames, ShardsOpen, Configured, Indexed, Taken
<1>3. /\ SelectInSeq(shards, DeclaresArchitecture)' = SelectInSeq(shards, DeclaresArchitecture)
      /\ ReadOnce' = ReadOnce /\ \A map : Lists(map)' <=> Lists(map)
  BY <1>1, ShardsSame
<1>4. SiblingNames' /\ ShardsOpen'
  BY <1>1, <1>2, ShardsKeep
<1>5. Configured'
  <2>1. Configured
    BY DEF LoaderInv
  <2> QED
    BY <1>1, <1>2, <1>3, <2>1 DEF Configured
<1>6. Indexed'
  <2>1. Best(Index, ListedBy(Len(shards)))
    BY <1>2, IndexBest
  <2>2. Lists(Index)
    BY <1>2, <2>1, BestLists
  <2>3. Lists(by_name)'
    <3>1. PICK m : m = Index
      OBVIOUS
    <3>2. Lists(m)' /\ by_name' = m
      BY <1>1, <1>3, <2>2, <3>1
    <3> QED
      BY <3>2 DEF Lists
  <2> QED
    BY <1>1, <2>3 DEF Indexed
<1>7. Taken' /\ MissingNowhereElse'
  BY <1>1, <1>2 DEF Taken, MissingNowhereElse
<1> QED
  BY <1>1, <1>2, <1>4, <1>5, <1>6, <1>7 DEF LoaderInv

\* The steps once the index is there.
LEMMA LaterKeeps ==
  ASSUME LoaderInv, disk' = disk, paths' = paths, shards' = shards, cfg' = cfg,
         by_name' = by_name, pc \in {"ready", "loaded"}, pc' \in {"ready", "loaded", "error", "panic"}
  PROVE  /\ SiblingNames' /\ ShardsOpen' /\ Configured' /\ Lists(by_name)'
         /\ Lists(by_name) /\ cfg # <<>> /\ Len(shards) = Len(paths) /\ Indexed'
<1>1. /\ cfg # <<>> /\ Lists(by_name) /\ paths # <<>> /\ Len(shards) = Len(paths)
  BY DEF LoaderInv, SiblingNames, ShardsOpen, Configured, Indexed
<1>2. /\ SelectInSeq(shards, DeclaresArchitecture)' = SelectInSeq(shards, DeclaresArchitecture)
      /\ ReadOnce' = ReadOnce /\ \A map : Lists(map)' <=> Lists(map)
  BY ShardsSame
<1>3. SiblingNames' /\ ShardsOpen'
  BY <1>1, ShardsKeep
<1>4. Configured'
  <2>1. Configured
    BY DEF LoaderInv
  <2> QED
    BY <1>1, <1>2, <2>1 DEF Configured
<1>5. Lists(by_name)'
  <2>1. PICK m : m = by_name
    OBVIOUS
  <2>2. Lists(m)' /\ by_name' = m
    BY <1>1, <1>2, <2>1 DEF Lists
  <2> QED
    BY <2>2 DEF Lists
<1>6. Indexed'
  BY <1>5 DEF Indexed
<1> QED
  BY <1>1, <1>3, <1>4, <1>5, <1>6

\* What is not all in the file it is read from fits no file.
LEMMA NothingFits ==
  ASSUME NEW name \in DOMAIN by_name, Lists(by_name), ~Inside(Raw(name))
  PROVE  Fitting(name) = {}
<1>1. ASSUME Fitting(name) # {}
      PROVE  FALSE
  <2>1. by_name[name] \in Fitting(name)
    BY <1>1 DEF Lists
  <2>2. Fits(shards[by_name[name].shard], by_name[name].meta)
    BY <2>1 DEF Fitting
  <2>3. PICK e, s, size : /\ e = by_name[name] /\ s = shards[e.shard]
                          /\ size = TensorSize(e.meta.type, NElements(e.meta.dims))
    OBVIOUS
  <2>4. s.gguf.data_offset + e.meta.offset + size <= s.gguf.len
    BY <2>2, <2>3 DEF Fits
  <2>5. Raw(name).shard = e.shard /\ Raw(name).offset = s.gguf.data_offset + e.meta.offset
        /\ Raw(name).len = size
    BY <2>3 DEF Raw
  <2>6. Inside(Raw(name))
    <3>1. PICK r : r = Raw(name)
      OBVIOUS
    <3>2. r.shard = e.shard /\ r.offset = s.gguf.data_offset + e.meta.offset /\ r.len = size
      BY <2>5, <3>1
    <3>3. r.offset + r.len <= shards[r.shard].gguf.len
      BY <2>3, <2>4, <3>2
    <3> QED
      BY <3>1, <3>3 DEF Inside
  <2> QED
    BY <2>6
<1> QED
  BY <1>1

LEMMA DataSliceKeeps ==
  ASSUME LoaderInv, NEW name \in DOMAIN by_name, DataSlice(name)
  PROVE  LoaderInv'
<1>1. /\ disk' = disk /\ pc' = pc /\ error' = error /\ paths' = paths /\ shards' = shards
      /\ cfg' = cfg /\ by_name' = by_name /\ weights' = weights /\ pc = "ready"
  BY DEF DataSlice
<1>2. /\ disk \in Installed /\ error.kind = "" /\ weights = <<>>
  BY <1>1 DEF LoaderInv, Taken
<1>3. /\ SiblingNames' /\ ShardsOpen' /\ Configured' /\ Lists(by_name)' /\ Lists(by_name)
      /\ Indexed'
  BY <1>1, LaterKeeps
<1>4. Taken'
  BY <1>1, <1>2 DEF Taken
<1>5. MissingNowhereElse'
  <2>1. SUFFICES ASSUME got'.is = <<"OutOfBounds">>
                 PROVE  Fitting(got.name)' = {} /\ pc' # "panic" /\ weights' = <<>>
    BY DEF MissingNowhereElse
  <2>2. PICK is : is = IF ~SizedHere(name) THEN <<"Quant">>
                       ELSE IF ~Inside(Raw(name)) THEN <<"OutOfBounds">>
                       ELSE <<"ok", BytesOf(Raw(name))>>
    OBVIOUS
  <2>3. got' = [name |-> name, is |-> is]
    BY <2>2, Zenon DEF DataSlice
  <2>4. got'.name = name /\ got'.is = is
    BY <2>3
  <2>5. ~Inside(Raw(name))
    BY <2>1, <2>2, <2>4
  <2>6. Fitting(name) = {}
    BY <1>3, <2>5, NothingFits
  <2>7. \A n : Fitting(n)' = Fitting(n)
    BY <1>1, ShardsSame
  <2>8. Fitting(got.name)' = {}
    <3>1. Fitting(name)' = {}
      BY <2>6, <2>7
    <3> QED
      BY <2>4, <3>1 DEF Fitting, Listings
  <2> QED
    BY <1>1, <1>2, <2>8
<1> QED
  BY <1>1, <1>2, <1>3, <1>4, <1>5 DEF LoaderInv

LEMMA LoadKeeps ==
  ASSUME LoaderInv, Load
  PROVE  LoaderInv'
<1>1. /\ disk' = disk /\ paths' = paths /\ shards' = shards /\ cfg' = cfg /\ by_name' = by_name
      /\ got' = <<>> /\ pc = "ready"
  BY DEF Load
<1>2. /\ disk \in Installed /\ error.kind = "" /\ weights = <<>>
  BY <1>1 DEF LoaderInv, Taken
<1>3. \/ /\ Loadable /\ weights' = [name \in Needed |-> Raw(name)]
         /\ pc' = "loaded" /\ error' = error
      \/ /\ ~Loadable /\ pc' = "error" /\ error'.kind = "Load" /\ weights' = weights
  <2>1. CASE Loadable
    <3>1. /\ weights' = [name \in Needed |-> Raw(name)]
          /\ pc' = "loaded" /\ UNCHANGED error
      BY <2>1, Zenon DEF Load, Loadable
    <3> QED
      BY <2>1, <3>1
  <2>2. CASE ~Loadable
    <3>1. Errs("Load", "") /\ UNCHANGED weights
      BY <2>2, Zenon DEF Load, Loadable
    <3> QED
      BY <2>2, <3>1 DEF Errs
  <2> QED
    BY <2>1, <2>2
<1>4. pc' \in {"loaded", "error"} /\ (pc' = "error" <=> error'.kind # "")
  BY <1>2, <1>3
<1>5. /\ SiblingNames' /\ ShardsOpen' /\ Configured' /\ Indexed'
      /\ cfg # <<>> /\ Len(shards) = Len(paths)
  BY <1>1, <1>4, LaterKeeps
<1>6. /\ Needed' = Needed /\ (Loadable' <=> Loadable) /\ \A name : Raw(name)' = Raw(name)
  BY <1>1, NeededSame
<1>7. Taken'
  <2>1. CASE Loadable /\ weights' = [name \in Needed |-> Raw(name)] /\ pc' = "loaded" /\ error' = error
    <3>1. [name \in Needed |-> Raw(name)]' = [name \in Needed |-> Raw(name)]
      BY <1>6
    <3>2. error'.kind # "Load"
      BY <1>2, <2>1
    <3> QED
      BY <1>6, <2>1, <3>1, <3>2 DEF Taken
  <2>2. CASE ~Loadable /\ pc' = "error" /\ weights' = weights
    BY <1>1, <1>2, <1>5, <1>6, <2>2 DEF Taken
  <2> QED
    BY <1>3, <2>1, <2>2
<1>8. MissingNowhereElse'
  BY <1>1 DEF MissingNowhereElse
<1> QED
  BY <1>1, <1>2, <1>4, <1>5, <1>7, <1>8 DEF LoaderInv

LEMMA UseWeightKeeps ==
  ASSUME LoaderInv, NEW name \in DOMAIN weights, UseWeight(name)
  PROVE  LoaderInv'
<1>1. /\ disk' = disk /\ error' = error /\ paths' = paths /\ shards' = shards
      /\ cfg' = cfg /\ by_name' = by_name /\ weights' = weights /\ pc = "loaded"
  BY DEF UseWeight
<1>2. /\ disk \in Installed /\ error.kind = ""
      /\ Loadable /\ weights = [n \in Needed |-> Raw(n)]
  BY <1>1 DEF LoaderInv, Taken
<1>3. \/ /\ pc' = pc /\ Inside(weights[name])
         /\ got' = [name |-> name, is |-> <<"ok", BytesOf(weights[name])>>]
      \/ /\ pc' = "panic" /\ ~Inside(weights[name])
         /\ got' = [name |-> name, is |-> <<"OutOfBounds">>]
  BY Zenon DEF UseWeight
<1>4. pc' \in {"loaded", "panic"}
  BY <1>1, <1>3
<1>5. /\ SiblingNames' /\ ShardsOpen' /\ Configured' /\ Indexed' /\ Lists(by_name)
  BY <1>1, <1>4, LaterKeeps
<1>6. /\ Needed' = Needed /\ (Loadable' <=> Loadable) /\ \A n : Raw(n)' = Raw(n)
  BY <1>1, NeededSame
<1>7. Taken'
  <2>1. [n \in Needed |-> Raw(n)]' = [n \in Needed |-> Raw(n)]
    BY <1>6
  <2>2. weights' = [n \in Needed |-> Raw(n)]'
    BY <1>1, <1>2, <2>1
  <2>3. error'.kind # "Load"
    BY <1>1, <1>2
  <2> QED
    BY <1>2, <1>4, <1>6, <2>2, <2>3 DEF Taken
<1>8. MissingNowhereElse'
  <2>1. CASE got' = [name |-> name, is |-> <<"ok", BytesOf(weights[name])>>]
    <3>1. got'.is[1] = "ok"
      BY <2>1
    <3>2. got'.is # <<"OutOfBounds">>
      BY <3>1
    <3> QED
      BY <3>2 DEF MissingNowhereElse
  <2>2. CASE pc' = "panic" /\ ~Inside(weights[name]) /\ got' = [name |-> name, is |-> <<"OutOfBounds">>]
    <3>1. name \in Needed /\ weights[name] = Raw(name)
      BY <1>2
    <3>2. name \in DOMAIN by_name
      BY <1>2, <3>1 DEF Loadable
    <3>3. Fitting(name) = {}
      BY <1>5, <2>2, <3>1, <3>2, NothingFits
    <3>4. Fitting(name)' = {}
      BY <1>1, <3>3, ShardsSame
    <3>5. got'.name = name
      BY <2>2
    <3>6. Fitting(got.name)' = {}
      BY <3>4, <3>5 DEF Fitting, Listings
    <3>7. weights # <<>>
      <4>1. DOMAIN weights # {}
        OBVIOUS
      <4> QED
        BY <4>1
    <3> QED
      BY <1>1, <2>2, <3>6, <3>7 DEF MissingNowhereElse
  <2> QED
    BY <1>3, <2>1, <2>2
<1> QED
  BY <1>1, <1>2, <1>4, <1>5, <1>7, <1>8 DEF LoaderInv

LEMMA InitHolds ==
  ASSUME Init
  PROVE  LoaderInv
<1>1. /\ disk \in Installed /\ pc = "probe" /\ error.kind = "" /\ paths = <<>> /\ shards = <<>>
      /\ cfg = <<>> /\ by_name = <<>> /\ weights = <<>> /\ got = <<>>
  <2>1. disk \in Installed
    BY Zenon DEF Init, Installed
  <2> QED
    BY <2>1 DEF Init, NoError
<1>2. /\ Len(paths) = 0 /\ Len(shards) = 0 /\ DOMAIN shards = {}
      /\ paths \in Seq(FileName) /\ shards \in Seq(Opened)
  <2>1. paths = <<>> /\ shards = <<>>
    BY <1>1
  <2>2. Len(paths) = 0 /\ Len(shards) = 0 /\ DOMAIN shards = {}
    BY <2>1
  <2> QED
    BY <2>1, <2>2, EmptySeq
<1>3. ~(Len(paths) > 1) /\ Len(paths) # 1 /\ Len(shards) <= Len(paths)
  BY <1>2
<1>4. SiblingNames
  BY <1>1, <1>2, <1>3 DEF SiblingNames
<1>5. ShardsOpen
  <2>1. pc \notin {"index", "ready", "loaded", "panic"}
    BY <1>1
  <2> QED
    BY <1>2, <1>3, <2>1, Zenon DEF ShardsOpen
<1>6. Configured /\ Indexed /\ Taken /\ MissingNowhereElse
  BY <1>1 DEF Configured, Indexed, Taken, MissingNowhereElse
<1> QED
  BY <1>1, <1>4, <1>5, <1>6 DEF LoaderInv

LEMMA StutterKeeps ==
  ASSUME LoaderInv, UNCHANGED vars
  PROVE  LoaderInv'
<1>1. /\ disk' = disk /\ pc' = pc /\ error' = error /\ paths' = paths /\ shards' = shards
      /\ cfg' = cfg /\ by_name' = by_name /\ weights' = weights /\ got' = got
  BY DEF vars
<1>2. /\ disk \in Installed /\ (pc = "error" <=> error.kind # "")
      /\ pc \in {"probe", "open", "config", "index", "ready", "loaded", "error", "panic"}
  BY DEF LoaderInv
<1>3. /\ Opened' = Opened /\ Open(disk.first)' = Open(disk.first)
  BY <1>1, OpenSame
<1>4. SiblingNames'
  <2>1. SplitCount(Open(disk.first).metadata)' = SplitCount(Open(disk.first).metadata)
    BY <1>3 DEF SplitCount
  <2>2. SiblingNames
    BY DEF LoaderInv
  <2> QED
    BY <1>1, <2>1, <2>2, Zenon DEF SiblingNames
<1>5. ShardsOpen'
  <2>1. ShardsOpen
    BY DEF LoaderInv
  <2> QED
    BY <1>1, <1>3, <2>1, Zenon DEF ShardsOpen
<1>6. /\ SelectInSeq(shards, DeclaresArchitecture)' = SelectInSeq(shards, DeclaresArchitecture)
      /\ ReadOnce' = ReadOnce
      /\ \A name : Fitting(name)' = Fitting(name)
      /\ \A map : Lists(map)' <=> Lists(map)
  BY <1>1, ShardsSame
<1>7. Configured'
  <2>1. Configured
    BY DEF LoaderInv
  <2> QED
    BY <1>1, <1>6, <2>1, Zenon DEF Configured
<1>8. Indexed'
  <2>1. PICK m : m = by_name
    OBVIOUS
  <2>2. Lists(by_name)' <=> Lists(by_name)
    BY <1>1, <1>6, <2>1 DEF Lists
  <2>3. Indexed
    BY DEF LoaderInv
  <2> QED
    BY <1>1, <2>2, <2>3, Zenon DEF Indexed
<1>9. Taken'
  <2>1. /\ Needed' = Needed /\ (Loadable' <=> Loadable) /\ \A name : Raw(name)' = Raw(name)
    BY <1>1, NeededSame
  <2>2. [name \in Needed |-> Raw(name)]' = [name \in Needed |-> Raw(name)]
    BY <2>1
  <2>3. Taken
    BY DEF LoaderInv
  <2> QED
    BY <1>1, <2>1, <2>2, <2>3, Zenon DEF Taken
<1>10. MissingNowhereElse'
  <2>1. PICK g : g = got
    OBVIOUS
  <2>2. Fitting(g.name)' = Fitting(g.name) /\ got' = g
    BY <1>1, <1>6, <2>1
  <2>3. Fitting(got.name)' = Fitting(got.name)
    BY <2>1, <2>2 DEF Fitting, Listings
  <2>4. MissingNowhereElse
    BY DEF LoaderInv
  <2> QED
    BY <1>1, <2>3, <2>4, Zenon DEF MissingNowhereElse
<1> QED
  BY <1>1, <1>2, <1>4, <1>5, <1>7, <1>8, <1>9, <1>10 DEF LoaderInv

LEMMA StepKeeps ==
  ASSUME LoaderInv, [Next]_vars
  PROVE  LoaderInv'
<1>1. CASE Probe
  BY <1>1, ProbeKeeps
<1>2. CASE OpenShard
  BY <1>2, OpenShardKeeps
<1>3. CASE ReadConfig
  BY <1>3, ReadConfigKeeps
<1>4. CASE IndexShards
  BY <1>4, IndexShardsKeeps
<1>5. CASE \E name \in DOMAIN by_name : DataSlice(name)
  BY <1>5, DataSliceKeeps
<1>6. CASE Load
  BY <1>6, LoadKeeps
<1>7. CASE \E name \in DOMAIN weights : UseWeight(name)
  BY <1>7, UseWeightKeeps
<1>8. CASE UNCHANGED vars
  BY <1>8, StutterKeeps
<1> QED
  BY <1>1, <1>2, <1>3, <1>4, <1>5, <1>6, <1>7, <1>8 DEF Next

\* The invariant holds in every state of the program, whatever is on the disk.
THEOREM LoaderInvariant == Spec => []LoaderInv
<1>1. Init => LoaderInv
  BY InitHolds
<1>2. LoaderInv /\ [Next]_vars => LoaderInv'
  BY StepKeeps
<1> QED
  BY <1>1, <1>2, PTL DEF Spec

-----------------------------------------------------------------------------
(* What follows from it.                                                   *)

LEMMA InvTypeOK ==
  ASSUME LoaderInv
  PROVE  TypeOK
<1>1. /\ pc \in {"probe", "open", "config", "index", "ready", "loaded", "error", "panic"}
      /\ pc = "error" <=> error.kind # ""
      /\ Len(shards) <= Len(paths) /\ \A i \in DOMAIN shards : shards[i].path = paths[i]
      /\ Len(paths) > 1 => \A i \in DOMAIN paths : paths[i].idx = i /\ paths[i].of = Len(paths)
  BY DEF LoaderInv, SiblingNames, ShardsOpen
<1>2. ASSUME NEW name \in DOMAIN by_name
      PROVE  /\ by_name[name].meta.name = name
             /\ Contains(shards[by_name[name].shard].gguf.tensors, by_name[name].meta)
  <2>1. by_name # <<>>
    OBVIOUS
  <2>2. Lists(by_name)
    BY <2>1 DEF LoaderInv, Indexed
  <2>3. by_name[name] \in Listings(name)
    BY <2>2 DEF Lists
  <2> QED
    BY <2>3 DEF Listings
<1> QED
  BY <1>1, <1>2, Zenon DEF TypeOK

\* The shards opened are those named, and every entry of the index names a
\* shard that lists its tensor (ModelLoader::open, loader.rs).
THEOREM LoaderTypeOK == Spec => []TypeOK
<1>1. LoaderInv => TypeOK
  BY InvTypeOK
<1> QED
  BY <1>1, LoaderInvariant, PTL

LEMMA InvIndexFits ==
  ASSUME LoaderInv
  PROVE  IndexFits
<1> SUFFICES ASSUME pc \in {"ready", "loaded"}
             PROVE  IndexFits
  BY DEF IndexFits
<1>1. Lists(by_name)
  BY DEF LoaderInv, Indexed
<1> QED
  BY <1>1 DEF IndexFits, Lists

\* The merge of the shards' indexes prefers a listing that fits its file, in
\* whatever order the shards come (loader.rs, the loop over by_name).
THEOREM LoaderIndexFits == Spec => []IndexFits
<1>1. LoaderInv => IndexFits
  BY InvIndexFits
<1> QED
  BY <1>1, LoaderInvariant, PTL

\* data_slice and RawTensor::data miss bytes only of tensors that no shard has
\* whole.
THEOREM LoaderMissingNowhereElse == Spec => []MissingNowhereElse
<1>1. LoaderInv => MissingNowhereElse
  BY DEF LoaderInv
<1> QED
  BY <1>1, LoaderInvariant, PTL

\* The names of pipeline.rs and those of config.rs, of a mixture of experts
\* with a shared one.
LEMMA NamesAgree ==
  ASSUME cfg["expert_count"] > 0, cfg["expert_shared_feed_forward_length"] > 0
  PROVE  Needed \subseteq ExpectedTensors(cfg)
         /\ ExpectedTensors(cfg) \subseteq Needed \cup {"output.weight"}
<1>1. cfg["expert_count"] # 0
  BY SMT
<1>2. ASSUME NEW i \in 0..(cfg["block_count"] - 1)
      PROVE  LayerWeights(i) = {BlockName(i, s) : s \in BaseNames \cup
                                  (IF Recurrent(cfg, i) THEN LinearAttn ELSE FullAttn)}
  <2>1. MoeWeights = {"ffn_gate_inp.weight", "ffn_gate_exps.weight", "ffn_up_exps.weight",
                      "ffn_down_exps.weight", "ffn_gate_shexp.weight", "ffn_up_shexp.weight",
                      "ffn_down_shexp.weight", "ffn_gate_inp_shexp.weight"}
    BY DEF MoeWeights
  <2>2. Norms \cup MoeWeights = BaseNames
    BY <2>1 DEF Norms, BaseNames
  <2>3. DeltaNetWeights = LinearAttn /\ FullAttnWeights = FullAttn
    BY DEF DeltaNetWeights, LinearAttn, FullAttnWeights, FullAttn
  <2> DEFINE own == IF Recurrent(cfg, i) THEN LinearAttn ELSE FullAttn
  <2>4. LayerWeights(i) = {BlockName(i, s) : s \in Norms \cup own \cup MoeWeights}
    BY <1>1, <2>3, Zenon DEF LayerWeights
  <2> HIDE DEF own
  <2>5. Norms \cup own \cup MoeWeights = BaseNames \cup own
    BY <2>2
  <2>6. LayerWeights(i) = {BlockName(i, s) : s \in BaseNames \cup own}
    BY <2>4, <2>5
  <2> QED
    BY <2>6 DEF own
<1> DEFINE I == 0..(cfg["block_count"] - 1)
           w(i) == {BlockName(i, s) : s \in BaseNames \cup
                      (IF Recurrent(cfg, i) THEN LinearAttn ELSE FullAttn)}
           rest == UNION {w(i) : i \in I}
<1>3. ExpectedTensors(cfg) = Global \cup rest
  BY Zenon DEF ExpectedTensors
<1>4. Needed = {"token_embd.weight", "output_norm.weight"}
                 \cup ({"output.weight"} \cap DOMAIN by_name) \cup UNION {LayerWeights(i) : i \in I}
  BY Zenon DEF Needed
<1>5. \A i \in I : LayerWeights(i) = w(i)
  BY <1>2
<1> HIDE DEF I, w
<1>6. (UNION {LayerWeights(i) : i \in I}) = rest
  BY <1>5
<1>7. Needed = {"token_embd.weight", "output_norm.weight"}
                 \cup ({"output.weight"} \cap DOMAIN by_name) \cup rest
  BY <1>4, <1>6
<1> HIDE DEF rest
<1> QED
  BY <1>3, <1>7 DEF Global

LEMMA InvLoadsWhatIsExpected ==
  ASSUME LoaderInv
  PROVE  LoadsWhatIsExpected
<1> SUFFICES ASSUME pc = "loaded" \/ error.kind = "Load", Len(shards) = 1,
                    cfg["expert_count"] > 0, cfg["expert_shared_feed_forward_length"] > 0
             PROVE  LoadsWhatIsExpected
  BY DEF LoadsWhatIsExpected
<1>1. /\ Needed \subseteq ExpectedTensors(cfg)
      /\ ExpectedTensors(cfg) \subseteq Needed \cup {"output.weight"}
  BY NamesAgree
<1>2. /\ disk \in Installed /\ shards \in Seq(Opened)
      /\ pc = "loaded" => Loadable
      /\ error.kind = "Load" => ~Loadable
      /\ Len(shards) = Len(paths)
      /\ \A i \in DOMAIN shards : shards[i].path = paths[i]
  BY DEF LoaderInv, ShardsOpen, Taken
<1>3. paths[1] = disk.first /\ ~(SplitCount(Open(disk.first).metadata) > 1)
  BY <1>2 DEF LoaderInv, SiblingNames
<1>4. shards[1].gguf = Open(disk.first)
  <2>1. 1 \in DOMAIN shards
    BY <1>2, LenProperties
  <2>2. shards[1].gguf = Open(shards[1].path) /\ shards[1].path = paths[1]
    BY <1>2, <2>1, ShardType
  <2> QED
    BY <1>3, <2>2
<1>5. ASSUME ValidTensors(cfg, shards[1].gguf.metadata, DOMAIN by_name),
             \A n \in DOMAIN by_name : SizedHere(n)
      PROVE  pc = "loaded"
  <2>1. ExpectedTensors(cfg) \subseteq DOMAIN by_name
    BY <1>3, <1>4, <1>5 DEF ValidTensors, SplitCount
  <2>2. Loadable
    BY <1>1, <1>5, <2>1 DEF Loadable
  <2> QED
    BY <1>2, <2>2
<1>6. ASSUME pc = "loaded"
      PROVE  ExpectedTensors(cfg) \subseteq DOMAIN by_name \cup {"output.weight"}
  <2>1. Needed \subseteq DOMAIN by_name
    BY <1>2, <1>6 DEF Loadable
  <2> QED
    BY <1>1, <2>1
<1> QED
  BY <1>5, <1>6 DEF LoadsWhatIsExpected

\* Of a file that is no split, what the configuration accepts can be loaded,
\* and nothing is loaded with an expected tensor missing (validate_tensors of
\* config.rs and ModelWeights::load of pipeline.rs).
THEOREM LoaderLoadsWhatIsExpected == Spec => []LoadsWhatIsExpected
<1>1. LoaderInv => LoadsWhatIsExpected
  BY InvLoadsWhatIsExpected
<1> QED
  BY <1>1, LoaderInvariant, PTL

-----------------------------------------------------------------------------
(* The dimensions.                                                         *)

\* The metadata of the file the configuration is read from.
LEMMA ConfigTyped ==
  ASSUME disk \in Installed, shards \in Seq(Opened), SelectInSeq(shards, DeclaresArchitecture) # 0
  PROVE  \A key \in DOMAIN ConfigShard.gguf.metadata :
           IsU32(ConfigShard.gguf.metadata[key]) => ConfigShard.gguf.metadata[key].v \in Nat
<1> DEFINE J == {i \in 1..Len(shards) : DeclaresArchitecture(shards[i])}
           k == SelectInSeq(shards, DeclaresArchitecture)
<1>1. k \in J
  <2>1. J # {} /\ k = Min(J)
    BY DEF SelectInSeq
  <2>2. Len(shards) \in Nat
    BY LenProperties
  <2>3. J \subseteq Nat
    BY <2>2
  <2> HIDE DEF J, k
  <2>4. \E n \in J : \A m \in J : n <= m
    BY <2>1, <2>3, NatMin
  <2>5. Min(J) \in J
    BY <2>4, Zenon DEF Min
  <2> QED
    BY <2>1, <2>5
<1>2. k \in DOMAIN shards
  BY <1>1, LenProperties
<1>3. shards[k].gguf = Open(shards[k].path) /\ Open(shards[k].path).err = "Ok"
  BY <1>2, ShardType
<1>4. ConfigShard = shards[k]
  BY DEF ConfigShard
<1> HIDE DEF k
<1>5. PICK p : p = shards[k].path
  OBVIOUS
<1>6. ConfigShard.gguf = Open(p) /\ Open(p).err = "Ok"
  BY <1>3, <1>4, <1>5
<1> QED
  BY <1>6, OpenType

\* An accepted configuration has what the required keys say and what is
\* derived from them.
LEMMA Accepted ==
  ASSUME NEW metadata, NEW debug,
         \A key \in DOMAIN metadata : IsU32(metadata[key]) => metadata[key].v \in Nat,
         FromMetadata(metadata, debug).err = "Ok"
  PROVE  LET c == FromMetadata(metadata, debug).c
             read == ReadKeys(metadata)
             inner == InnerSize(metadata)
         IN /\ \A k \in Required : c[k] = read[k] /\ read[k] \in Nat
            /\ \A k \in DOMAIN Derived(inner, read) : c[k] = Derived(inner, read)[k]
            /\ ~Panics(inner, read, debug)
            /\ c["ssm.time_step_rank"] > 0
<1> DEFINE all == FromMetadata(metadata, debug)
           read == ReadKeys(metadata)
           inner == InnerSize(metadata)
           derived == Derived(inner, read)
           c == [k \in DOMAIN read \cup DOMAIN derived |-> IF k \in DOMAIN read THEN read[k] ELSE derived[k]]
           bad == ~Readable(metadata) \/ read["attention.value_length"] # read["attention.key_length"]
           good == Valid(c, Items(Sections(metadata)), Positive(metadata))
<1>1. all = IF bad THEN Reject("error")
            ELSE IF Panics(inner, read, debug) THEN Reject("panic")
            ELSE IF good THEN [err |-> "Ok", c |-> c] ELSE Reject("error")
  BY Zenon DEF FromMetadata
<1>2. ~bad /\ ~Panics(inner, read, debug) /\ good /\ all = [err |-> "Ok", c |-> c]
  <2> HIDE DEF bad, good, c, inner, read
  <2>1. PICK p : p <=> Panics(inner, read, debug)
    OBVIOUS
  <2>2. all.err = "Ok"
    OBVIOUS
  <2> HIDE DEF all
  <2>3. Reject("error").err = "error" /\ Reject("panic").err = "panic"
    BY DEF Reject
  <2>4. ~bad
    BY <1>1, <2>2, <2>3
  <2>5. ~Panics(inner, read, debug)
    BY <1>1, <2>2, <2>3, <2>4
  <2>6. good
    BY <1>1, <2>2, <2>3, <2>4, <2>5
  <2> QED
    BY <1>1, <2>4, <2>5, <2>6
<1>3. all.c = c
  <2> HIDE DEF c, all
  <2> QED
    BY <1>2
<1>4. DOMAIN read = Required \cup Optional
  BY DEF ReadKeys
<1>5. DOMAIN derived \cap DOMAIN read = {}
  BY <1>4 DEF Derived, Required, Optional
<1>6. ASSUME NEW k \in Required
      PROVE  c[k] = read[k] /\ read[k] \in Nat
  <2>1. c[k] = read[k]
    BY <1>4
  <2>2. HasU32(metadata, k)
    BY <1>2 DEF Readable
  <2>3. read[k] = GetOr(metadata, k, Default(metadata, k))
    BY DEF ReadKeys
  <2>4. read[k] = metadata[Key(metadata, k)].v
    BY <2>2, <2>3, Zenon DEF GetOr
  <2>5. metadata[Key(metadata, k)].v \in Nat
    BY <2>2 DEF HasU32, Has
  <2> QED
    BY <2>1, <2>4, <2>5
<1>7. ASSUME NEW k \in DOMAIN derived
      PROVE  c[k] = derived[k]
  BY <1>5
<1>8. c["ssm.time_step_rank"] > 0
  BY <1>2, Zenon DEF Valid
<1> QED
  BY <1>2, <1>3, <1>6, <1>7, <1>8, Zenon

LEMMA PanicsWhere ==
  ASSUME NEW metadata, NEW debug, FromMetadata(metadata, debug).err = "panic"
  PROVE  Panics(InnerSize(metadata), ReadKeys(metadata), debug)
<1> DEFINE all == FromMetadata(metadata, debug)
           read == ReadKeys(metadata)
           inner == InnerSize(metadata)
           derived == Derived(inner, read)
           c == [k \in DOMAIN read \cup DOMAIN derived |-> IF k \in DOMAIN read THEN read[k] ELSE derived[k]]
           bad == ~Readable(metadata) \/ read["attention.value_length"] # read["attention.key_length"]
           good == Valid(c, Items(Sections(metadata)), Positive(metadata))
<1>1. all = IF bad THEN Reject("error")
            ELSE IF Panics(inner, read, debug) THEN Reject("panic")
            ELSE IF good THEN [err |-> "Ok", c |-> c] ELSE Reject("error")
  BY Zenon DEF FromMetadata
<1> HIDE DEF bad, good, c, inner, read
<1>2. all.err = "panic"
  OBVIOUS
<1> HIDE DEF all
<1>3. Reject("error").err # "panic" /\ [err |-> "Ok", c |-> c].err # "panic"
  BY DEF Reject
<1>4. Panics(inner, read, debug)
  BY <1>1, <1>2, <1>3
<1> QED
  BY <1>4 DEF inner, read

\* What does not reach the modulus is its own remainder.
LEMMA InFull ==
  ASSUME NEW n \in Nat, n < U32
  PROVE  n % U32 = n
BY WidthAssumption

LEMMA Quotient ==
  ASSUME NEW a \in Nat, NEW b \in Nat \ {0}
  PROVE  (a * b) \div b = a
<1>1. PICK q : q = (a * b) \div b
  OBVIOUS
<1> QED
  BY <1>1, Z3

\* Without an overflow the derived dimensions are what they are named for.
LEMMA DerivedInFull ==
  ASSUME NEW inner, NEW c, ~Overflows(c),
         c["ssm.state_size"] \in Nat, c["ssm.group_count"] \in Nat,
         c["ssm.time_step_rank"] \in Nat, c["attention.key_length"] \in Nat,
         c["attention.head_count"] \in Nat
  PROVE  LET d == Derived(inner, c)
         IN /\ d.conv_dim = c["ssm.state_size"] * (2 * c["ssm.group_count"] + c["ssm.time_step_rank"])
            /\ d.full_attn_q_fused_dim = 2 * c["attention.key_length"] * c["attention.head_count"]
            /\ d.full_attn_q_fused_dim < U32 /\ d.conv_dim < U32
<1>1. PICK s \in Nat : s = c["ssm.state_size"]
  OBVIOUS
<1>2. PICK g \in Nat : g = c["ssm.group_count"]
  OBVIOUS
<1>3. PICK r \in Nat : r = c["ssm.time_step_rank"]
  OBVIOUS
<1>4. PICK l \in Nat : l = c["attention.key_length"]
  OBVIOUS
<1>5. PICK h \in Nat : h = c["attention.head_count"]
  OBVIOUS
<1>6. \A p \in {s * g, s * r, 2 * s * g + s * r, 2 * l * h} : p < U32
  <2>1. {s * g, s * r, 2 * s * g + s * r, 2 * l * h} = Products(c)
    BY <1>1, <1>2, <1>3, <1>4, <1>5 DEF Products
  <2>2. \A p \in Products(c) : ~(p >= U32)
    BY Zenon DEF Overflows
  <2>3. {s * g, s * r, 2 * s * g + s * r, 2 * l * h} \subseteq Nat
    OBVIOUS
  <2> QED
    BY <2>1, <2>2, <2>3, WidthAssumption
<1>a. PICK a \in Nat : a = s * g
  <2>1. s * g \in Nat
    OBVIOUS
  <2> QED
    BY <2>1
<1>b. PICK b \in Nat : b = s * r
  <2>1. s * r \in Nat
    OBVIOUS
  <2> QED
    BY <2>1
<1>c. PICK m \in Nat : m = l * h
  <2>1. l * h \in Nat
    OBVIOUS
  <2> QED
    BY <2>1
<1>7. a < U32 /\ b < U32 /\ 2 * a + b < U32 /\ 2 * m < U32
  <2>1. 2 * s * g = 2 * a /\ 2 * l * h = 2 * m
    BY <1>a, <1>c
  <2> QED
    BY <1>6, <1>a, <1>b, <2>1
<1>8. a * 2 < U32 /\ m < U32 /\ m * 2 < U32
  BY <1>7, WidthAssumption
<1>9. Product(s, g) = a /\ Product(s, r) = b /\ Product(l, h) = m
  BY <1>a, <1>b, <1>c, <1>7, <1>8, InFull DEF Product
<1>10. Product(a, 2) = 2 * a /\ Product(m, 2) = 2 * m
  <2>1. a * 2 = 2 * a /\ m * 2 = 2 * m /\ 2 * a \in Nat /\ 2 * m \in Nat
    OBVIOUS
  <2>2. 2 * a < U32 /\ 2 * m < U32
    BY <1>8, <2>1
  <2>3. (2 * a) % U32 = 2 * a /\ (2 * m) % U32 = 2 * m
    BY <2>1, <2>2, InFull
  <2> QED
    BY <2>1, <2>3 DEF Product
<1>11. (2 * a + b) % U32 = 2 * a + b
  BY <1>7, InFull
<1>12. Derived(inner, c).conv_dim = 2 * a + b
  <2>1. Derived(inner, c).conv_dim = (Product(Product(s, g), 2) + Product(s, r)) % U32
    BY <1>1, <1>2, <1>3 DEF Derived
  <2> QED
    BY <1>9, <1>10, <1>11, <2>1
<1>13. Derived(inner, c).full_attn_q_fused_dim = 2 * m
  <2>1. Derived(inner, c).full_attn_q_fused_dim = Product(Product(l, h), 2)
    BY <1>4, <1>5 DEF Derived
  <2> QED
    BY <1>9, <1>10, <2>1
<1>14. 2 * a + b = s * (2 * g + r) /\ 2 * m = 2 * l * h
  BY <1>a, <1>b, <1>c
<1> QED
  BY <1>1, <1>2, <1>3, <1>4, <1>5, <1>7, <1>12, <1>13, <1>14

LEMMA HeadDims ==
  ASSUME NEW inner, NEW c, c["ssm.state_size"] \in Nat, c["ssm.time_step_rank"] \in Nat \ {0},
         inner \in {<<>>, <<c["ssm.state_size"] * c["ssm.time_step_rank"]>>}
  PROVE  Derived(inner, c).head_v_dim = Derived(inner, c).head_k_dim
<1>1. PICK s \in Nat : s = c["ssm.state_size"]
  OBVIOUS
<1>2. PICK r \in Nat \ {0} : r = c["ssm.time_step_rank"]
  OBVIOUS
<1>3. Derived(inner, c).head_v_dim = HeadVDim(inner, c) /\ Derived(inner, c).head_k_dim = s
  BY <1>1 DEF Derived
<1>4. CASE inner = <<>>
  BY <1>1, <1>3, <1>4 DEF HeadVDim
<1>5. CASE inner = <<s * r>>
  <2>1. (s * r) \div r = s
    BY Quotient
  <2>2. inner # <<>> /\ inner[1] = s * r
    BY <1>5
  <2>3. HeadVDim(inner, c) = inner[1] \div c["ssm.time_step_rank"]
    BY <2>2, Zenon DEF HeadVDim
  <2> QED
    BY <1>2, <1>3, <2>1, <2>2, <2>3
<1> QED
  BY <1>1, <1>2, <1>4, <1>5

LEMMA InvDimensionsHold ==
  ASSUME LoaderInv
  PROVE  DimensionsHold
<1>1. /\ disk \in Installed /\ shards \in Seq(Opened)
      /\ cfg # <<>> => /\ SelectInSeq(shards, DeclaresArchitecture) # 0
                       /\ ReadOnce.err = "Ok" /\ cfg = ReadOnce.c
      /\ pc = "panic" /\ cfg = <<>> => ReadOnce.err = "panic"
  BY DEF LoaderInv, ShardsOpen, Configured
<1>2. PICK metadata : metadata = ConfigShard.gguf.metadata
  OBVIOUS
<1>3. PICK debug : debug = disk.debug
  OBVIOUS
<1>4. ReadOnce = FromMetadata(metadata, debug)
  BY <1>2, <1>3 DEF ReadOnce
<1>5. PICK read : read = ReadKeys(metadata)
  OBVIOUS
<1>6. PICK inner : inner = InnerSize(metadata)
  OBVIOUS
<1>7. ASSUME cfg # <<>>
      PROVE  /\ \A k \in Required : cfg[k] = read[k] /\ read[k] \in Nat
             /\ \A k \in DOMAIN Derived(inner, read) : cfg[k] = Derived(inner, read)[k]
             /\ ~Panics(inner, read, debug)
             /\ cfg["ssm.time_step_rank"] > 0
  <2>1. \A key \in DOMAIN metadata : IsU32(metadata[key]) => metadata[key].v \in Nat
    BY <1>1, <1>2, <1>7, ConfigTyped
  <2>2. FromMetadata(metadata, debug).err = "Ok" /\ cfg = FromMetadata(metadata, debug).c
    BY <1>1, <1>4, <1>7
  <2> QED
    BY <1>5, <1>6, <2>1, <2>2, Accepted
<1>8. ASSUME cfg # <<>>
      PROVE  /\ cfg["ssm.state_size"] = read["ssm.state_size"] /\ read["ssm.state_size"] \in Nat
             /\ cfg["ssm.group_count"] = read["ssm.group_count"] /\ read["ssm.group_count"] \in Nat
             /\ cfg["ssm.time_step_rank"] = read["ssm.time_step_rank"]
             /\ read["ssm.time_step_rank"] \in Nat \ {0}
             /\ cfg["attention.key_length"] = read["attention.key_length"]
             /\ read["attention.key_length"] \in Nat
             /\ cfg["attention.head_count"] = read["attention.head_count"]
             /\ read["attention.head_count"] \in Nat
  <2>1. {"ssm.state_size", "ssm.group_count", "ssm.time_step_rank", "attention.key_length",
         "attention.head_count"} \subseteq Required
    BY DEF Required
  <2> QED
    BY <1>7, <1>8, <2>1
<1>9. ASSUME cfg # <<>>
      PROVE  /\ cfg["conv_dim"] = Derived(inner, read).conv_dim
             /\ cfg["full_attn_q_fused_dim"] = Derived(inner, read).full_attn_q_fused_dim
             /\ cfg["head_v_dim"] = Derived(inner, read).head_v_dim
             /\ cfg["head_k_dim"] = Derived(inner, read).head_k_dim
  <2>1. {"conv_dim", "full_attn_q_fused_dim", "head_v_dim", "head_k_dim"}
          \subseteq DOMAIN Derived(inner, read)
    BY DEF Derived
  <2> QED
    BY <1>7, <1>9, <2>1
<1>10. ASSUME cfg # <<>>, debug
       PROVE  /\ cfg["conv_dim"] = cfg["ssm.state_size"] *
                   (2 * cfg["ssm.group_count"] + cfg["ssm.time_step_rank"])
              /\ cfg["full_attn_q_fused_dim"] =
                   2 * cfg["attention.key_length"] * cfg["attention.head_count"]
              /\ cfg["full_attn_q_fused_dim"] < U32 /\ cfg["conv_dim"] < U32
  <2>1. ~Overflows(read)
    BY <1>7, <1>10, Zenon DEF Panics
  <2>2. /\ Derived(inner, read).conv_dim = read["ssm.state_size"] *
             (2 * read["ssm.group_count"] + read["ssm.time_step_rank"])
        /\ Derived(inner, read).full_attn_q_fused_dim =
             2 * read["attention.key_length"] * read["attention.head_count"]
        /\ Derived(inner, read).full_attn_q_fused_dim < U32
        /\ Derived(inner, read).conv_dim < U32
    BY <1>8, <1>10, <2>1, DerivedInFull
  <2> QED
    BY <1>8, <1>9, <1>10, <2>2
<1>11. ASSUME cfg # <<>>,
              inner \in {<<>>, <<cfg["ssm.state_size"] * cfg["ssm.time_step_rank"]>>}
       PROVE  cfg["head_v_dim"] = cfg["head_k_dim"]
  <2>1. inner \in {<<>>, <<read["ssm.state_size"] * read["ssm.time_step_rank"]>>}
    BY <1>8, <1>11
  <2>2. Derived(inner, read).head_v_dim = Derived(inner, read).head_k_dim
    BY <1>8, <1>11, <2>1, HeadDims
  <2> QED
    BY <1>9, <1>11, <2>2
<1>12. ASSUME pc = "panic", cfg = <<>>
       PROVE  \/ debug /\ Overflows(read)
              \/ read["ssm.time_step_rank"] = 0 /\ inner # <<>>
  <2>1. FromMetadata(metadata, debug).err = "panic"
    BY <1>1, <1>4, <1>12
  <2>2. Panics(inner, read, debug)
    BY <1>5, <1>6, <2>1, PanicsWhere
  <2> QED
    BY <2>2, Zenon DEF Panics
<1> QED
  BY <1>2, <1>3, <1>5, <1>6, <1>10, <1>11, <1>12, Zenon DEF DimensionsHold

\* No dimension is wrong in silence where overflow is checked, and the
\* configuration panics only where a product overflows or ssm.inner_size is
\* divided by zero (from_metadata of config.rs).
THEOREM LoaderDimensionsHold == Spec => []DimensionsHold
<1>1. LoaderInv => DimensionsHold
  BY InvDimensionsHold
<1> QED
  BY <1>1, LoaderInvariant, PTL
-----------------------------------------------------------------------------
(* What the shards and the tensors are read as.                            *)

\* A shard that could not be opened cannot be.
Refused == error.kind = "ShardOpen" => Open(error.of).err # "Ok"

\* Bytes that were read are where the index has their tensor.
ReadWhereIndexed ==
  got # <<>> /\ got.is[1] = "ok" =>
    /\ got.name \in DOMAIN by_name /\ SizedHere(got.name) /\ Inside(Raw(got.name))
    /\ got.is = <<"ok", BytesOf(Raw(got.name))>>

ReadInv == Refused /\ ReadWhereIndexed

LEMMA RawSame ==
  ASSUME disk' = disk, shards' = shards, by_name' = by_name
  PROVE  \A name : /\ SizedHere(name)' <=> SizedHere(name)
                   /\ Raw(name)' = Raw(name) /\ BytesOf(Raw(name))' = BytesOf(Raw(name))
                   /\ Inside(Raw(name))' <=> Inside(Raw(name))
<1>1. \A name : (SizedHere(name)' <=> SizedHere(name)) /\ Raw(name)' = Raw(name)
  BY DEF SizedHere, Raw
<1>2. \A raw : BytesOf(raw)' = BytesOf(raw) /\ (Inside(raw)' <=> Inside(raw))
  BY DEF BytesOf, OnDisk, Inside
<1>3. \A name : /\ BytesOf(Raw(name))' = BytesOf(Raw(name))
                /\ Inside(Raw(name))' <=> Inside(Raw(name))
  BY DEF BytesOf, OnDisk, Inside, Raw
<1> QED
  BY <1>1, <1>3

LEMMA RefusedKeeps ==
  ASSUME ReadInv, disk' = disk, error' = error
  PROVE  Refused'
<1>1. PICK of : of = error.of
  OBVIOUS
<1>2. Open(of)' = Open(of) /\ (Refused <=> (error.kind = "ShardOpen" => Open(of).err # "Ok"))
  BY <1>1, OpenSame DEF Refused
<1>3. error'.of = of
  BY <1>1
<1>4. Open(error.of)' = Open(of)
  BY <1>1, <1>2, <1>3 DEF Open, OnDisk
<1> QED
  BY <1>2, <1>4 DEF Refused, ReadInv

\* A shard that is refused is one that cannot be opened.
LEMMA RefusedAt ==
  ASSUME NEW path, Open(path).err # "Ok", disk' = disk, Errs("ShardOpen", path)
  PROVE  Refused'
<1>1. error' = [kind |-> "ShardOpen", of |-> path]
  BY DEF Errs
<1>2. error'.of = path
  BY <1>1
<1>3. Open(error.of)' = Open(path)
  BY <1>2 DEF Open, OnDisk
<1> QED
  BY <1>3 DEF Refused

\* Another error is none about opening.
LEMMA RefusedElse ==
  ASSUME NEW kind, kind # "ShardOpen", NEW of, Errs(kind, of)
  PROVE  Refused'
<1>1. error' = [kind |-> kind, of |-> of]
  BY Zenon DEF Errs
<1>2. error'.kind = kind
  BY <1>1
<1> QED
  BY <1>2 DEF Refused

LEMMA NothingRead ==
  ASSUME got' = <<>>
  PROVE  ReadWhereIndexed'
BY DEF ReadWhereIndexed

LEMMA ReadWhereKeeps ==
  ASSUME ReadInv, disk' = disk, shards' = shards, by_name' = by_name, got' = got
  PROVE  ReadWhereIndexed'
<1>1. PICK n : n = got.name
  OBVIOUS
<1>2. /\ SizedHere(n)' <=> SizedHere(n)
      /\ BytesOf(Raw(n))' = BytesOf(Raw(n)) /\ (Inside(Raw(n))' <=> Inside(Raw(n)))
  BY RawSame
<1>3. got'.name = n
  BY <1>1
<1>4. /\ SizedHere(got.name)' <=> SizedHere(n)'
      /\ BytesOf(Raw(got.name))' = BytesOf(Raw(n))' /\ (Inside(Raw(got.name))' <=> Inside(Raw(n))')
  BY <1>3 DEF SizedHere, BytesOf, Inside, Raw, OnDisk
<1> QED
  BY <1>1, <1>2, <1>4 DEF ReadInv, ReadWhereIndexed

LEMMA ReadAt ==
  ASSUME NEW n \in DOMAIN by_name, disk' = disk, shards' = shards, by_name' = by_name,
         got'.name = n,
         got'.is[1] = "ok" => SizedHere(n) /\ Inside(Raw(n)) /\ got'.is = <<"ok", BytesOf(Raw(n))>>
  PROVE  ReadWhereIndexed'
<1>1. /\ SizedHere(n)' <=> SizedHere(n)
      /\ BytesOf(Raw(n))' = BytesOf(Raw(n)) /\ (Inside(Raw(n))' <=> Inside(Raw(n)))
  BY RawSame
<1>2. /\ SizedHere(got.name)' <=> SizedHere(n)'
      /\ BytesOf(Raw(got.name))' = BytesOf(Raw(n))' /\ (Inside(Raw(got.name))' <=> Inside(Raw(n))')
  BY DEF SizedHere, BytesOf, Inside, Raw, OnDisk
<1> QED
  BY <1>1, <1>2 DEF ReadWhereIndexed

LEMMA ReadStep ==
  ASSUME LoaderInv, ReadInv, [Next]_vars
  PROVE  ReadInv'
<1>1. CASE Probe
  <2>1. disk' = disk /\ pc = "probe" /\ got' = got
    BY <1>1 DEF Probe
  <2>2. ReadWhereIndexed'
    BY <2>1, NothingRead DEF LoaderInv, Taken
  <2>3. CASE Errs("ShardOpen", disk.first) /\ Open(disk.first).err # "Ok"
    BY <2>1, <2>3, <2>2, RefusedAt DEF ReadInv
  <2>4. CASE Errs("ShardDiscovery", disk.first)
    BY <2>2, <2>4, RefusedElse DEF ReadInv
  <2>5. CASE error' = error
    BY <2>1, <2>5, <2>2, RefusedKeeps DEF ReadInv
  <2>6. \/ Errs("ShardOpen", disk.first) /\ Open(disk.first).err # "Ok"
        \/ Errs("ShardDiscovery", disk.first) \/ error' = error
    BY <1>1, Zenon DEF Probe
  <2> QED
    BY <2>2, <2>3, <2>4, <2>5, <2>6 DEF ReadInv
<1>2. CASE OpenShard
  <2>1. disk' = disk /\ pc = "open" /\ got' = got
    BY <1>2 DEF OpenShard
  <2>2. ReadWhereIndexed'
    BY <2>1, NothingRead DEF LoaderInv, Taken
  <2>3. PICK path : path = paths[Len(shards) + 1]
    OBVIOUS
  <2>4. CASE Errs("ShardOpen", path) /\ Open(path).err # "Ok"
    BY <2>1, <2>4, <2>2, RefusedAt DEF ReadInv
  <2>5. CASE error' = error
    BY <2>1, <2>5, <2>2, RefusedKeeps DEF ReadInv
  <2>6. (Errs("ShardOpen", path) /\ Open(path).err # "Ok") \/ error' = error
    BY <1>2, <2>3, Zenon DEF OpenShard
  <2> QED
    BY <2>2, <2>4, <2>5, <2>6 DEF ReadInv
<1>3. CASE ReadConfig
  <2>1. disk' = disk /\ pc = "open" /\ got' = got
    BY <1>3 DEF ReadConfig
  <2>2. ReadWhereIndexed'
    BY <2>1, NothingRead DEF LoaderInv, Taken
  <2>3. CASE \E of : Errs("NoConfigShard", of)
    BY <2>2, <2>3, RefusedElse DEF ReadInv
  <2>4. CASE \E of : Errs("Config", of)
    BY <2>2, <2>4, RefusedElse DEF ReadInv
  <2>5. CASE error' = error
    BY <2>1, <2>5, <2>2, RefusedKeeps DEF ReadInv
  <2>6. (\E of : Errs("NoConfigShard", of)) \/ (\E of : Errs("Config", of)) \/ error' = error
    BY <1>3, Zenon DEF ReadConfig
  <2> QED
    BY <2>2, <2>3, <2>4, <2>5, <2>6 DEF ReadInv
<1>4. CASE IndexShards
  <2>1. disk' = disk /\ error' = error /\ pc = "index" /\ got' = got
    BY <1>4 DEF IndexShards
  <2>2. ReadWhereIndexed'
    BY <2>1, NothingRead DEF LoaderInv, Taken
  <2> QED
    BY <2>1, <2>2, RefusedKeeps DEF ReadInv
<1>5. ASSUME NEW name \in DOMAIN by_name, DataSlice(name)
      PROVE  ReadInv'
  <2>1. disk' = disk /\ error' = error /\ shards' = shards /\ by_name' = by_name
    BY <1>5 DEF DataSlice
  <2>2. PICK is : is = IF ~SizedHere(name) THEN <<"Quant">>
                       ELSE IF ~Inside(Raw(name)) THEN <<"OutOfBounds">>
                       ELSE <<"ok", BytesOf(Raw(name))>>
    OBVIOUS
  <2>3. got' = [name |-> name, is |-> is]
    BY <1>5, <2>2, Zenon DEF DataSlice
  <2>4. got'.name = name /\ got'.is = is
    BY <2>3
  <2>5. ASSUME is[1] = "ok"
        PROVE  SizedHere(name) /\ Inside(Raw(name)) /\ is = <<"ok", BytesOf(Raw(name))>>
    BY <2>2, <2>5
  <2>6. ReadWhereIndexed'
    BY <2>1, <2>4, <2>5, ReadAt
  <2> QED
    BY <2>1, <2>6, RefusedKeeps DEF ReadInv
<1>6. CASE Load
  <2>1. disk' = disk /\ got' = <<>> /\ (error' = error \/ Errs("Load", ""))
    BY <1>6, Zenon DEF Load
  <2>2. ReadWhereIndexed'
    BY <2>1, NothingRead
  <2>3. CASE error' = error
    BY <2>1, <2>3, <2>2, RefusedKeeps DEF ReadInv
  <2>4. CASE \E of : Errs("Load", of)
    BY <2>2, <2>4, RefusedElse DEF ReadInv
  <2>5. error' = error \/ \E of : Errs("Load", of)
    BY <2>1, Zenon
  <2> QED
    BY <2>2, <2>3, <2>4, <2>5 DEF ReadInv
<1>7. ASSUME NEW name \in DOMAIN weights, UseWeight(name)
      PROVE  ReadInv'
  <2>1. disk' = disk /\ error' = error /\ shards' = shards /\ by_name' = by_name /\ pc = "loaded"
    BY <1>7 DEF UseWeight
  <2>2. Loadable /\ weights = [n \in Needed |-> Raw(n)]
    BY <2>1 DEF LoaderInv, Taken
  <2>3. name \in DOMAIN by_name /\ SizedHere(name) /\ weights[name] = Raw(name)
    BY <2>2 DEF Loadable
  <2>4. \/ Inside(weights[name]) /\ got' = [name |-> name, is |-> <<"ok", BytesOf(weights[name])>>]
        \/ got' = [name |-> name, is |-> <<"OutOfBounds">>]
    BY <1>7, Zenon DEF UseWeight
  <2>5. PICK b : b = BytesOf(Raw(name))
    OBVIOUS
  <2>6. \/ Inside(Raw(name)) /\ got' = [name |-> name, is |-> <<"ok", b>>]
        \/ got' = [name |-> name, is |-> <<"OutOfBounds">>]
    BY <2>3, <2>4, <2>5
  <2>7. /\ got'.name = name
        /\ got'.is[1] = "ok" => Inside(Raw(name)) /\ got'.is = <<"ok", b>>
    BY <2>6
  <2>8. ReadWhereIndexed'
    BY <2>1, <2>3, <2>5, <2>7, ReadAt
  <2> QED
    BY <2>1, <2>8, RefusedKeeps DEF ReadInv
<1>8. CASE UNCHANGED vars
  <2>1. /\ disk' = disk /\ error' = error /\ shards' = shards /\ by_name' = by_name /\ got' = got
    BY <1>8 DEF vars
  <2> QED
    BY <2>1, RefusedKeeps, ReadWhereKeeps DEF ReadInv
<1> QED
  BY <1>1, <1>2, <1>3, <1>4, <1>5, <1>6, <1>7, <1>8 DEF Next

LEMMA InitReads ==
  ASSUME Init
  PROVE  ReadInv
<1>1. error.kind = "" /\ got = <<>>
  BY DEF Init, NoError
<1>2. error.kind # "ShardOpen"
  BY <1>1, Zenon
<1> QED
  BY <1>1, <1>2 DEF ReadInv, Refused, ReadWhereIndexed

\* Whatever is on the disk, a shard is refused only if it cannot be opened, and
\* bytes are read only inside the place that the index gives.
THEOREM LoaderReads == Spec => []ReadInv
<1>1. Init => ReadInv
  BY InitReads
<1>2. LoaderInv /\ ReadInv /\ [Next]_vars => ReadInv'
  BY ReadStep
<1> QED
  BY <1>1, <1>2, LoaderInvariant, PTL DEF Spec

\* A shard is what was written under its name.
IsRead(shard, spec, n, file) ==
  /\ spec = Written(shard.path) /\ n = disk.cut[shard.path] /\ file = OnDisk(shard.path)
  /\ spec \in Builders /\ n \in Nat /\ file = Cut(Build(spec), n)
  /\ WholeHead(shard.path) /\ Aligned(spec)
  /\ shard.gguf.metadata = ToMap(spec.metadata) /\ shard.gguf.tensors = Infos(spec)
  /\ shard.gguf.len = file.len /\ shard.gguf.data_offset = AlignUp(file.head, shard.gguf.alignment)

LEMMA ShardIsRead ==
  ASSUME disk \in Installed, shards \in Seq(Opened), NEW k \in DOMAIN shards
  PROVE  \E spec, n, file : IsRead(shards[k], spec, n, file)
<1>1. PICK shard, path : shard = shards[k] /\ path = shard.path
  OBVIOUS
<1>2. PICK spec, n, file, g : /\ spec = Written(path) /\ n = disk.cut[path]
                              /\ file = OnDisk(path) /\ g = shard.gguf
  BY Zenon
<1>3. g = Open(path) /\ Open(path).err = "Ok"
  BY <1>1, <1>2, ShardType
<1>4. /\ spec \in Builders /\ n \in Nat /\ file = Cut(Build(spec), n)
      /\ WholeHead(path) /\ Aligned(spec) /\ g = Content(spec, file)
  BY <1>2, <1>3, OpenIs, Zenon
<1>5. /\ g.metadata = ToMap(spec.metadata) /\ g.tensors = Infos(spec) /\ g.len = file.len
      /\ g.alignment = AlignmentOf(ToMap(spec.metadata))
      /\ g.data_offset = AlignUp(file.head, AlignmentOf(ToMap(spec.metadata)))
  BY <1>4, ContentIs, Zenon
<1>6. IsRead(shard, spec, n, file)
  BY <1>1, <1>2, <1>4, <1>5, Zenon DEF IsRead
<1> QED
  BY <1>1, <1>6

\* Each tensor of a shard, with its data where the shard has it.
LEMMA TensorRead ==
  ASSUME NEW shard, NEW spec, NEW n, NEW file, IsRead(shard, spec, n, file)
  PROVE  /\ Len(shard.gguf.tensors) = Len(spec.tensors)
         /\ DOMAIN shard.gguf.tensors = 1..Len(spec.tensors)
         /\ \A i \in 1..Len(spec.tensors) :
              /\ shard.gguf.tensors[i].name = spec.tensors[i].name
              /\ shard.gguf.tensors[i].dims = spec.tensors[i].dims
              /\ shard.gguf.tensors[i].type = spec.tensors[i].type
              /\ \A start : /\ start = shard.gguf.data_offset + shard.gguf.tensors[i].offset
                            /\ SameAlignment(shard) /\ spec.tensors[i].data > 0
                            /\ start + spec.tensors[i].data <= file.len
                            => Contents(file, start, spec.tensors[i].data) = spec.tensors[i].name
<1>1. /\ spec = Written(shard.path) /\ spec \in Builders /\ n \in Nat
      /\ file = Cut(Build(spec), n) /\ shard.gguf.tensors = Infos(spec)
      /\ shard.gguf.data_offset = AlignUp(file.head, shard.gguf.alignment)
  BY DEF IsRead
<1>2. PICK tensors : tensors = shard.gguf.tensors
  OBVIOUS
<1>3. tensors = Infos(spec) /\ tensors \in Seq(TensorMeta) /\ Len(tensors) = Len(spec.tensors)
  BY <1>1, <1>2, InfosAre
<1>4. DOMAIN tensors = 1..Len(spec.tensors)
  BY <1>3, LenProperties
<1>5. ASSUME NEW i \in 1..Len(spec.tensors)
      PROVE  /\ tensors[i].name = spec.tensors[i].name /\ tensors[i].dims = spec.tensors[i].dims
             /\ tensors[i].type = spec.tensors[i].type /\ tensors[i].offset = OffsetsOf(spec)[i]
  <2>1. PICK t, o : t = spec.tensors[i] /\ o = OffsetsOf(spec)[i]
    OBVIOUS
  <2>2. tensors[i] = Info(t, o)
    BY <1>1, <1>3, <2>1, InfosAre
  <2>3. PICK r : r = [name |-> t.name, type |-> t.type, dims |-> t.dims, offset |-> o]
    OBVIOUS
  <2>4. tensors[i] = r
    BY <2>2, <2>3 DEF Info
  <2> QED
    BY <2>1, <2>3, <2>4
<1>6. ASSUME NEW i \in 1..Len(spec.tensors), NEW start,
             start = shard.gguf.data_offset + tensors[i].offset,
             SameAlignment(shard), spec.tensors[i].data > 0,
             start + spec.tensors[i].data <= file.len
      PROVE  Contents(file, start, spec.tensors[i].data) = spec.tensors[i].name
  <2>1. shard.gguf.data_offset = AlignUp(file.head, spec.alignment)
    BY <1>1, <1>6 DEF SameAlignment
  <2>2. start = AlignUp(file.head, spec.alignment) + OffsetsOf(spec)[i]
    BY <1>5, <1>6, <2>1
  <2> QED
    BY <1>1, <1>6, <2>2, DataThere
<1> QED
  BY <1>2, <1>3, <1>4, <1>5, <1>6

LEMMA InvReadsWhatWasWritten ==
  ASSUME LoaderInv, ReadInv
  PROVE  ReadsWhatWasWritten
<1>1. disk \in Installed /\ shards \in Seq(Opened)
  BY DEF LoaderInv, ShardsOpen
<1>2. error.kind = "ShardOpen" => ~(WholeHead(error.of) /\ Aligned(Written(error.of)))
  <2>1. SUFFICES ASSUME error.kind = "ShardOpen", WholeHead(error.of) /\ Aligned(Written(error.of))
                 PROVE  FALSE
    OBVIOUS
  <2>2. PICK path : path = error.of
    OBVIOUS
  <2>3. Open(path).err # "Ok"
    BY <2>1, <2>2 DEF ReadInv, Refused
  <2>4. Open(path) = Content(Written(path), OnDisk(path))
    BY <1>1, <2>1, <2>2, OpenGives, Zenon
  <2> QED
    BY <2>3, <2>4, ContentIs, Zenon
<1>3. ASSUME NEW k \in DOMAIN shards
      PROVE  LET g == shards[k].gguf
                 spec == Written(shards[k].path)
                 file == OnDisk(shards[k].path)
             IN /\ WholeHead(shards[k].path)
                /\ Aligned(spec) /\ g.metadata = ToMap(spec.metadata)
                /\ Len(g.tensors) = Len(spec.tensors)
                /\ \A i \in DOMAIN g.tensors :
                     LET t == spec.tensors[i]
                         start == g.data_offset + g.tensors[i].offset
                     IN /\ g.tensors[i].name = t.name /\ g.tensors[i].dims = t.dims
                        /\ g.tensors[i].type = t.type
                        /\ SameAlignment(shards[k]) /\ t.data > 0 /\ start + t.data <= file.len
                             => Contents(file, start, t.data) = t.name
  <2>1. PICK spec, n, file : IsRead(shards[k], spec, n, file)
    BY <1>1, ShardIsRead
  <2>2. /\ spec = Written(shards[k].path) /\ file = OnDisk(shards[k].path)
        /\ WholeHead(shards[k].path) /\ Aligned(spec)
        /\ shards[k].gguf.metadata = ToMap(spec.metadata)
    BY <2>1 DEF IsRead
  <2> QED
    BY <2>1, <2>2, TensorRead
<1> QED
  BY <1>2, <1>3, Zenon DEF ReadsWhatWasWritten

\* What Gguf::parse makes of a file that GgufBuilder wrote is what was written:
\* every key with its value, every tensor with its own data at its offset; a
\* file cut short in its head, and no other, is refused (gguf.rs, loader.rs).
THEOREM LoaderReadsWhatWasWritten == Spec => []ReadsWhatWasWritten
<1>1. LoaderInv /\ ReadInv => ReadsWhatWasWritten
  BY InvReadsWhatWasWritten
<1> QED
  BY <1>1, LoaderInvariant, LoaderReads, PTL

LEMMA InvReadsItsOwnData ==
  ASSUME LoaderInv, ReadInv
  PROVE  ReadsItsOwnData
<1> SUFFICES ASSUME got # <<>>, got.is[1] = "ok",
                    \A e \in Fitting(got.name) : HasData(e),
                    \A k \in DOMAIN shards : SameAlignment(shards[k])
             PROVE  got.is = <<"ok", got.name>>
  BY DEF ReadsItsOwnData
<1>1. disk \in Installed /\ shards \in Seq(Opened)
  BY DEF LoaderInv, ShardsOpen
<1>2. PICK name, e : name = got.name /\ e = by_name[name]
  OBVIOUS
<1>3. /\ name \in DOMAIN by_name /\ SizedHere(name) /\ Inside(Raw(name))
      /\ got.is = <<"ok", BytesOf(Raw(name))>>
  BY <1>2 DEF ReadInv, ReadWhereIndexed
<1>4. e \in Listings(name)
  <2>1. Lists(by_name)
    <3>1. by_name # <<>>
      BY <1>3
    <3> QED
      BY <3>1 DEF LoaderInv, Indexed
  <2> QED
    BY <1>2, <1>3, <2>1 DEF Lists
<1>5. e.shard \in DOMAIN shards /\ e.meta.name = name
  <2>1. PICK si, m : si \in DOMAIN shards /\ e = Entry(si, m) /\ e.meta.name = name
    BY <1>4 DEF Listings
  <2> QED
    BY <2>1 DEF Entry
<1>6. PICK shard, meta, size : /\ shard = shards[e.shard] /\ meta = e.meta
                               /\ size = TensorSize(meta.type, NElements(meta.dims))
  OBVIOUS
<1>7. PICK start : start = shard.gguf.data_offset + meta.offset
  OBVIOUS
<1>8. Raw(name) = [shard |-> e.shard, offset |-> start, len |-> size]
  BY <1>2, <1>6, <1>7, Zenon DEF Raw
<1>9. /\ Raw(name).shard = e.shard /\ Raw(name).offset = start /\ Raw(name).len = size
  BY <1>8
<1>10. start + size <= shard.gguf.len
  BY <1>3, <1>6, <1>9 DEF Inside
<1>11. e \in Fitting(name)
  <2>1. Sized(meta.type, NElements(meta.dims))
    BY <1>2, <1>3, <1>6 DEF SizedHere
  <2>2. Fits(shard, meta)
    BY <1>6, <1>7, <1>10, <2>1 DEF Fits
  <2> QED
    BY <1>4, <1>6, <2>2 DEF Fitting
<1>12. PICK i \in DOMAIN shard.gguf.tensors :
         /\ shard.gguf.tensors[i] = meta
         /\ Written(shard.path).tensors[i].data = size /\ Written(shard.path).tensors[i].data > 0
  <2>1. HasData(e)
    BY <1>2, <1>11
  <2> QED
    BY <1>6, <2>1 DEF HasData
<1>13. PICK spec, n, file : IsRead(shard, spec, n, file)
  BY <1>1, <1>5, <1>6, ShardIsRead
<1>14. /\ spec = Written(shard.path) /\ file = OnDisk(shard.path) /\ shard.gguf.len = file.len
  BY <1>13 DEF IsRead
<1>15. i \in 1..Len(spec.tensors) /\ spec.tensors[i].name = name
  BY <1>5, <1>6, <1>12, <1>13, TensorRead
<1>16. Contents(file, start, size) = name
  <2>1. spec.tensors[i].data = size /\ spec.tensors[i].data > 0
    BY <1>12, <1>14
  <2>2. SameAlignment(shard)
    BY <1>5, <1>6
  <2>3. start = shard.gguf.data_offset + shard.gguf.tensors[i].offset
    BY <1>7, <1>12
  <2>4. start + spec.tensors[i].data <= file.len
    BY <1>10, <1>14, <2>1
  <2>5. Contents(file, start, spec.tensors[i].data) = spec.tensors[i].name
    BY <1>13, <1>15, <2>1, <2>2, <2>3, <2>4, TensorRead
  <2> QED
    BY <1>15, <2>1, <2>5
<1>17. BytesOf(Raw(name)) = Contents(file, start, size)
  BY <1>6, <1>9, <1>14 DEF BytesOf
<1> QED
  BY <1>2, <1>3, <1>16, <1>17

\* What data_slice or a weight's first use returns for a tensor is that
\* tensor's own data, whichever shard the merge took it from, where every
\* listing that fits its file has data (loader.rs, pipeline.rs).
THEOREM LoaderReadsItsOwnData == Spec => []ReadsItsOwnData
<1>1. LoaderInv /\ ReadInv => ReadsItsOwnData
  BY InvReadsItsOwnData
<1> QED
  BY <1>1, LoaderInvariant, LoaderReads, PTL
=============================================================================
