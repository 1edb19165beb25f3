--------------------------- MODULE KernelsProofs ---------------------------
(***************************************************************************)
(* Proofs about the weights at work: on every machine an activation meets  *)
(* the bits of its own element, of every row of every weight, the products *)
(* of a row use its bytes up, and a multiplication fails only for a tensor *)
(* that has not the shape of the configuration. The invariants of Loader   *)
(* hold as well while rows are multiplied.                                 *)
(***************************************************************************)
EXTENDS Kernels, LoaderProofs, FiniteSetTheorems

-----------------------------------------------------------------------------
(* The blocks.                                                             *)

\* Eight bits of a word, at its j-th byte.
LEMMA ByteOf ==
  ASSUME NEW w, NEW j \in Nat, \A i \in (8*j+1)..(8*j+8) : w[i] \in Int
  PROVE  SubSeq(w, 8*j+1, 8*j+8) = [i \in 1..8 |-> w[8*j+i]]
<1>1. PICK m \in Int, n \in Int : m = 8*j+1 /\ n = 8*j+8
  OBVIOUS
<1>2. PICK s : s = SubSeq(w, m, n)
  OBVIOUS
<1>3. /\ s \in Seq(Int) /\ Len(s) = IF m <= n THEN n-m+1 ELSE 0
      /\ \A i \in 1..(n-m+1) : s[i] = w[m+i-1]
  <2>1. \A i \in m..n : w[i] \in Int
    BY <1>1
  <2> QED
    BY <1>2, <2>1, SubSeqProperties
<1>4. m <= n /\ n - m + 1 = 8
  BY <1>1
<1>5. Len(s) = 8 /\ s \in [1..8 -> Int]
  BY <1>3, <1>4, LenProperties
<1>6. \A i \in 1..8 : s[i] = w[8*j+i]
  <2>1. \A i \in 1..8 : m + i - 1 = 8*j+i
    BY <1>1
  <2> QED
    BY <1>3, <1>4, <2>1
<1>7. s = [i \in 1..8 |-> w[8*j+i]]
  BY <1>5, <1>6
<1> QED
  BY <1>1, <1>2, <1>7

\* The words of KScaleWords, bit by bit.
LEMMA WordBits ==
  /\ KScaleWords[1] = [k \in 1..32 |-> IF (k-1) % 8 < 6 THEN 31 + k ELSE Zero]
  /\ KScaleWords[2] = [k \in 1..32 |-> IF (k-1) % 8 < 4 THEN 95 + k
                                       ELSE IF (k-1) % 8 < 6 THEN 33 + k ELSE Zero]
  /\ KScaleWords[3] = [k \in 1..32 |-> IF (k-1) % 8 < 6 THEN 63 + k ELSE Zero]
  /\ KScaleWords[4] = [k \in 1..32 |-> IF (k-1) % 8 < 4 THEN 99 + k
                                       ELSE IF (k-1) % 8 < 6 THEN 65 + k ELSE Zero]
<1>1. KScaleWords[1] = [k \in 1..32 |-> IF (k-1) % 8 < 6 THEN 31 + k ELSE Zero]
  BY DEF KScaleWords, Word, Bits, Low
<1>3. KScaleWords[3] = [k \in 1..32 |-> IF (k-1) % 8 < 6 THEN 63 + k ELSE Zero]
  BY DEF KScaleWords, Word, Bits, Low
<1>2. KScaleWords[2] = [k \in 1..32 |-> IF (k-1) % 8 < 4 THEN 95 + k
                                       ELSE IF (k-1) % 8 < 6 THEN 33 + k ELSE Zero]
  <2>1. KScaleWords[2] = Or(Low(Word(12), 4), Shl(Low(Shr(Word(4), 6), 2), 4))
    BY DEF KScaleWords
  <2>2. Shr(Word(4), 6) = [k \in 1..32 |-> IF k + 6 \in 1..32 THEN 37 + k ELSE Zero]
    BY DEF Word, Bits, Shr
  <2>3. Low(Shr(Word(4), 6), 2) = [k \in 1..32 |-> IF (k-1) % 8 < 2 /\ k + 6 \in 1..32 THEN 37 + k ELSE Zero]
    BY <2>2 DEF Low
  <2>4. Shl(Low(Shr(Word(4), 6), 2), 4) =
          [k \in 1..32 |-> IF k - 4 \in 1..32 /\ (k-5) % 8 < 2 /\ k + 2 \in 1..32 THEN 33 + k ELSE Zero]
    BY <2>3 DEF Shl
  <2>5. Low(Word(12), 4) = [k \in 1..32 |-> IF (k-1) % 8 < 4 THEN 95 + k ELSE Zero]
    BY DEF Word, Bits, Low
  <2>6. ASSUME NEW k \in 1..32
        PROVE  IF (k-1) % 8 < 4 THEN TRUE
               ELSE (k - 4 \in 1..32 /\ (k-5) % 8 < 2 /\ k + 2 \in 1..32) <=> (k-1) % 8 < 6
    OBVIOUS
  <2> QED
    BY <2>1, <2>4, <2>5, <2>6 DEF Or, Zero
<1>4. KScaleWords[4] = [k \in 1..32 |-> IF (k-1) % 8 < 4 THEN 99 + k
                                       ELSE IF (k-1) % 8 < 6 THEN 65 + k ELSE Zero]
  <2>1. KScaleWords[4] = Or(Low(Shr(Word(12), 4), 4), Shl(Low(Shr(Word(8), 6), 2), 4))
    BY DEF KScaleWords
  <2>2. Shr(Word(8), 6) = [k \in 1..32 |-> IF k + 6 \in 1..32 THEN 69 + k ELSE Zero]
    BY DEF Word, Bits, Shr
  <2>3. Low(Shr(Word(8), 6), 2) = [k \in 1..32 |-> IF (k-1) % 8 < 2 /\ k + 6 \in 1..32 THEN 69 + k ELSE Zero]
    BY <2>2 DEF Low
  <2>4. Shl(Low(Shr(Word(8), 6), 2), 4) =
          [k \in 1..32 |-> IF k - 4 \in 1..32 /\ (k-5) % 8 < 2 /\ k + 2 \in 1..32 THEN 65 + k ELSE Zero]
    BY <2>3 DEF Shl
  <2>5. Shr(Word(12), 4) = [k \in 1..32 |-> IF k + 4 \in 1..32 THEN 99 + k ELSE Zero]
    BY DEF Word, Bits, Shr
  <2>6. Low(Shr(Word(12), 4), 4) = [k \in 1..32 |-> IF (k-1) % 8 < 4 THEN 99 + k ELSE Zero]
    BY <2>5 DEF Low
  <2>7. ASSUME NEW k \in 1..32
        PROVE  IF (k-1) % 8 < 4 THEN TRUE
               ELSE (k - 4 \in 1..32 /\ (k-5) % 8 < 2 /\ k + 2 \in 1..32) <=> (k-1) % 8 < 6
    OBVIOUS
  <2> QED
    BY <2>1, <2>4, <2>6, <2>7 DEF Or, Zero
<1> QED
  BY <1>1, <1>2, <1>3, <1>4

\* The scale and the minimum of a group, shuffled in words or taken by bytes.
LEMMA ScaleBits ==
  ASSUME NEW j \in 0..7
  PROVE  /\ KScales.scales[j] = GetScaleMinK4(j).scale
         /\ KScales.mins[j] = GetScaleMinK4(j).min
<1> DEFINE w == KScaleWords
           byte(v, i) == SubSeq(v, 8 * i + 1, 8 * i + 8)
<1>1. /\ KScales.scales[j] = IF j < 4 THEN byte(w[1], j) ELSE byte(w[2], j - 4)
      /\ KScales.mins[j] = IF j < 4 THEN byte(w[3], j) ELSE byte(w[4], j - 4)
  BY DEF KScales
<1>2. ASSUME NEW v \in {1, 2, 3, 4}, NEW i \in 0..3
      PROVE  byte(w[v], i) = [b \in 1..8 |-> w[v][8 * i + b]]
  <2>1. \A k \in (8*i+1)..(8*i+8) : k \in 1..32
    OBVIOUS
  <2>2. \A k \in 1..32 : w[v][k] \in Int
    BY WordBits DEF Zero
  <2> HIDE DEF w
  <2> QED
    BY <2>1, <2>2, ByteOf
<1>3. CASE j < 4
  <2>1. ASSUME NEW b \in 1..8
        PROVE  8 * j + b \in 1..32 /\ (8 * j + b - 1) % 8 = (b - 1) % 8
    BY <1>3
  <2>2. [b \in 1..8 |-> w[1][8 * j + b]] = [b \in 1..8 |-> IF (b-1) % 8 < 6 THEN 31 + 8 * j + b ELSE Zero]
    BY <2>1, WordBits
  <2>3. [b \in 1..8 |-> w[3][8 * j + b]] = [b \in 1..8 |-> IF (b-1) % 8 < 6 THEN 63 + 8 * j + b ELSE Zero]
    BY <2>1, WordBits
  <2>4. Low(Byte(4 + j), 6) = [b \in 1..8 |-> IF (b-1) % 8 < 6 THEN 31 + 8 * j + b ELSE Zero]
    BY DEF Low, Byte, Bits
  <2>5. Low(Byte(4 + (j + 4)), 6) = [b \in 1..8 |-> IF (b-1) % 8 < 6 THEN 63 + 8 * j + b ELSE Zero]
    BY DEF Low, Byte, Bits
  <2>6. GetScaleMinK4(j).scale = Low(Byte(4 + j), 6) /\ GetScaleMinK4(j).min = Low(Byte(4 + (j + 4)), 6)
    BY <1>3 DEF GetScaleMinK4
  <2>7. byte(w[1], j) = [b \in 1..8 |-> w[1][8 * j + b]] /\ byte(w[3], j) = [b \in 1..8 |-> w[3][8 * j + b]]
    BY <1>2, <1>3
  <2> QED
    BY <1>1, <1>3, <2>2, <2>3, <2>4, <2>5, <2>6, <2>7
<1>4. CASE ~(j < 4)
  <2>1. PICK i \in 0..3 : j = i + 4 /\ j - 4 = i
    BY <1>4
  <2>2. ASSUME NEW b \in 1..8
        PROVE  8 * i + b \in 1..32 /\ (8 * i + b - 1) % 8 = (b - 1) % 8
    OBVIOUS
  <2>3. [b \in 1..8 |-> w[2][8 * i + b]] =
          [b \in 1..8 |-> IF b < 5 THEN 95 + 8 * i + b ELSE IF b < 7 THEN 33 + 8 * i + b ELSE Zero]
    BY <2>2, WordBits
  <2>4. [b \in 1..8 |-> w[4][8 * i + b]] =
          [b \in 1..8 |-> IF b < 5 THEN 99 + 8 * i + b ELSE IF b < 7 THEN 65 + 8 * i + b ELSE Zero]
    BY <2>2, WordBits
  <2>5. /\ Low(Byte(12 + i), 4) = [b \in 1..8 |-> IF b < 5 THEN 95 + 8 * i + b ELSE Zero]
        /\ Shr(Byte(12 + i), 4) = [b \in 1..8 |-> IF b < 5 THEN 99 + 8 * i + b ELSE Zero]
    BY DEF Low, Shr, Byte, Bits
  <2>6. ASSUME NEW n \in Nat
        PROVE  Shl(Shr(Byte(n), 6), 4) = [b \in 1..8 |-> IF b < 5 \/ b > 6 THEN Zero ELSE 8 * n + b + 1]
    <3>1. Shr(Byte(n), 6) = [b \in 1..8 |-> IF b < 3 THEN 8 * n + b + 5 ELSE Zero]
      BY DEF Shr, Byte, Bits
    <3> QED
      BY <3>1 DEF Shl
  <2>7. /\ Or(Low(Byte(12 + i), 4), Shl(Shr(Byte(4 + i), 6), 4)) = [b \in 1..8 |-> w[2][8 * i + b]]
        /\ Or(Shr(Byte(12 + i), 4), Shl(Shr(Byte(8 + i), 6), 4)) = [b \in 1..8 |-> w[4][8 * i + b]]
    <3>1. Shl(Shr(Byte(4 + i), 6), 4) = [b \in 1..8 |-> IF b < 5 \/ b > 6 THEN Zero ELSE 8 * (4 + i) + b + 1]
      <4>1. PICK n \in Nat : n = 4 + i
        OBVIOUS
      <4> QED
        BY <2>6, <4>1
    <3>2. Shl(Shr(Byte(8 + i), 6), 4) = [b \in 1..8 |-> IF b < 5 \/ b > 6 THEN Zero ELSE 8 * (8 + i) + b + 1]
      <4>1. PICK n \in Nat : n = 8 + i
        OBVIOUS
      <4> QED
        BY <2>6, <4>1
    <3> QED
      BY <2>3, <2>4, <2>5, <3>1, <3>2 DEF Or, Zero
  <2>8. /\ GetScaleMinK4(j).scale = Or(Low(Byte(4 + (j + 4)), 4), Shl(Shr(Byte(4 + (j - 4)), 6), 4))
        /\ GetScaleMinK4(j).min = Or(Shr(Byte(4 + (j + 4)), 4), Shl(Shr(Byte(4 + j), 6), 4))
    BY <1>4 DEF GetScaleMinK4
  <2>9. 4 + (j + 4) = 12 + i /\ 4 + (j - 4) = 4 + i /\ 4 + j = 8 + i
    BY <2>1
  <2>10. byte(w[2], i) = [b \in 1..8 |-> w[2][8 * i + b]] /\ byte(w[4], i) = [b \in 1..8 |-> w[4][8 * i + b]]
    BY <1>2
  <2> QED
    BY <1>1, <1>4, <2>1, <2>7, <2>8, <2>9, <2>10
<1> QED
  BY <1>3, <1>4

\* The types of tensors whose blocks are known.
LEMMA BlockTypes == DOMAIN BlockSize = {"F32", "Q8_0", "Q4_K", "Q5_K", "Q6_K"}
BY DEF BlockSize

LEMMA GroupedIsTheGroup ==
  ASSUME NEW q, NEW p \in 0..255, NEW j, j = 2 * (p \div 64) + (p % 64) \div 32
  PROVE  Grouped(q, j, p) = {Value(q, 0, GetScaleMinK4(j).scale, GetScaleMinK4(j).min)}
<1>1. j \in 0..7 /\ (p \div 16) \div 2 = j
  OBVIOUS
<1>2. KScales.scales[j] = GetScaleMinK4(j).scale /\ KScales.mins[j] = GetScaleMinK4(j).min
  BY <1>1, ScaleBits
<1> QED
  BY <1>1, <1>2 DEF Grouped

LEMMA GroupNumbers ==
  ASSUME NEW p \in 0..255
  PROVE  /\ p \div 32 = 2 * (p \div 64) + (p % 64) \div 32
         /\ (p \div 16) \div 2 = 2 * (p \div 64) + (p % 64) \div 32
         /\ (p % 64) \div 32 = 0 <=> p % 64 < 32
         /\ (p % 64) \div 32 \in {0, 1}
OBVIOUS

LEMMA Q4_KAgrees ==
  ASSUME NEW p \in 0..255
  PROVE  /\ Grouped(UnpackQ4_K(p), p \div 32, p) = {DequantizeQ4_K(p)}
         /\ Grouped(UnpackQ4_K(p), (p \div 16) \div 2, p) = {DequantizeQ4_K(p)}
<1> DEFINE j == 2 * (p \div 64) + (p % 64) \div 32
<1>1. p \div 32 = j /\ (p \div 16) \div 2 = j
  BY GroupNumbers
<1>2. UnpackQ4_K(p) = DequantizeQ4_K(p).q
  BY GroupNumbers DEF UnpackQ4_K, DequantizeQ4_K, Value
<1>3. Grouped(UnpackQ4_K(p), j, p) = {Value(UnpackQ4_K(p), 0, GetScaleMinK4(j).scale, GetScaleMinK4(j).min)}
  BY GroupedIsTheGroup
<1>4. DequantizeQ4_K(p) = Value(DequantizeQ4_K(p).q, 0, GetScaleMinK4(j).scale, GetScaleMinK4(j).min)
  BY DEF DequantizeQ4_K, Value
<1> QED
  BY <1>1, <1>2, <1>3, <1>4, Zenon

LEMMA Q5_KAgrees ==
  ASSUME NEW p \in 0..255
  PROVE  /\ Grouped(UnpackQ5_K(p), p \div 32, p) = {DequantizeQ5_K(p)}
         /\ Grouped(UnpackQ5_K(p), (p \div 16) \div 2, p) = {DequantizeQ5_K(p)}
<1> DEFINE j == 2 * (p \div 64) + (p % 64) \div 32
<1>1. p \div 32 = j /\ (p \div 16) \div 2 = j
  BY GroupNumbers
<1>2. UnpackQ5_K(p) = DequantizeQ5_K(p).q
  <2>1. CASE p % 64 < 32
    <3>1. (p % 64) \div 32 = 0 /\ j = 2 * (p \div 64)
      BY <2>1
    <3> QED
      BY <2>1, <3>1 DEF UnpackQ5_K, DequantizeQ5_K, Value
  <2>2. CASE ~(p % 64 < 32)
    <3>1. (p % 64) \div 32 = 1 /\ j = 2 * (p \div 64) + 1
      BY <2>2
    <3> QED
      BY <2>2, <3>1 DEF UnpackQ5_K, DequantizeQ5_K, Value
  <2> QED
    BY <2>1, <2>2
<1>3. Grouped(UnpackQ5_K(p), j, p) = {Value(UnpackQ5_K(p), 0, GetScaleMinK4(j).scale, GetScaleMinK4(j).min)}
  BY GroupedIsTheGroup
<1>4. DequantizeQ5_K(p) = Value(DequantizeQ5_K(p).q, 0, GetScaleMinK4(j).scale, GetScaleMinK4(j).min)
  BY DEF DequantizeQ5_K, Value
<1> QED
  BY <1>1, <1>2, <1>3, <1>4, Zenon

LEMMA Q6_KAgrees ==
  ASSUME NEW p \in 0..255
  PROVE  Value(UnpackQ6_K(p), 32, Byte(192 + (p \div 16)), None) = DequantizeQ6_K(p)
<1>1. (p \div 128) * 64 + (p % 64) = (p \div 128) * 64 + (p % 32) + 32 * (((p % 128) \div 32) % 2)
  OBVIOUS
<1>2. 192 + (p \div 16) = 192 + (p \div 128) * 8 + ((p % 32) \div 16) + 2 * ((p % 128) \div 32)
  OBVIOUS
<1>3. UnpackQ6_K(p) = DequantizeQ6_K(p).q
  BY <1>1 DEF UnpackQ6_K, DequantizeQ6_K, Value
<1> QED
  BY <1>2, <1>3 DEF DequantizeQ6_K, Value

LEMMA Q8_0Agrees ==
  ASSUME NEW p \in 0..31
  PROVE  Lanes(2, p) \cup Lanes(18, p) = {Value(Byte(2 + p), 0, None, None)}
<1> DEFINE v(c) == Value(Byte(c), 0, None, None)
<1>1. 2 + p \in 2..17 \/ 2 + p \in 18..33
  OBVIOUS
<1>2. 2 + 15 = 17 /\ 18 + 15 = 33
  OBVIOUS
<1> HIDE DEF v
<1>3. \A S : {v(c) : c \in {2 + p} \cap S} = IF 2 + p \in S THEN {v(2 + p)} ELSE {}
  OBVIOUS
<1>4. Lanes(2, p) = {v(c) : c \in {2 + p} \cap 2..17} /\ Lanes(18, p) = {v(c) : c \in {2 + p} \cap 18..33}
  BY <1>2 DEF Lanes, v
<1> QED
  BY <1>1, <1>3, <1>4 DEF v

\* An activation meets the bits of its element and no others, but for the one
\* register of half a block.
LEMMA BlocksAgree ==
  ASSUME NEW path \in DOMAIN MultipliedBlock, NEW type \in DOMAIN BlockSize,
         NEW p \in Elements(type), ~(path = "arm" /\ type = "Q8_0")
  PROVE  MultipliedBlock[path][type][p] = {DequantizedBlock[type][p]}
<1>1. path \in {"scalar", "x86", "arm"}
  BY DEF MultipliedBlock
<1>2. DequantizedBlock[type][p] = DequantizeBlock(type, p)
  BY DEF DequantizedBlock
<1>3. \/ path = "scalar" /\ MultipliedBlock[path][type][p] = ScalarDot(type, p)
      \/ path # "scalar" /\ MultipliedBlock[path][type][p] = X86Dot(type, p)
  <2>1. MultipliedBlock["scalar"][type][p] = ScalarDot(type, p)
    BY DEF MultipliedBlock
  <2>2. MultipliedBlock["x86"][type][p] = X86Dot(type, p)
    BY DEF MultipliedBlock
  <2>3. MultipliedBlock["arm"][type][p] = ArmDot(type, p)
    BY DEF MultipliedBlock
  <2> QED
    BY <1>1, <2>1, <2>2, <2>3 DEF ArmDot
<1>4. /\ type = "F32" => p = 0
      /\ type = "Q8_0" => p \in 0..31
      /\ type \in {"Q4_K", "Q5_K", "Q6_K"} => p \in 0..255
  BY DEF Elements, BlockSize, QK_K
<1>5. CASE type = "F32"
  BY <1>2, <1>3, <1>5 DEF ScalarDot, X86Dot, DequantizeBlock
<1>6. CASE type = "Q8_0"
  <2>1. X86Dot(type, p) = {Value(Byte(2 + p), 0, None, None)}
    BY <1>4, <1>6, Q8_0Agrees DEF X86Dot
  <2> QED
    BY <1>2, <1>3, <1>6, <2>1 DEF ScalarDot, DequantizeBlock
<1>7. CASE type = "Q4_K"
  BY <1>2, <1>3, <1>4, <1>7, Q4_KAgrees DEF ScalarDot, X86Dot, DequantizeBlock
<1>8. CASE type = "Q5_K"
  BY <1>2, <1>3, <1>4, <1>8, Q5_KAgrees DEF ScalarDot, X86Dot, DequantizeBlock
<1>9. CASE type = "Q6_K"
  BY <1>2, <1>3, <1>4, <1>9, Q6_KAgrees DEF ScalarDot, X86Dot, DequantizeBlock
<1> QED
  BY <1>5, <1>6, <1>7, <1>8, <1>9, BlockTypes

-----------------------------------------------------------------------------
(* The bits of a block.                                                    *)

\* The numbers below n: an interval whose members the provers do not list.
Below(n) == {i \in Nat : i < n}

USE DEF Below

\* Four bits of a byte, the lower or the higher.
Nibble(c, h) == (8*c + 4*h)..(8*c + 4*h + 3)

\* n bits of byte c from the k-th, and where they are put above a nibble.
Span(c, k, n) == (8*c + k)..(8*c + k + n - 1)
Above(c, k, n) == Shl(Low(Shr(Byte(c), k), n), 4)

LEMMA OrBits ==
  ASSUME NEW x \in [1..8 -> Int], NEW y \in [1..8 -> Int],
         \A i \in 1..8 : x[i] = Zero \/ y[i] = Zero
  PROVE  BitsOf(Or(x, y)) = BitsOf(x) \cup BitsOf(y)
<1>1. Or(x, y) = [i \in 1..8 |-> IF x[i] = Zero THEN y[i] ELSE x[i]]
  BY DEF Or
<1> QED
  BY <1>1 DEF BitsOf

\* The parts of a byte that values take, and where they are put.
LEMMA LowBits ==
  ASSUME NEW c \in Nat, NEW n \in {4, 6, 8}
  PROVE  /\ Low(Byte(c), n) = [i \in 1..8 |-> IF i <= n THEN 8*c + i - 1 ELSE Zero]
         /\ BitsOf(Low(Byte(c), n)) = (8*c)..(8*c + n - 1)
<1>1. Low(Byte(c), n) = [i \in 1..8 |-> IF i <= n THEN 8*c + i - 1 ELSE Zero]
  BY DEF Low, Byte, Bits
<1>2. ASSUME NEW b \in (8*c)..(8*c + n - 1)
      PROVE  b \in BitsOf(Low(Byte(c), n))
  <2>1. PICK i \in 1..8 : i <= n /\ b = 8*c + i - 1
    <3>1. b - 8*c + 1 \in 1..8
      OBVIOUS
    <3> QED
      BY <3>1
  <2> QED
    BY <1>1, <2>1 DEF BitsOf, Zero
<1> QED
  BY <1>1, <1>2 DEF BitsOf, Zero

LEMMA HighBits ==
  ASSUME NEW c \in Nat
  PROVE  /\ Shr(Byte(c), 4) = [i \in 1..8 |-> IF i <= 4 THEN 8*c + i + 3 ELSE Zero]
         /\ BitsOf(Shr(Byte(c), 4)) = (8*c + 4)..(8*c + 7)
<1>1. Shr(Byte(c), 4) = [i \in 1..8 |-> IF i <= 4 THEN 8*c + i + 3 ELSE Zero]
  BY DEF Shr, Byte, Bits
<1>2. ASSUME NEW b \in (8*c + 4)..(8*c + 7)
      PROVE  b \in BitsOf(Shr(Byte(c), 4))
  <2>1. PICK i \in 1..8 : i <= 4 /\ b = 8*c + i + 3
    <3>1. b - 8*c - 3 \in 1..8
      OBVIOUS
    <3> QED
      BY <3>1
  <2> QED
    BY <1>1, <2>1 DEF BitsOf, Zero
<1> QED
  BY <1>1, <1>2 DEF BitsOf, Zero

\* The two highest bits of a byte, the fifth bit of a Q5_K quant and the fifth
\* and sixth of a Q6_K quant, above a nibble.
LEMMA TopBits ==
  ASSUME NEW c \in Nat, NEW k \in 0..7, NEW n \in {1, 2}, k + n <= 8
  PROVE  /\ Above(c, k, n) \in [1..8 -> Int] /\ \A i \in 1..4 : Above(c, k, n)[i] = Zero
         /\ BitsOf(Above(c, k, n)) = Span(c, k, n)
<1>1. Shr(Byte(c), k) = [i \in 1..8 |-> IF i + k <= 8 THEN 8*c + k + i - 1 ELSE Zero]
  BY DEF Shr, Byte, Bits
<1>2. Low(Shr(Byte(c), k), n) = [i \in 1..8 |-> IF i <= n THEN 8*c + k + i - 1 ELSE Zero]
  BY <1>1 DEF Low
<1>3. Above(c, k, n) = [i \in 1..8 |-> IF 5 <= i /\ i < 5 + n THEN 8*c + k + i - 5 ELSE Zero]
  BY <1>2 DEF Shl, Above
<1>4. ASSUME NEW b \in Span(c, k, n)
      PROVE  b \in BitsOf(Above(c, k, n))
  <2>1. PICK i \in 1..8 : 5 <= i /\ i < 5 + n /\ b = 8*c + k + i - 5
    <3>1. b - 8*c - k + 5 \in 1..8
      BY DEF Span
    <3> QED
      BY <3>1 DEF Span
  <2> QED
    BY <1>3, <2>1 DEF BitsOf, Zero
<1> QED
  BY <1>3, <1>4 DEF BitsOf, Zero, Span

LEMMA TopTwo ==
  ASSUME NEW c \in Nat
  PROVE  Shl(Shr(Byte(c), 6), 4) = Above(c, 6, 2)
<1>1. Shr(Byte(c), 6) = [i \in 1..8 |-> IF i <= 2 THEN 8*c + i + 5 ELSE Zero]
  BY DEF Shr, Byte, Bits
<1>2. Low(Shr(Byte(c), 6), 2) = Shr(Byte(c), 6)
  BY <1>1 DEF Low
<1> QED
  BY <1>2 DEF Above

\* A nibble and the bits above it.
LEMMA NibbleBits ==
  ASSUME NEW a \in Nat, NEW h \in {0, 1}, NEW x,
         x = IF h = 0 THEN Low(Byte(a), 4) ELSE Shr(Byte(a), 4)
  PROVE  /\ BitsOf(x) = Nibble(a, h)
         /\ \A c \in Nat, k \in 0..7, n \in {1, 2} : k + n <= 8 =>
              BitsOf(Or(x, Above(c, k, n))) = Nibble(a, h) \cup Span(c, k, n)
<1>1. /\ x \in [1..8 -> Int] /\ \A i \in 5..8 : x[i] = Zero
      /\ BitsOf(x) = Nibble(a, h)
  <2>1. CASE h = 0
    <3>1. x = Low(Byte(a), 4)
      BY <2>1
    <3>2. x = [i \in 1..8 |-> IF i <= 4 THEN 8*a + i - 1 ELSE Zero]
      BY <3>1, LowBits
    <3>3. BitsOf(x) = Nibble(a, h)
      BY <2>1, <3>1, LowBits DEF Nibble
    <3> QED
      BY <3>2, <3>3 DEF Zero
  <2>2. CASE h = 1
    <3>1. x = Shr(Byte(a), 4)
      BY <2>2
    <3>2. x = [i \in 1..8 |-> IF i <= 4 THEN 8*a + i + 3 ELSE Zero]
      BY <3>1, HighBits
    <3>3. BitsOf(x) = Nibble(a, h)
      BY <2>2, <3>1, HighBits DEF Nibble
    <3> QED
      BY <3>2, <3>3 DEF Zero
  <2> QED
    BY <2>1, <2>2
<1>2. ASSUME NEW c \in Nat, NEW k \in 0..7, NEW n \in {1, 2}, k + n <= 8
      PROVE  BitsOf(Or(x, Above(c, k, n))) = Nibble(a, h) \cup Span(c, k, n)
  <2>1. PICK y : y = Above(c, k, n)
    OBVIOUS
  <2>2. /\ y \in [1..8 -> Int] /\ \A i \in 1..4 : y[i] = Zero
        /\ BitsOf(y) = Span(c, k, n)
    BY <1>2, <2>1, TopBits
  <2>4. \A i \in 1..8 : x[i] = Zero \/ y[i] = Zero
    BY <1>1, <2>2
  <2>5. BitsOf(Or(x, y)) = BitsOf(x) \cup BitsOf(y)
    BY <1>1, <2>2, <2>4, OrBits
  <2> QED
    BY <1>1, <2>1, <2>2, <2>5
<1> QED
  BY <1>1, <1>2

-----------------------------------------------------------------------------
(* The bits of quants.                                                     *)

LEMMA QuantQ4_K ==
  ASSUME NEW p \in Below(256)
  PROVE  BitsOf(DequantizeQ4_K(p).q) = Nibble(16 + (p \div 64) * 32 + (p % 32), (p % 64) \div 32)
<1>1. PICK a \in Nat, h \in {0, 1} : a = 16 + (p \div 64) * 32 + (p % 32) /\ h = (p % 64) \div 32
  <2>1. 16 + (p \div 64) * 32 + (p % 32) \in Nat /\ (p % 64) \div 32 \in {0, 1}
    OBVIOUS
  <2> QED
    BY <2>1
<1>2. DequantizeQ4_K(p).q = IF h = 0 THEN Low(Byte(a), 4) ELSE Shr(Byte(a), 4)
  BY <1>1 DEF DequantizeQ4_K, Value
<1> QED
  BY <1>1, <1>2, NibbleBits

LEMMA QuantQ5_K ==
  ASSUME NEW p \in Below(256)
  PROVE  BitsOf(DequantizeQ5_K(p).q) =
           Nibble(48 + (p \div 64) * 32 + (p % 32), (p % 64) \div 32) \cup {8 * (16 + (p % 32)) + p \div 32}
<1>1. PICK a \in Nat, h \in {0, 1} : a = 48 + (p \div 64) * 32 + (p % 32) /\ h = (p % 64) \div 32
  <2>1. 48 + (p \div 64) * 32 + (p % 32) \in Nat /\ (p % 64) \div 32 \in {0, 1}
    OBVIOUS
  <2> QED
    BY <2>1
<1>2. PICK c \in Nat, k \in 0..7 : c = 16 + (p % 32) /\ k = p \div 32 /\ k = 2 * (p \div 64) + h
  BY <1>1
<1>3. DequantizeQ5_K(p).q = Or(IF h = 0 THEN Low(Byte(a), 4) ELSE Shr(Byte(a), 4), Above(c, k, 1))
  BY <1>1, <1>2 DEF DequantizeQ5_K, Value, Above
<1>4. Span(c, k, 1) = {8*c + k}
  BY DEF Span
<1>5. BitsOf(DequantizeQ5_K(p).q) = Nibble(a, h) \cup Span(c, k, 1)
  BY <1>3, NibbleBits
<1> QED
  BY <1>1, <1>2, <1>4, <1>5

LEMMA QuantQ6_K ==
  ASSUME NEW p \in Below(256)
  PROVE  BitsOf(DequantizeQ6_K(p).q) =
           Nibble((p \div 128) * 64 + (p % 64), (p % 128) \div 64) \cup
           LET b == 8 * (128 + (p \div 128) * 32 + (p % 32)) + 2 * ((p % 128) \div 32)
           IN {b, b + 1}
<1>1. PICK a \in Nat, h \in {0, 1} : a = (p \div 128) * 64 + (p % 64) /\ h = (p % 128) \div 64
  OBVIOUS
<1>2. PICK c \in Nat, k \in 0..3 : c = 128 + (p \div 128) * 32 + (p % 32) /\ k = (p % 128) \div 32
  <2>1. 128 + (p \div 128) * 32 + (p % 32) \in Nat /\ (p % 128) \div 32 \in 0..3
    OBVIOUS
  <2> QED
    BY <2>1
<1>3. a = (p \div 128) * 64 + (p % 32) + 32 * (k % 2) /\ (k < 2 <=> h = 0)
  BY <1>1, <1>2
<1>4. PICK m \in 0..7 : m = 2 * k /\ m + 2 <= 8
  OBVIOUS
<1>5. DequantizeQ6_K(p).q = Or(IF h = 0 THEN Low(Byte(a), 4) ELSE Shr(Byte(a), 4), Above(c, m, 2))
  BY <1>2, <1>3, <1>4 DEF DequantizeQ6_K, Value, Above
<1>6. Span(c, m, 2) = {8*c + m, 8*c + m + 1}
  BY DEF Span
<1>7. BitsOf(DequantizeQ6_K(p).q) = Nibble(a, h) \cup Span(c, m, 2)
  BY <1>4, <1>5, NibbleBits
<1> QED
  BY <1>1, <1>2, <1>4, <1>6, <1>7
LEMMA QuantQ8_0 ==
  ASSUME NEW p \in Below(32)
  PROVE  BitsOf(Byte(2 + p)) = (8 * (2 + p))..(8 * (2 + p) + 7)
<1>1. Byte(2 + p) = [i \in 1..8 |-> 8 * (2 + p) + i - 1]
  BY DEF Byte, Bits
<1>2. ASSUME NEW b \in (8 * (2 + p))..(8 * (2 + p) + 7)
      PROVE  b \in BitsOf(Byte(2 + p))
  <2>1. PICK i \in 1..8 : b = 8 * (2 + p) + i - 1
    <3>1. b - 8 * (2 + p) + 1 \in 1..8
      OBVIOUS
    <3> QED
      BY <3>1
  <2> QED
    BY <1>1, <2>1 DEF BitsOf, Zero
<1> QED
  BY <1>1, <1>2 DEF BitsOf, Zero

LEMMA QuantF32 == BitsOf(Word(0)) = Below(32)
<1>1. Word(0) = [i \in 1..32 |-> i - 1]
  BY DEF Word, Bits
<1>2. ASSUME NEW b \in Below(32)
      PROVE  b \in BitsOf(Word(0))
  <2>1. PICK i \in 1..32 : b = i - 1
    <3>1. b + 1 \in 1..32
      OBVIOUS
    <3> QED
      BY <3>1
  <2> QED
    BY <1>1, <2>1 DEF BitsOf, Zero
<1> QED
  BY <1>1, <1>2 DEF BitsOf, Zero

LEMMA NoBits == BitsOf(None) = {}
BY DEF BitsOf, None

\* The activation that a bit of a quant is for: of a nibble in chunks of 64,
\* and of the whole block.
OfChunk(c, h) == 64 * (c \div 32) + 32 * h + (c % 32)

Taker(type, b) ==
  LET c == b \div 8
      i == b % 8
  IN CASE type = "F32" -> 0
       [] type = "Q8_0" -> c - 2
       [] type = "Q4_K" -> OfChunk(c - 16, i \div 4)
       [] type = "Q5_K" -> IF c < 48 THEN 32 * i + (c - 16) ELSE OfChunk(c - 48, i \div 4)
       [] type = "Q6_K" -> IF c < 128 THEN 128 * (c \div 64) + 64 * (i \div 4) + (c % 64)
                           ELSE 128 * ((c - 128) \div 32) + 32 * (i \div 2) + (c % 32)

LEMMA NibbleTaker ==
  ASSUME NEW c \in Nat, NEW h \in {0, 1}, NEW b \in Nibble(c, h)
  PROVE  b \div 8 = c /\ (b % 8) \div 4 = h /\ b \in (8*c)..(8*c + 7)
<1>1. PICK i \in 0..3 : b = 8*c + 4*h + i
  <2>1. b - 8*c - 4*h \in 0..3
    BY DEF Nibble
  <2> QED
    BY <2>1 DEF Nibble
<1> QED
  BY <1>1

LEMMA NibbleOf ==
  ASSUME NEW b \in Nat
  PROVE  b \in Nibble(b \div 8, (b % 8) \div 4)
BY DEF Nibble

LEMMA Chunks ==
  ASSUME NEW p \in Below(256)
  PROVE  /\ (p \div 64) * 32 + (p % 32) \in Below(128) /\ (p % 64) \div 32 \in {0, 1}
         /\ OfChunk((p \div 64) * 32 + (p % 32), (p % 64) \div 32) = p
BY DEF OfChunk

LEMMA ChunkOf ==
  ASSUME NEW c \in Below(128), NEW h \in {0, 1}
  PROVE  \E p \in Below(256) :
           p = OfChunk(c, h) /\ (p \div 64) * 32 + (p % 32) = c /\ (p % 64) \div 32 = h
<1>1. PICK n \in 0..3, l \in Below(32) : n = c \div 32 /\ l = c % 32 /\ c = 32 * n + l
  OBVIOUS
<1>2. OfChunk(c, h) = 64 * n + 32 * h + l
  BY <1>1 DEF OfChunk
<1>3. PICK p \in Below(256) : p = 64 * n + 32 * h + l
  <2>1. 64 * n + 32 * h + l \in Below(256)
    OBVIOUS
  <2> QED
    BY <2>1
<1>4. p \div 64 = n /\ p % 64 = 32 * h + l
  BY <1>3
<1>5. p % 32 = l
  BY <1>3
<1>6. (32 * h + l) \div 32 = h
  OBVIOUS
<1> QED
  BY <1>1, <1>2, <1>3, <1>4, <1>5, <1>6

\* The bits of a quant name the activation.
LEMMA TakerQ4_K ==
  ASSUME NEW p \in Below(256), NEW b \in BitsOf(DequantizeQ4_K(p).q)
  PROVE  b \in Nat /\ 128 <= b /\ b < 1152 /\ Taker("Q4_K", b) = p
<1>1. Taker("Q4_K", b) = OfChunk(b \div 8 - 16, (b % 8) \div 4)
  BY DEF Taker
<1>2. PICK c \in Below(128), h \in {0, 1} :
        c = (p \div 64) * 32 + (p % 32) /\ h = (p % 64) \div 32 /\ OfChunk(c, h) = p
  BY Chunks
<1>3. PICK d \in Nat : d = 16 + c
  OBVIOUS
<1>4. 16 + (p \div 64) * 32 + (p % 32) = d
  BY <1>2, <1>3
<1>5. b \in Nibble(d, h)
  BY <1>2, <1>4, QuantQ4_K
<1>6. b \div 8 = d /\ (b % 8) \div 4 = h /\ b \in (8*d)..(8*d + 7)
  BY <1>5, NibbleTaker
<1> QED
  BY <1>1, <1>2, <1>3, <1>6

\* Every bit of the region of quants is one of the quant of the activation it names.
LEMMA TakenQ4_K ==
  ASSUME NEW b \in Nat, 128 <= b, b < 1152
  PROVE  /\ Taker("Q4_K", b) \in Below(256)
         /\ b \in BitsOf(DequantizeQ4_K(Taker("Q4_K", b)).q)
<1>1. Taker("Q4_K", b) = OfChunk(b \div 8 - 16, (b % 8) \div 4)
  BY DEF Taker
<1>2. PICK c \in Below(128), h \in {0, 1} : c = b \div 8 - 16 /\ h = (b % 8) \div 4
  <2>1. b \div 8 - 16 \in Below(128) /\ (b % 8) \div 4 \in {0, 1}
    OBVIOUS
  <2> QED
    BY <2>1
<1>3. PICK p \in Below(256) :
        p = OfChunk(c, h) /\ (p \div 64) * 32 + (p % 32) = c /\ (p % 64) \div 32 = h
  BY ChunkOf
<1>4. (p \div 64) * 32 + (p % 32) = c /\ (p % 64) \div 32 = h
  BY <1>3
<1>5. 16 + (p \div 64) * 32 + (p % 32) = b \div 8
  BY <1>2, <1>4
<1>6. b \in Nibble(b \div 8, h)
  BY <1>2, NibbleOf
<1>7. b \in BitsOf(DequantizeQ4_K(p).q)
  BY <1>4, <1>5, <1>6, QuantQ4_K
<1> QED
  BY <1>1, <1>2, <1>3, <1>7

LEMMA TakerQ5_K ==
  ASSUME NEW p \in Below(256), NEW b \in BitsOf(DequantizeQ5_K(p).q)
  PROVE  b \in Nat /\ 128 <= b /\ b < 1408 /\ Taker("Q5_K", b) = p
<1>1. Taker("Q5_K", b) = IF b \div 8 < 48 THEN 32 * (b % 8) + (b \div 8 - 16)
                         ELSE OfChunk(b \div 8 - 48, (b % 8) \div 4)
  BY DEF Taker
<1>2. PICK c \in Below(128), h \in {0, 1} :
        c = (p \div 64) * 32 + (p % 32) /\ h = (p % 64) \div 32 /\ OfChunk(c, h) = p
  BY Chunks
<1>3. PICK d \in Nat : d = 48 + c
  OBVIOUS
<1>4. 48 + (p \div 64) * 32 + (p % 32) = d
  BY <1>2, <1>3
<1>5. b \in Nibble(d, h) \/ b = 8 * (16 + (p % 32)) + p \div 32
  <2>1. BitsOf(DequantizeQ5_K(p).q) = Nibble(d, h) \cup {8 * (16 + (p % 32)) + p \div 32}
    BY <1>2, <1>4, QuantQ5_K
  <2> QED
    BY <2>1
<1>6. CASE b \in Nibble(d, h)
  <2>1. b \div 8 = d /\ (b % 8) \div 4 = h /\ b \in (8*d)..(8*d + 7)
    BY <1>6, NibbleTaker
  <2> QED
    BY <1>1, <1>2, <1>3, <2>1
<1>7. CASE b = 8 * (16 + (p % 32)) + p \div 32
  <2>1. PICK l \in Below(32), k \in 0..7 : l = p % 32 /\ k = p \div 32 /\ p = 32 * k + l
    OBVIOUS
  <2>2. b = 8 * (16 + l) + k
    BY <1>7, <2>1
  <2>3. b \div 8 = 16 + l /\ b % 8 = k
    BY <2>2
  <2> QED
    BY <1>1, <2>1, <2>2, <2>3
<1> QED
  BY <1>5, <1>6, <1>7

\* Every bit of the region of quants is one of the quant of the activation it names.
LEMMA TakenQ5_K ==
  ASSUME NEW b \in Nat, 128 <= b, b < 1408
  PROVE  /\ Taker("Q5_K", b) \in Below(256)
         /\ b \in BitsOf(DequantizeQ5_K(Taker("Q5_K", b)).q)
<1>1. Taker("Q5_K", b) = IF b \div 8 < 48 THEN 32 * (b % 8) + (b \div 8 - 16)
                         ELSE OfChunk(b \div 8 - 48, (b % 8) \div 4)
  BY DEF Taker
<1>2. CASE b \div 8 < 48
  <2>1. PICK l \in Below(32), k \in 0..7 : l = b \div 8 - 16 /\ k = b % 8 /\ b = 8 * (16 + l) + k
    <3>1. b \div 8 - 16 \in Below(32) /\ b % 8 \in 0..7 /\ b = 8 * (16 + (b \div 8 - 16)) + (b % 8)
      BY <1>2
    <3> QED
      BY <3>1
  <2>2. PICK p \in Below(256) : p = 32 * k + l
    <3>1. 32 * k + l \in Below(256)
      OBVIOUS
    <3> QED
      BY <3>1
  <2>3. p % 32 = l /\ p \div 32 = k
    BY <2>2
  <2>4. b = 8 * (16 + (p % 32)) + p \div 32
    BY <2>1, <2>3
  <2>5. b \in BitsOf(DequantizeQ5_K(p).q)
    BY <2>4, QuantQ5_K
  <2> QED
    BY <1>1, <1>2, <2>1, <2>2, <2>5
<1>3. CASE ~(b \div 8 < 48)
  <2>1. PICK c \in Below(128), h \in {0, 1} : c = b \div 8 - 48 /\ h = (b % 8) \div 4
    <3>1. b \div 8 - 48 \in Below(128) /\ (b % 8) \div 4 \in {0, 1}
      BY <1>3
    <3> QED
      BY <3>1
  <2>2. PICK p \in Below(256) :
          p = OfChunk(c, h) /\ (p \div 64) * 32 + (p % 32) = c /\ (p % 64) \div 32 = h
    BY ChunkOf
  <2>3. (p \div 64) * 32 + (p % 32) = c /\ (p % 64) \div 32 = h
    BY <2>2
  <2>4. 48 + (p \div 64) * 32 + (p % 32) = b \div 8
    BY <2>1, <2>3
  <2>5. b \in Nibble(b \div 8, h)
    BY <2>1, NibbleOf
  <2>6. b \in BitsOf(DequantizeQ5_K(p).q)
    BY <2>3, <2>4, <2>5, QuantQ5_K
  <2> QED
    BY <1>1, <1>3, <2>1, <2>2, <2>6
<1> QED
  BY <1>2, <1>3

LEMMA TakerQ6_K ==
  ASSUME NEW p \in Below(256), NEW b \in BitsOf(DequantizeQ6_K(p).q)
  PROVE  b \in Nat /\ b < 1536 /\ Taker("Q6_K", b) = p
<1>1. Taker("Q6_K", b) =
        IF b \div 8 < 128 THEN 128 * ((b \div 8) \div 64) + 64 * ((b % 8) \div 4) + ((b \div 8) % 64)
        ELSE 128 * ((b \div 8 - 128) \div 32) + 32 * ((b % 8) \div 2) + ((b \div 8) % 32)
  BY DEF Taker
<1>2. PICK n \in {0, 1}, k \in 0..3, l \in Below(32) :
        p \div 128 = n /\ (p % 128) \div 32 = k /\ p % 32 = l /\ p = 128 * n + 32 * k + l
  OBVIOUS
<1>3. PICK h \in {0, 1}, m \in Below(64) :
        (p % 128) \div 64 = h /\ p % 64 = m /\ p = 128 * n + 64 * h + m
  BY <1>2
<1>4. PICK d \in Below(128) : d = (p \div 128) * 64 + (p % 64) /\ d = n * 64 + m
  BY <1>2, <1>3
<1>5. PICK a \in Below(192) : a = 128 + (p \div 128) * 32 + (p % 32) /\ a = 128 + n * 32 + l
  BY <1>2
<1>6. b \in Nibble(d, h) \/ b \in {8 * a + 2 * k, 8 * a + 2 * k + 1}
  BY <1>2, <1>3, <1>4, <1>5, QuantQ6_K
<1>7. CASE b \in Nibble(d, h)
  <2>1. b \div 8 = d /\ (b % 8) \div 4 = h /\ b \in (8*d)..(8*d + 7)
    BY <1>7, NibbleTaker
  <2>2. d \div 64 = n /\ d % 64 = m
    BY <1>4
  <2> QED
    BY <1>1, <1>3, <2>1, <2>2
<1>8. CASE b \in {8 * a + 2 * k, 8 * a + 2 * k + 1}
  <2>1. PICK i \in 0..7 : b = 8 * a + i /\ i \div 2 = k
    <3>1. CASE b = 8 * a + 2 * k
      BY <3>1
    <3>2. CASE b = 8 * a + 2 * k + 1
      BY <3>2
    <3> QED
      BY <1>8, <3>1, <3>2
  <2>2. b \div 8 = a /\ b % 8 = i /\ b \in Nat /\ b < 1536
    BY <2>1
  <2>3. (a - 128) \div 32 = n /\ a % 32 = l
    BY <1>5
  <2> QED
    BY <1>1, <1>2, <2>1, <2>2, <2>3
<1> QED
  BY <1>6, <1>7, <1>8

\* Every bit of the region of quants is one of the quant of the activation it names.
LEMMA TakenQ6_K ==
  ASSUME NEW b \in Nat, b < 1536
  PROVE  /\ Taker("Q6_K", b) \in Below(256)
         /\ b \in BitsOf(DequantizeQ6_K(Taker("Q6_K", b)).q)
<1>1. Taker("Q6_K", b) =
        IF b \div 8 < 128 THEN 128 * ((b \div 8) \div 64) + 64 * ((b % 8) \div 4) + ((b \div 8) % 64)
        ELSE 128 * ((b \div 8 - 128) \div 32) + 32 * ((b % 8) \div 2) + ((b \div 8) % 32)
  BY DEF Taker
<1>2. CASE b \div 8 < 128
  <2>1. PICK c \in Below(128), h \in {0, 1} : c = b \div 8 /\ h = (b % 8) \div 4
    <3>1. b \div 8 \in Below(128) /\ (b % 8) \div 4 \in {0, 1}
      BY <1>2
    <3> QED
      BY <3>1
  <2>2. PICK n \in {0, 1}, m \in Below(64) : n = c \div 64 /\ m = c % 64 /\ c = 64 * n + m
    OBVIOUS
  <2>3. PICK p \in Below(256) : p = 128 * n + 64 * h + m
    <3>1. 128 * n + 64 * h + m \in Below(256)
      OBVIOUS
    <3> QED
      BY <3>1
  <2>4. p \div 128 = n /\ p % 64 = m /\ (p % 128) \div 64 = h
    BY <2>3
  <2>5. (p \div 128) * 64 + (p % 64) = c
    BY <2>2, <2>4
  <2>6. b \in Nibble(c, h)
    BY <2>1, NibbleOf
  <2>7. b \in BitsOf(DequantizeQ6_K(p).q)
    BY <2>4, <2>5, <2>6, QuantQ6_K
  <2> QED
    BY <1>1, <1>2, <2>1, <2>2, <2>3, <2>7
<1>3. CASE ~(b \div 8 < 128)
  <2>1. PICK n \in {0, 1}, l \in Below(32), k \in 0..3 :
          /\ n = (b \div 8 - 128) \div 32 /\ l = (b \div 8) % 32 /\ k = (b % 8) \div 2
          /\ b \div 8 = 128 + 32 * n + l
    <3>1. /\ (b \div 8 - 128) \div 32 \in {0, 1} /\ (b \div 8) % 32 \in Below(32)
          /\ (b % 8) \div 2 \in 0..3
          /\ b \div 8 = 128 + 32 * ((b \div 8 - 128) \div 32) + ((b \div 8) % 32)
      BY <1>3
    <3> QED
      BY <3>1
  <2>2. PICK p \in Below(256) : p = 128 * n + 32 * k + l
    <3>1. 128 * n + 32 * k + l \in Below(256)
      OBVIOUS
    <3> QED
      BY <3>1
  <2>3. p \div 128 = n /\ p % 32 = l /\ (p % 128) \div 32 = k
    BY <2>2
  <2>4. PICK a \in Nat : a = b \div 8 /\ a = 128 + (p \div 128) * 32 + (p % 32)
    BY <2>1, <2>3
  <2>5. b = 8 * a + 2 * k \/ b = 8 * a + 2 * k + 1
    BY <2>1, <2>4
  <2>6. b \in BitsOf(DequantizeQ6_K(p).q)
    <3>1. PICK x : x = Nibble((p \div 128) * 64 + (p % 64), (p % 128) \div 64)
      OBVIOUS
    <3>2. PICK y \in Nat : y = 8 * (128 + (p \div 128) * 32 + (p % 32)) + 2 * ((p % 128) \div 32)
      OBVIOUS
    <3>3. BitsOf(DequantizeQ6_K(p).q) = x \cup {y, y + 1}
      BY <3>1, <3>2, QuantQ6_K
    <3>4. y = 8 * a + 2 * k
      BY <2>3, <2>4, <3>2
    <3> QED
      BY <2>5, <3>3, <3>4
  <2> QED
    BY <1>1, <1>3, <2>1, <2>2, <2>6
<1> QED
  BY <1>2, <1>3

-----------------------------------------------------------------------------
(* The bits of scales and minimums.                                        *)

LEMMA ScaleMinBits ==
  ASSUME NEW j \in 0..7
  PROVE  /\ BitsOf(GetScaleMinK4(j).scale) =
              IF j < 4 THEN (8*j + 32)..(8*j + 37) ELSE (8*j + 64)..(8*j + 67) \cup (8*j + 6)..(8*j + 7)
         /\ BitsOf(GetScaleMinK4(j).min) =
              IF j < 4 THEN (8*j + 64)..(8*j + 69) ELSE (8*j + 68)..(8*j + 71) \cup (8*j + 38)..(8*j + 39)
<1>1. CASE j < 4
  <2>1. PICK s \in Nat, m \in Nat : s = 4 + j /\ m = 4 + (j + 4)
    OBVIOUS
  <2>2. GetScaleMinK4(j).scale = Low(Byte(s), 6) /\ GetScaleMinK4(j).min = Low(Byte(m), 6)
    BY <1>1, <2>1 DEF GetScaleMinK4
  <2>3. BitsOf(Low(Byte(s), 6)) = (8*s)..(8*s + 6 - 1) /\ BitsOf(Low(Byte(m), 6)) = (8*m)..(8*m + 6 - 1)
    BY LowBits
  <2> QED
    BY <1>1, <2>1, <2>2, <2>3
<1>2. CASE ~(j < 4)
  <2>1. PICK a \in Nat, s \in Nat, m \in Nat : a = 4 + (j + 4) /\ s = 4 + (j - 4) /\ m = 4 + j
    <3>1. 4 + (j + 4) \in Nat /\ 4 + (j - 4) \in Nat /\ 4 + j \in Nat
      OBVIOUS
    <3> QED
      BY <3>1
  <2>2. /\ GetScaleMinK4(j).scale = Or(Low(Byte(a), 4), Above(s, 6, 2))
        /\ GetScaleMinK4(j).min = Or(Shr(Byte(a), 4), Above(m, 6, 2))
    <3>1. /\ GetScaleMinK4(j).scale = Or(Low(Byte(a), 4), Shl(Shr(Byte(s), 6), 4))
          /\ GetScaleMinK4(j).min = Or(Shr(Byte(a), 4), Shl(Shr(Byte(m), 6), 4))
      BY <1>2, <2>1 DEF GetScaleMinK4
    <3> QED
      BY <3>1, TopTwo
  <2>3. /\ \E x : x = Low(Byte(a), 4) /\ x = IF 0 = 0 THEN Low(Byte(a), 4) ELSE Shr(Byte(a), 4)
        /\ \E x : x = Shr(Byte(a), 4) /\ x = IF 1 = 0 THEN Low(Byte(a), 4) ELSE Shr(Byte(a), 4)
    OBVIOUS
  <2>4. /\ BitsOf(GetScaleMinK4(j).scale) = Nibble(a, 0) \cup Span(s, 6, 2)
        /\ BitsOf(GetScaleMinK4(j).min) = Nibble(a, 1) \cup Span(m, 6, 2)
    BY <2>2, <2>3, NibbleBits
  <2> QED
    BY <1>2, <2>1, <2>4 DEF Nibble, Span
<1> QED
  BY <1>1, <1>2

\* What a group's scale and minimum take of the twelve bytes.
GroupBits(j) == BitsOf(GetScaleMinK4(j).scale) \cup BitsOf(GetScaleMinK4(j).min)

\* The twelve bytes hold scales and minimums and nothing else.
LEMMA ScalesUsed ==
  ASSUME NEW b
  PROVE  (\E j \in 0..7 : b \in GroupBits(j)) <=> (b \in Nat /\ 32 <= b /\ b < 128)
<1>1. ASSUME NEW j \in 0..7, b \in GroupBits(j)
      PROVE  b \in Nat /\ 32 <= b /\ b < 128
  BY <1>1, ScaleMinBits DEF GroupBits
<1>2. ASSUME b \in Nat, 32 <= b, b < 128
      PROVE  \E j \in 0..7 : b \in GroupBits(j)
  <2>1. PICK c \in 4..15, i \in 0..7 : b = 8*c + i
    <3>1. b \div 8 \in 4..15 /\ b % 8 \in 0..7 /\ b = 8 * (b \div 8) + (b % 8)
      BY <1>2
    <3> QED
      BY <3>1
  <2>2. PICK j \in 0..7 :
          j = IF c > 11 THEN c - 8 ELSE IF c > 7 THEN (IF i < 6 THEN c - 8 ELSE c - 4)
              ELSE IF i < 6 THEN c - 4 ELSE c
    OBVIOUS
  <2>3. CASE c > 11
    BY <2>1, <2>2, <2>3, ScaleMinBits DEF GroupBits
  <2>4. CASE c <= 11 /\ c > 7
    BY <2>1, <2>2, <2>4, ScaleMinBits DEF GroupBits
  <2>5. CASE c <= 7
    BY <2>1, <2>2, <2>5, ScaleMinBits DEF GroupBits
  <2> QED
    BY <2>3, <2>4, <2>5
<1> QED
  BY <1>1, <1>2

\* The bits of an element: its quant's and its group's.
LEMMA BitsQ4_K ==
  ASSUME NEW p \in Below(256)
  PROVE  /\ p \div 32 \in 0..7
         /\ AllBits(DequantizeQ4_K(p)) = BitsOf(DequantizeQ4_K(p).q) \cup GroupBits(p \div 32)
<1>1. PICK j \in 0..7 : j = p \div 32 /\ j = 2 * (p \div 64) + (p % 64) \div 32
  <2>1. p \div 32 \in 0..7 /\ p \div 32 = 2 * (p \div 64) + (p % 64) \div 32
    OBVIOUS
  <2> QED
    BY <2>1
<1>2. DequantizeQ4_K(p).scale = GetScaleMinK4(j).scale /\ DequantizeQ4_K(p).min = GetScaleMinK4(j).min
  BY <1>1 DEF DequantizeQ4_K, Value
<1> QED
  BY <1>1, <1>2 DEF AllBits, GroupBits

LEMMA BitsQ5_K ==
  ASSUME NEW p \in Below(256)
  PROVE  /\ p \div 32 \in 0..7
         /\ AllBits(DequantizeQ5_K(p)) = BitsOf(DequantizeQ5_K(p).q) \cup GroupBits(p \div 32)
<1>1. PICK j \in 0..7 : j = p \div 32 /\ j = 2 * (p \div 64) + (p % 64) \div 32
  <2>1. p \div 32 \in 0..7 /\ p \div 32 = 2 * (p \div 64) + (p % 64) \div 32
    OBVIOUS
  <2> QED
    BY <2>1
<1>2. DequantizeQ5_K(p).scale = GetScaleMinK4(j).scale /\ DequantizeQ5_K(p).min = GetScaleMinK4(j).min
  BY <1>1 DEF DequantizeQ5_K, Value
<1> QED
  BY <1>1, <1>2 DEF AllBits, GroupBits

\* A Q6_K element's scale is a byte of its own.
ScaleByte(p) == (p \div 128) * 8 + ((p % 32) \div 16) + 2 * ((p % 128) \div 32)
Octet(c) == (8*c)..(8*c + 7)

LEMMA BitsQ6_K ==
  ASSUME NEW p \in Below(256)
  PROVE  /\ ScaleByte(p) \in Below(16)
         /\ AllBits(DequantizeQ6_K(p)) = BitsOf(DequantizeQ6_K(p).q) \cup Octet(192 + ScaleByte(p))
<1>1. ScaleByte(p) \in Below(16)
  BY DEF ScaleByte
<1>2. PICK d \in Nat : d = 192 + ScaleByte(p)
  BY <1>1
<1>3. DequantizeQ6_K(p).scale = Byte(d) /\ DequantizeQ6_K(p).min = None
  <2>1. 192 + (p \div 128) * 8 + ((p % 32) \div 16) + 2 * ((p % 128) \div 32) = d
    BY <1>2 DEF ScaleByte
  <2> QED
    BY <2>1 DEF DequantizeQ6_K, Value
<1>4. BitsOf(Byte(d)) = Octet(d)
  <2>1. Byte(d) = [i \in 1..8 |-> 8*d + i - 1]
    BY DEF Byte, Bits
  <2>2. ASSUME NEW x \in Octet(d)
        PROVE  x \in BitsOf(Byte(d))
    <3>1. PICK i \in 1..8 : x = 8*d + i - 1
      <4>1. x - 8*d + 1 \in 1..8
        BY DEF Octet
      <4> QED
        BY <4>1 DEF Octet
    <3> QED
      BY <2>1, <3>1 DEF BitsOf, Zero
  <2> QED
    BY <2>1, <2>2 DEF BitsOf, Zero, Octet
<1> QED
  BY <1>1, <1>2, <1>3, <1>4, NoBits DEF AllBits

-----------------------------------------------------------------------------
(* Whole blocks.                                                           *)

LEMMA UsedQ4_K ==
  ASSUME NEW b
  PROVE  (b \in Below(32) \/ \E p \in Below(256) : b \in AllBits(DequantizeQ4_K(p)))
           <=> (b \in Nat /\ b < 1152)
<1>1. ASSUME NEW p \in Below(256), b \in AllBits(DequantizeQ4_K(p))
      PROVE  b \in Nat /\ b < 1152
  <2>1. CASE b \in BitsOf(DequantizeQ4_K(p).q)
    <3>1. b \in Nat /\ 128 <= b /\ b < 1152
      BY <2>1, TakerQ4_K
    <3> QED
      BY <3>1
  <2>2. CASE b \in GroupBits(p \div 32)
    <3>1. b \in Nat /\ 32 <= b /\ b < 128
      BY <2>2, BitsQ4_K, ScalesUsed
    <3> QED
      BY <3>1
  <2> QED
    BY <1>1, <2>1, <2>2, BitsQ4_K
<1>2. ASSUME b \in Nat, 128 <= b, b < 1152
      PROVE  \E p \in Below(256) : b \in AllBits(DequantizeQ4_K(p))
  <2>1. /\ Taker("Q4_K", b) \in Below(256)
        /\ b \in BitsOf(DequantizeQ4_K(Taker("Q4_K", b)).q)
    BY <1>2, TakenQ4_K
  <2> QED
    BY <2>1, BitsQ4_K
<1>3. ASSUME b \in Nat, 32 <= b, b < 128
      PROVE  \E p \in Below(256) : b \in AllBits(DequantizeQ4_K(p))
  <2>1. PICK j \in 0..7 : b \in GroupBits(j)
    BY <1>3, ScalesUsed
  <2>2. PICK p \in Below(256) : p \div 32 = j
    <3>1. 32 * j \in Below(256) /\ (32 * j) \div 32 = j
      OBVIOUS
    <3> QED
      BY <3>1
  <2> QED
    BY <2>1, <2>2, BitsQ4_K
<1>4. (b \in Nat /\ b < 1152)
        <=> b \in Below(32) \/ (b \in Nat /\ 32 <= b /\ b < 128) \/ (b \in Nat /\ 128 <= b /\ b < 1152)
  OBVIOUS
<1>5. (\E p \in Below(256) : b \in AllBits(DequantizeQ4_K(p))) => (b \in Nat /\ b < 1152)
  BY <1>1
<1>6. ((b \in Nat /\ 32 <= b /\ b < 128) \/ (b \in Nat /\ 128 <= b /\ b < 1152))
        => \E p \in Below(256) : b \in AllBits(DequantizeQ4_K(p))
  BY <1>2, <1>3
<1> QED
  BY <1>4, <1>5, <1>6

LEMMA UsedQ5_K ==
  ASSUME NEW b
  PROVE  (b \in Below(32) \/ \E p \in Below(256) : b \in AllBits(DequantizeQ5_K(p)))
           <=> (b \in Nat /\ b < 1408)
<1>1. ASSUME NEW p \in Below(256), b \in AllBits(DequantizeQ5_K(p))
      PROVE  b \in Nat /\ b < 1408
  <2>1. CASE b \in BitsOf(DequantizeQ5_K(p).q)
    <3>1. b \in Nat /\ 128 <= b /\ b < 1408
      BY <2>1, TakerQ5_K
    <3> QED
      BY <3>1
  <2>2. CASE b \in GroupBits(p \div 32)
    <3>1. b \in Nat /\ 32 <= b /\ b < 128
      BY <2>2, BitsQ5_K, ScalesUsed
    <3> QED
      BY <3>1
  <2> QED
    BY <1>1, <2>1, <2>2, BitsQ5_K
<1>2. ASSUME b \in Nat, 128 <= b, b < 1408
      PROVE  \E p \in Below(256) : b \in AllBits(DequantizeQ5_K(p))
  <2>1. /\ Taker("Q5_K", b) \in Below(256)
        /\ b \in BitsOf(DequantizeQ5_K(Taker("Q5_K", b)).q)
    BY <1>2, TakenQ5_K
  <2> QED
    BY <2>1, BitsQ5_K
<1>3. ASSUME b \in Nat, 32 <= b, b < 128
      PROVE  \E p \in Below(256) : b \in AllBits(DequantizeQ5_K(p))
  <2>1. PICK j \in 0..7 : b \in GroupBits(j)
    BY <1>3, ScalesUsed
  <2>2. PICK p \in Below(256) : p \div 32 = j
    <3>1. 32 * j \in Below(256) /\ (32 * j) \div 32 = j
      OBVIOUS
    <3> QED
      BY <3>1
  <2> QED
    BY <2>1, <2>2, BitsQ5_K
<1>4. (b \in Nat /\ b < 1408)
        <=> b \in Below(32) \/ (b \in Nat /\ 32 <= b /\ b < 128) \/ (b \in Nat /\ 128 <= b /\ b < 1408)
  OBVIOUS
<1>5. (\E p \in Below(256) : b \in AllBits(DequantizeQ5_K(p))) => (b \in Nat /\ b < 1408)
  BY <1>1
<1>6. ((b \in Nat /\ 32 <= b /\ b < 128) \/ (b \in Nat /\ 128 <= b /\ b < 1408))
        => \E p \in Below(256) : b \in AllBits(DequantizeQ5_K(p))
  BY <1>2, <1>3
<1> QED
  BY <1>4, <1>5, <1>6

LEMMA UsedQ6_K ==
  ASSUME NEW b
  PROVE  (\E p \in Below(256) : b \in AllBits(DequantizeQ6_K(p))) <=> (b \in Nat /\ b < 1664)
<1>1. ASSUME NEW p \in Below(256), b \in AllBits(DequantizeQ6_K(p))
      PROVE  b \in Nat /\ b < 1664
  <2>1. CASE b \in BitsOf(DequantizeQ6_K(p).q)
    <3>1. b \in Nat /\ b < 1536
      BY <2>1, TakerQ6_K
    <3> QED
      BY <3>1
  <2>2. CASE b \in Octet(192 + ScaleByte(p))
    <3>1. PICK c \in Below(16) : c = ScaleByte(p)
      BY BitsQ6_K
    <3> QED
      BY <2>2, <3>1 DEF Octet
  <2> QED
    BY <1>1, <2>1, <2>2, BitsQ6_K
<1>2. ASSUME b \in Nat, b < 1536
      PROVE  \E p \in Below(256) : b \in AllBits(DequantizeQ6_K(p))
  <2>1. /\ Taker("Q6_K", b) \in Below(256)
        /\ b \in BitsOf(DequantizeQ6_K(Taker("Q6_K", b)).q)
    BY <1>2, TakenQ6_K
  <2> QED
    BY <2>1, BitsQ6_K
<1>3. ASSUME b \in Nat, 1536 <= b, b < 1664
      PROVE  \E p \in Below(256) : b \in AllBits(DequantizeQ6_K(p))
  <2>1. PICK n \in {0, 1}, s \in 0..7 : b \div 8 = 192 + (8*n + s)
    <3>1. /\ (b \div 8 - 192) \div 8 \in {0, 1} /\ (b \div 8) % 8 \in 0..7
          /\ b \div 8 = 192 + (8 * ((b \div 8 - 192) \div 8) + ((b \div 8) % 8))
      BY <1>3
    <3> QED
      BY <3>1
  <2>2. PICK p \in Below(256) : p = 128 * n + 16 * s
    <3>1. 128 * n + 16 * s \in Below(256)
      OBVIOUS
    <3> QED
      BY <3>1
  <2>3. ScaleByte(p) = 8*n + s
    BY <2>2 DEF ScaleByte
  <2>4. b \in Octet(192 + ScaleByte(p))
    BY <1>3, <2>1, <2>3 DEF Octet
  <2> QED
    BY <2>4, BitsQ6_K
<1>4. (b \in Nat /\ b < 1664) <=> (b \in Nat /\ b < 1536) \/ (b \in Nat /\ 1536 <= b /\ b < 1664)
  OBVIOUS
<1>5. (\E p \in Below(256) : b \in AllBits(DequantizeQ6_K(p))) => (b \in Nat /\ b < 1664)
  BY <1>1
<1>6. ((b \in Nat /\ b < 1536) \/ (b \in Nat /\ 1536 <= b /\ b < 1664))
        => \E p \in Below(256) : b \in AllBits(DequantizeQ6_K(p))
  BY <1>2, <1>3
<1> QED
  BY <1>4, <1>5, <1>6

LEMMA UsedQ8_0 ==
  ASSUME NEW b
  PROVE  (b \in Below(16) \/ \E p \in Below(32) : b \in BitsOf(Byte(2 + p))) <=> (b \in Nat /\ b < 272)
<1>1. ASSUME NEW p \in Below(32), b \in BitsOf(Byte(2 + p))
      PROVE  b \in Nat /\ b < 272
  BY <1>1, QuantQ8_0
<1>2. ASSUME b \in Nat, 16 <= b, b < 272
      PROVE  \E p \in Below(32) : b \in BitsOf(Byte(2 + p))
  <2>1. PICK p \in Below(32) : p = b \div 8 - 2
    <3>1. b \div 8 - 2 \in Below(32)
      BY <1>2
    <3> QED
      BY <3>1
  <2>2. b \in (8 * (2 + p))..(8 * (2 + p) + 7)
    BY <1>2, <2>1
  <2> QED
    BY <2>2, QuantQ8_0
<1>3. (b \in Nat /\ b < 272) <=> b \in Below(16) \/ (b \in Nat /\ 16 <= b /\ b < 272)
  OBVIOUS
<1>4. (\E p \in Below(32) : b \in BitsOf(Byte(2 + p))) => (b \in Nat /\ b < 272)
  BY <1>1
<1>5. (b \in Nat /\ 16 <= b /\ b < 272) => \E p \in Below(32) : b \in BitsOf(Byte(2 + p))
  BY <1>2
<1> QED
  BY <1>3, <1>4, <1>5

\* The elements of each type, and the value of each.
LEMMA ElementsOf ==
  /\ Elements("F32") = {0} /\ Elements("Q8_0") = Below(32)
  /\ \A type \in {"Q4_K", "Q5_K", "Q6_K"} : Elements(type) = Below(256)
<1>1. /\ BlockSize["F32"] = 1 /\ BlockSize["Q8_0"] = 32
      /\ \A type \in {"Q4_K", "Q5_K", "Q6_K"} : BlockSize[type] = 256
  BY DEF BlockSize, QK_K
<1>2. \A n \in Nat : 0..(n - 1) = Below(n)
  OBVIOUS
<1> HIDE DEF Below
<1>3. Elements("F32") = 0..(1 - 1) /\ 0..(1 - 1) = {0}
  BY <1>1 DEF Elements
<1>4. Elements("Q8_0") = Below(32)
  <2>1. PICK n \in Nat : n = 32
    OBVIOUS
  <2>2. Elements("Q8_0") = 0..(n - 1)
    BY <1>1, <2>1 DEF Elements
  <2> QED
    BY <1>2, <2>1, <2>2
<1>5. \A type \in {"Q4_K", "Q5_K", "Q6_K"} : Elements(type) = Below(256)
  <2>1. PICK n \in Nat : n = 256
    OBVIOUS
  <2>2. \A type \in {"Q4_K", "Q5_K", "Q6_K"} : Elements(type) = 0..(n - 1)
    BY <1>1, <2>1 DEF Elements
  <2> QED
    BY <1>2, <2>1, <2>2
<1> QED
  BY <1>3, <1>4, <1>5

LEMMA ElementIs ==
  ASSUME NEW type \in DOMAIN BlockSize, NEW p \in Elements(type)
  PROVE  DequantizedBlock[type][p] = DequantizeBlock(type, p)
BY DEF DequantizedBlock

\* A bit of a quant is for one activation only.
LEMMA TakerIs ==
  ASSUME NEW type \in DOMAIN BlockSize, NEW p \in Elements(type),
         NEW b \in BitsOf(DequantizedBlock[type][p].q)
  PROVE  Taker(type, b) = p
<1> HIDE DEF Below
<1>1. DequantizedBlock[type][p] = DequantizeBlock(type, p)
  BY ElementIs
<1>2. CASE type = "F32"
  BY <1>2, ElementsOf DEF Taker
<1>3. CASE type = "Q8_0"
  <2>1. p \in Below(32)
    BY <1>3, ElementsOf
  <2>2. b \in BitsOf(Byte(2 + p))
    BY <1>1, <1>3 DEF DequantizeBlock, Value
  <2>3. b \in (8 * (2 + p))..(8 * (2 + p) + 7)
    BY <2>1, <2>2, QuantQ8_0
  <2>4. b \div 8 - 2 = p
    BY <2>1, <2>3 DEF Below
  <2> QED
    BY <1>3, <2>4 DEF Taker
<1>4. CASE type = "Q4_K"
  <2>1. p \in Below(256) /\ b \in BitsOf(DequantizeQ4_K(p).q)
    BY <1>1, <1>4, ElementsOf DEF DequantizeBlock
  <2> QED
    BY <1>4, <2>1, TakerQ4_K
<1>5. CASE type = "Q5_K"
  <2>1. p \in Below(256) /\ b \in BitsOf(DequantizeQ5_K(p).q)
    BY <1>1, <1>5, ElementsOf DEF DequantizeBlock
  <2> QED
    BY <1>5, <2>1, TakerQ5_K
<1>6. CASE type = "Q6_K"
  <2>1. p \in Below(256) /\ b \in BitsOf(DequantizeQ6_K(p).q)
    BY <1>1, <1>6, ElementsOf DEF DequantizeBlock
  <2> QED
    BY <1>6, <2>1, TakerQ6_K
<1> QED
  BY <1>2, <1>3, <1>4, <1>5, <1>6 DEF BlockSize

\* Every bit of a block counts, and no other.
LEMMA BlockUsed ==
  ASSUME NEW type \in DOMAIN BlockSize, NEW b
  PROVE  (b \in SharedBits(type) \/ \E p \in Elements(type) : b \in AllBits(DequantizedBlock[type][p]))
           <=> b \in Below(8 * BlockBytes[type])
<1> HIDE DEF Below
<1>1. (\E p \in Elements(type) : b \in AllBits(DequantizedBlock[type][p]))
        <=> \E p \in Elements(type) : b \in AllBits(DequantizeBlock(type, p))
  BY ElementIs
<1>2. CASE type = "F32"
  <2>1. DequantizeBlock(type, 0) = Value(Word(0), 0, None, None)
    BY <1>2 DEF DequantizeBlock
  <2>2. AllBits(DequantizeBlock(type, 0)) = Below(32)
    BY <2>1, QuantF32, NoBits DEF AllBits, Value
  <2>3. SharedBits(type) = {} /\ 8 * BlockBytes[type] = 32
    BY <1>2 DEF SharedBits, BlockBytes
  <2> QED
    BY <1>1, <1>2, <2>2, <2>3, ElementsOf
<1>3. CASE type = "Q8_0"
  <2>1. ASSUME NEW p
        PROVE  AllBits(DequantizeBlock(type, p)) = BitsOf(Byte(2 + p))
    <3>1. DequantizeBlock(type, p) = Value(Byte(2 + p), 0, None, None)
      BY <1>3 DEF DequantizeBlock
    <3> QED
      BY <3>1, NoBits DEF AllBits, Value
  <2>2. (b \in SharedBits(type) <=> b \in Below(16)) /\ 8 * BlockBytes[type] = 272
    BY <1>3 DEF SharedBits, BlockBytes, Below
  <2>3. b \in Below(272) <=> b \in Nat /\ b < 272
    BY DEF Below
  <2> QED
    BY <1>1, <1>3, <2>1, <2>2, <2>3, ElementsOf, UsedQ8_0
<1>4. CASE type = "Q4_K"
  <2>1. \A p : DequantizeBlock(type, p) = DequantizeQ4_K(p)
    BY <1>4 DEF DequantizeBlock
  <2>2. (b \in SharedBits(type) <=> b \in Below(32)) /\ 8 * BlockBytes[type] = 1152
    BY <1>4 DEF SharedBits, BlockBytes, Below
  <2>3. b \in Below(1152) <=> b \in Nat /\ b < 1152
    BY DEF Below
  <2> QED
    BY <1>1, <1>4, <2>1, <2>2, <2>3, ElementsOf, UsedQ4_K
<1>5. CASE type = "Q5_K"
  <2>1. \A p : DequantizeBlock(type, p) = DequantizeQ5_K(p)
    BY <1>5 DEF DequantizeBlock
  <2>2. (b \in SharedBits(type) <=> b \in Below(32)) /\ 8 * BlockBytes[type] = 1408
    BY <1>5 DEF SharedBits, BlockBytes, Below
  <2>3. b \in Below(1408) <=> b \in Nat /\ b < 1408
    BY DEF Below
  <2> QED
    BY <1>1, <1>5, <2>1, <2>2, <2>3, ElementsOf, UsedQ5_K
<1>6. CASE type = "Q6_K"
  <2>1. \A p : DequantizeBlock(type, p) = DequantizeQ6_K(p)
    BY <1>6 DEF DequantizeBlock
  <2>2. (b \in SharedBits(type) <=> b \in Nat /\ 1664 <= b /\ b < 1680) /\ 8 * BlockBytes[type] = 1680
    BY <1>6 DEF SharedBits, BlockBytes
  <2>3. b \in Below(1680) <=> (b \in Nat /\ b < 1664) \/ (b \in Nat /\ 1664 <= b /\ b < 1680)
    BY DEF Below
  <2> QED
    BY <1>1, <1>6, <2>1, <2>2, <2>3, ElementsOf, UsedQ6_K
<1> QED
  BY <1>2, <1>3, <1>4, <1>5, <1>6 DEF BlockSize

\* The products of a block use it up.
LEMMA UsedUpHolds ==
  ASSUME NEW path \in DOMAIN MultipliedBlock, NEW type \in DOMAIN BlockSize,
         ~(path = "arm" /\ type = "Q8_0")
  PROVE  UsedUp[path][type]
<1> HIDE DEF Below
<1> DEFINE met == MultipliedBlock[path][type]
           products == UNION {met[p] : p \in DOMAIN met}
           quants == [p \in DOMAIN met |-> UNION {BitsOf(v.q) : v \in met[p]}]
           bits == (UNION {AllBits(v) : v \in products}) \cup SharedBits(type)
<1>1. UsedUp[path][type] <=> /\ bits = 0..(8 * BlockBytes[type] - 1)
                             /\ \A p, o \in DOMAIN met : p # o => quants[p] \cap quants[o] = {}
  BY DEF UsedUp
<1>2. DOMAIN met = Elements(type)
  <2>1. path \in {"scalar", "x86", "arm"}
    BY DEF MultipliedBlock
  <2> QED
    BY <2>1 DEF MultipliedBlock
<1>3. \A p \in Elements(type) : met[p] = {DequantizedBlock[type][p]}
  BY BlocksAgree
<1>4. bits = 0..(8 * BlockBytes[type] - 1)
  <2>1. \A v : v \in products <=> \E p \in Elements(type) : v = DequantizedBlock[type][p]
    <3> HIDE DEF met
    <3> QED
      BY <1>2, <1>3
  <2>2. \A b : b \in bits <=> \/ b \in SharedBits(type)
                              \/ \E p \in Elements(type) : b \in AllBits(DequantizedBlock[type][p])
    <3>1. \A b : b \in bits <=> b \in SharedBits(type) \/ \E v \in products : b \in AllBits(v)
      <4>1. PICK S : S = {AllBits(v) : v \in products}
        OBVIOUS
      <4>2. bits = (UNION S) \cup SharedBits(type)
        BY <4>1
      <4>3. \A X : X \in S <=> \E v \in products : X = AllBits(v)
        <5> HIDE DEF products
        <5> QED
          BY <4>1
      <4>4. \A b : b \in UNION S <=> \E X \in S : b \in X
        OBVIOUS
      <4>5. \A b : b \in bits <=> b \in UNION S \/ b \in SharedBits(type)
        <5> HIDE DEF bits
        <5> QED
          BY <4>2
      <4> HIDE DEF bits, products
      <4> QED
        BY <4>3, <4>4, <4>5, Zenon
    <3> HIDE DEF bits, products
    <3> QED
      BY <2>1, <3>1
  <2>3. \A b : b \in bits <=> b \in Below(8 * BlockBytes[type])
    <3> HIDE DEF bits
    <3> QED
      BY <2>2, BlockUsed
  <2>4. Below(8 * BlockBytes[type]) = 0..(8 * BlockBytes[type] - 1)
    <3>1. PICK n \in Nat : n = BlockBytes[type]
      BY DEF BlockSize, BlockBytes
    <3> QED
      BY <3>1 DEF Below
  <2> HIDE DEF bits
  <2> QED
    BY <2>3, <2>4
<1>5. ASSUME NEW p \in DOMAIN met, NEW o \in DOMAIN met, p # o
      PROVE  quants[p] \cap quants[o] = {}
  <2>1. p \in Elements(type) /\ o \in Elements(type)
    BY <1>2
  <2>2. /\ quants[p] = BitsOf(DequantizedBlock[type][p].q)
        /\ quants[o] = BitsOf(DequantizedBlock[type][o].q)
    <3>1. met[p] = {DequantizedBlock[type][p]} /\ met[o] = {DequantizedBlock[type][o]}
      BY <1>3, <2>1
    <3> HIDE DEF met
    <3> QED
      BY <1>2, <2>1, <3>1
  <2>3. ASSUME NEW b \in quants[p] \cap quants[o]
        PROVE  FALSE
    <3> HIDE DEF quants
    <3>1. b \in BitsOf(DequantizedBlock[type][p].q) /\ b \in BitsOf(DequantizedBlock[type][o].q)
      BY <2>2
    <3>2. Taker(type, b) = p
      BY <2>1, <3>1, TakerIs
    <3>3. Taker(type, b) = o
      BY <2>1, <3>1, TakerIs
    <3> QED
      BY <1>5, <3>2, <3>3
  <2> QED
    BY <2>3
<1> HIDE DEF met, bits, quants
<1> QED
  BY <1>1, <1>4, <1>5

HIDE DEF Below

-----------------------------------------------------------------------------
(* Sizes.                                                                  *)

LEMMA ProductDefined ==
  ASSUME NEW dims
  PROVE  \A k \in Nat :
           \E f : f = [j \in 0..k |-> IF j = 0 THEN 1 ELSE f[j-1] * dims[j]]
<1> DEFINE P(k) == \E f : f = [j \in 0..k |-> IF j = 0 THEN 1 ELSE f[j-1] * dims[j]]
           G == {k \in Nat : P(k)}
<1>1. P(0)
  <2> DEFINE f == [j \in 0..0 |-> 1]
  <2>1. f = [j \in 0..0 |-> IF j = 0 THEN 1 ELSE f[j-1] * dims[j]]
    OBVIOUS
  <2> QED
    BY <2>1
<1>2. ASSUME NEW k \in Nat, P(k)
      PROVE  P(k + 1)
  <2>1. PICK f : f = [j \in 0..k |-> IF j = 0 THEN 1 ELSE f[j-1] * dims[j]]
    BY <1>2
  <2> DEFINE e(j) == IF j = 0 THEN 1 ELSE f[j-1] * dims[j]
             g == [j \in 0..(k+1) |-> e(j)]
  <2>2. ASSUME NEW j \in 0..(k+1), j # 0
        PROVE  g[j-1] = f[j-1]
    <3>1. j - 1 \in 0..k /\ j - 1 \in 0..(k+1)
      BY <2>2
    <3>2. f[j-1] = e(j-1)
      BY <2>1, <3>1
    <3>3. g[j-1] = e(j-1)
      BY <3>1
    <3> QED
      BY <3>2, <3>3
  <2> DEFINE r == [j \in 0..(k+1) |-> IF j = 0 THEN 1 ELSE g[j-1] * dims[j]]
  <2>3. \A j \in 0..(k+1) : g[j] = r[j]
    BY <2>2
  <2>4. g = r
    BY <2>3
  <2> QED
    BY <2>4
<1>3. 0 \in G /\ \A k \in Nat : k \in G => k + 1 \in G
  <2> HIDE DEF P
  <2> QED
    BY <1>1, <1>2
<1>4. Nat \subseteq G
  <2> HIDE DEF G
  <2> QED
    BY <1>3, NatBySteps
<1> QED
  BY <1>4

LEMMA NElementsType ==
  ASSUME NEW dims \in Seq(Nat)
  PROVE  NElements(dims) \in Nat
<1>1. PICK n \in Nat : n = Len(dims)
  BY LenProperties
<1> DEFINE f == CHOOSE f : f = [j \in 0..n |-> IF j = 0 THEN 1 ELSE f[j-1] * dims[j]]
<1>2. f = [j \in 0..n |-> IF j = 0 THEN 1 ELSE f[j-1] * dims[j]]
  BY ProductDefined
<1>3. NElements(dims) = f[n]
  BY <1>1 DEF NElements
<1> HIDE DEF f
<1> DEFINE G == {k \in Nat : k <= n => f[k] \in Nat}
<1>4. 0 \in G
  BY <1>2
<1>5. ASSUME NEW k \in Nat, k \in G
      PROVE  k + 1 \in G
  <2>1. CASE k + 1 <= n
    <3>1. k + 1 \in 0..n /\ k + 1 # 0 /\ (k + 1) - 1 = k /\ k <= n
      BY <2>1
    <3>2. f[k + 1] = f[k] * dims[k + 1]
      BY <1>2, <3>1
    <3>3. PICK a \in Nat : a = f[k]
      BY <1>5, <3>1
    <3>4. PICK b \in Nat : b = dims[k + 1]
      BY <1>1, <3>1, ElementOfSeq
    <3>5. a * b \in Nat
      OBVIOUS
    <3> QED
      BY <3>2, <3>3, <3>4, <3>5
  <2>2. CASE ~(k + 1 <= n)
    BY <2>2
  <2> QED
    BY <2>1, <2>2
<1>6. Nat \subseteq G
  <2> HIDE DEF G
  <2> QED
    BY <1>4, <1>5, NatBySteps
<1> QED
  BY <1>3, <1>6

LEMMA BlockNumbers ==
  ASSUME NEW type \in DOMAIN BlockSize
  PROVE  BlockSize[type] \in Nat \ {0} /\ BlockBytes[type] \in Nat \ {0}
BY DEF BlockSize, BlockBytes, QK_K

\* A row is of whole blocks.
LEMMA RowBlocks ==
  ASSUME NEW type, NEW n \in Nat, Sized(type, n)
  PROVE  \E q \in Nat : n = q * BlockSize[type] /\ TensorSize(type, n) = q * BlockBytes[type]
<1>1. PICK bs \in Nat \ {0} : bs = BlockSize[type]
  BY BlockNumbers DEF Sized
<1>2. PICK q \in Nat : q = n \div bs
  OBVIOUS
<1>3. n % bs = 0
  BY <1>1 DEF Sized
<1>4. n = q * bs
  BY <1>2, <1>3
<1> QED
  BY <1>1, <1>2, <1>4 DEF TensorSize

LEMMA SizeType ==
  ASSUME NEW type, NEW n \in Nat, Sized(type, n)
  PROVE  TensorSize(type, n) \in Nat
<1>1. PICK q \in Nat : TensorSize(type, n) = q * BlockBytes[type]
  BY RowBlocks
<1>2. PICK bb \in Nat : bb = BlockBytes[type]
  BY BlockNumbers DEF Sized
<1>3. q * bb \in Nat
  OBVIOUS
<1> QED
  BY <1>1, <1>2, <1>3

LEMMA Multiply ==
  ASSUME NEW a \in Nat, NEW b \in Nat, NEW c \in Nat, a <= b
  PROVE  a * c <= b * c /\ a * c \in Nat
<1>1. PICK d \in Nat : b = a + d
  <2>1. b - a \in Nat /\ b = a + (b - a)
    OBVIOUS
  <2> QED
    BY <2>1
<1>2. b * c = a * c + d * c /\ d * c \in Nat /\ a * c \in Nat
  BY <1>1
<1> QED
  BY <1>2

\* A tensor of at least rows * n_in elements has the bytes of its rows.
LEMMA RowsHaveBytes ==
  ASSUME NEW type, NEW n_in \in Nat, NEW rows \in Nat, NEW n \in Nat,
         Sized(type, n_in), n >= rows * n_in
  PROVE  TensorSize(type, n) \in Nat /\ TensorSize(type, n) >= rows * TensorSize(type, n_in)
<1>1. PICK q \in Nat : n_in = q * BlockSize[type] /\ TensorSize(type, n_in) = q * BlockBytes[type]
  BY RowBlocks
<1>2. PICK bs \in Nat \ {0}, bb \in Nat \ {0} : bs = BlockSize[type] /\ bb = BlockBytes[type]
  BY BlockNumbers DEF Sized
<1>3. PICK m \in Nat : m = rows * q
  OBVIOUS
<1>4. rows * (q * bs) = m * bs /\ rows * (q * bb) = m * bb
  BY <1>3
<1>5. PICK d \in Nat : d = n \div bs
  OBVIOUS
<1>6. n < (d + 1) * bs
  BY <1>5
<1>7. m <= d
  <2>1. SUFFICES ASSUME d + 1 <= m
                 PROVE  FALSE
    OBVIOUS
  <2>2. (d + 1) * bs <= m * bs
    BY <2>1, Multiply
  <2>3. m * bs <= n
    BY <1>1, <1>2, <1>4
  <2>4. PICK x \in Int, y \in Int : x = (d + 1) * bs /\ y = m * bs
    OBVIOUS
  <2> QED
    BY <1>6, <2>2, <2>3, <2>4
<1>8. m * bb <= d * bb /\ d * bb \in Nat
  BY <1>7, Multiply
<1> QED
  BY <1>1, <1>2, <1>4, <1>5, <1>8 DEF TensorSize

LEMMA DivIs ==
  ASSUME NEW bs \in Nat \ {0}, NEW d \in Nat, NEW r \in 0..(bs - 1)
  PROVE  (d * bs + r) \div bs = d /\ (d * bs + r) % bs = r
<1>1. PICK n \in Nat : n = d * bs + r
  <2>1. d * bs \in Nat
    OBVIOUS
  <2> QED
    BY <2>1
<1>2. PICK q \in Nat, s \in 0..(bs - 1) : q = n \div bs /\ s = n % bs /\ n = q * bs + s
  OBVIOUS
<1>3. q = d
  <2>1. CASE q < d
    <3>1. (q + 1) * bs <= d * bs
      BY <2>1, Multiply
    <3>2. (q + 1) * bs = q * bs + bs /\ q * bs \in Nat /\ d * bs \in Nat
      OBVIOUS
    <3> QED
      BY <1>1, <1>2, <3>1, <3>2
  <2>2. CASE d < q
    <3>1. (d + 1) * bs <= q * bs
      BY <2>2, Multiply
    <3>2. (d + 1) * bs = d * bs + bs /\ q * bs \in Nat /\ d * bs \in Nat
      OBVIOUS
    <3> QED
      BY <1>1, <1>2, <3>1, <3>2
  <2> QED
    BY <2>1, <2>2
<1>4. s = r
  <2>1. PICK x \in Nat : x = d * bs
    OBVIOUS
  <2> QED
    BY <1>1, <1>2, <1>3, <2>1
<1> QED
  BY <1>1, <1>2, <1>3, <1>4

\* Where the blocks of n activations begin.
LEMMA Beginnings ==
  ASSUME NEW bs \in Nat \ {0}, NEW q \in Nat, NEW n, n = q * bs
  PROVE  /\ Cardinality({y \in 0..(n - 1) : y % bs = 0}) = q
         /\ {y \div bs : y \in {x \in 0..(n - 1) : x % bs = 0}} = 0..(q - 1)
<1> DEFINE row == {y \in 0..(n - 1) : y % bs = 0}
           f == [b \in 0..(q - 1) |-> b * bs]
<1>1. ASSUME NEW b \in 0..(q - 1)
      PROVE  b * bs \in row /\ (b * bs) \div bs = b
  <2>1. (b + 1) * bs <= q * bs
    BY Multiply
  <2>2. (b + 1) * bs = b * bs + bs /\ b * bs \in Nat
    OBVIOUS
  <2>3. (b * bs + 0) \div bs = b /\ (b * bs + 0) % bs = 0
    BY DivIs
  <2> QED
    BY <2>1, <2>2, <2>3
<1>2. ASSUME NEW y \in row
      PROVE  y \div bs \in 0..(q - 1) /\ (y \div bs) * bs = y
  <2>1. n \in Nat
    OBVIOUS
  <2>2. PICK d \in Nat : d = y \div bs /\ y = d * bs
    BY <2>1
  <2>3. d < q
    <3>1. CASE q <= d
      <4>1. q * bs <= d * bs
        BY <3>1, Multiply
      <4> QED
        BY <2>1, <2>2, <4>1
    <3> QED
      BY <3>1
  <2> QED
    BY <2>2, <2>3
<1>3. f \in Bijection(0..(q - 1), row)
  <2>1. f \in [0..(q - 1) -> row]
    BY <1>1
  <2>2. ASSUME NEW a \in 0..(q - 1), NEW b \in 0..(q - 1), f[a] = f[b]
        PROVE  a = b
    <3>1. a * bs = b * bs
      BY <2>2
    <3> QED
      BY <1>1, <3>1
  <2>3. \A y \in row : \E b \in 0..(q - 1) : f[b] = y
    BY <1>2
  <2> HIDE DEF f, row
  <2> QED
    BY <2>1, <2>2, <2>3 DEF Bijection, Injection, Surjection, IsInjective
<1>4. Cardinality(row) = q
  <2>1. IsFiniteSet(0..(q - 1)) /\ Cardinality(0..(q - 1)) = q
    <3>1. /\ IsFiniteSet(0..(q - 1))
          /\ Cardinality(0..(q - 1)) = IF 0 > q - 1 THEN 0 ELSE q - 1 - 0 + 1
      BY FS_Interval
    <3> QED
      BY <3>1
  <2>2. ExistsBijection(0..(q - 1), row)
    BY <1>3 DEF ExistsBijection
  <2> HIDE DEF row
  <2> QED
    BY <2>1, <2>2, FS_Bijection
<1>5. {y \div bs : y \in row} = 0..(q - 1)
  <2> HIDE DEF row
  <2> QED
    BY <1>1, <1>2
<1> QED
  BY <1>4, <1>5

\* Element y of the m-th row lies in the row's own blocks.
LEMMA ElementInRow ==
  ASSUME NEW type, NEW n_in \in Nat, Sized(type, n_in), NEW m \in Nat, NEW base \in Nat,
         NEW y \in 0..(n_in - 1)
  PROVE  /\ (m * n_in + y) % BlockSize[type] = y % BlockSize[type]
         /\ y % BlockSize[type] \in Elements(type)
         /\ base + ((m * n_in + y) \div BlockSize[type]) * BlockBytes[type]
              = (base + m * TensorSize(type, n_in)) + (y \div BlockSize[type]) * BlockBytes[type]
<1>1. PICK bs \in Nat \ {0}, bb \in Nat \ {0} : bs = BlockSize[type] /\ bb = BlockBytes[type]
  BY BlockNumbers DEF Sized
<1>2. PICK q \in Nat : n_in = q * bs /\ TensorSize(type, n_in) = q * bb
  BY <1>1, RowBlocks
<1>3. PICK d \in Nat, r \in 0..(bs - 1) : d = y \div bs /\ r = y % bs /\ y = d * bs + r
  OBVIOUS
<1>4. PICK k \in Nat : k = m * q + d
  <2>1. m * q \in Nat
    OBVIOUS
  <2> QED
    BY <2>1
<1>5. m * n_in + y = k * bs + r
  <2>1. m * (q * bs) = (m * q) * bs /\ (m * q + d) * bs = (m * q) * bs + d * bs
    OBVIOUS
  <2>2. PICK a \in Nat, b \in Nat : a = (m * q) * bs /\ b = d * bs
    OBVIOUS
  <2> QED
    BY <1>2, <1>3, <1>4, <2>1, <2>2
<1>6. (m * n_in + y) \div bs = k /\ (m * n_in + y) % bs = r
  BY <1>5, DivIs
<1>7. base + k * bb = (base + m * (q * bb)) + d * bb
  <2>1. m * (q * bb) = (m * q) * bb /\ (m * q + d) * bb = (m * q) * bb + d * bb
    OBVIOUS
  <2>2. PICK a \in Nat, b \in Nat : a = (m * q) * bb /\ b = d * bb
    OBVIOUS
  <2> QED
    BY <1>4, <2>1, <2>2
<1> QED
  BY <1>1, <1>2, <1>3, <1>6, <1>7 DEF Elements

-----------------------------------------------------------------------------
(* What was loaded.                                                        *)

\* The numbers of an accepted configuration.
LEMMA Dimensions ==
  ASSUME LoaderInv, cfg # <<>>
  PROVE  /\ cfg["expert_count"] \in Nat /\ cfg["block_count"] \in Nat
         /\ n_embd \in Nat /\ n_ff \in Nat /\ q_size \in Nat /\ n_k \in Nat /\ v_size \in Nat
         /\ cfg["conv_dim"] \in Nat /\ cfg["ba_dim"] \in Nat /\ cfg["ssm.time_step_rank"] \in Nat
<1>1. /\ disk \in Installed /\ shards \in Seq(Opened)
      /\ SelectInSeq(shards, DeclaresArchitecture) # 0
      /\ ReadOnce.err = "Ok" /\ cfg = ReadOnce.c
  BY DEF LoaderInv, ShardsOpen, Configured
<1>2. PICK metadata : metadata = ConfigShard.gguf.metadata
  OBVIOUS
<1>3. PICK debug : debug = disk.debug
  OBVIOUS
<1>4. ReadOnce = FromMetadata(metadata, debug)
  BY <1>2, <1>3 DEF ReadOnce
<1>5. PICK read : read = ReadKeys(metadata)
  OBVIOUS
<1>6. PICK inner : inner = InnerSize(metadata)
  OBVIOUS
<1>7. \A key \in DOMAIN metadata : IsU32(metadata[key]) => metadata[key].v \in Nat
  BY <1>1, <1>2, ConfigTyped
<1>8. /\ \A k \in Required : cfg[k] = read[k] /\ read[k] \in Nat
      /\ \A k \in DOMAIN Derived(inner, read) : cfg[k] = Derived(inner, read)[k]
      /\ cfg["ssm.time_step_rank"] > 0
  <2>1. FromMetadata(metadata, debug).err = "Ok" /\ cfg = FromMetadata(metadata, debug).c
    BY <1>1, <1>4
  <2> QED
    BY <1>5, <1>6, <1>7, <2>1, Accepted
<1>9. inner = <<>> \/ inner[1] \in Nat
  BY <1>6, <1>7 DEF InnerSize, HasU32, Has
<1>10. /\ cfg["expert_count"] \in Nat /\ cfg["block_count"] \in Nat
       /\ cfg["embedding_length"] \in Nat /\ cfg["expert_feed_forward_length"] \in Nat
       /\ cfg["attention.head_count"] \in Nat /\ cfg["attention.key_length"] \in Nat
       /\ cfg["attention.head_count_kv"] \in Nat
       /\ cfg["ssm.time_step_rank"] = read["ssm.time_step_rank"]
       /\ read["ssm.time_step_rank"] \in Nat \ {0}
       /\ read["ssm.state_size"] \in Nat /\ read["ssm.group_count"] \in Nat
  <2>1. {"expert_count", "block_count", "embedding_length", "expert_feed_forward_length",
         "attention.head_count", "attention.key_length", "attention.head_count_kv",
         "ssm.time_step_rank", "ssm.state_size", "ssm.group_count"} \subseteq Required
    BY DEF Required
  <2> QED
    BY <1>8, <2>1
<1>11. /\ cfg["conv_dim"] = Derived(inner, read).conv_dim
       /\ cfg["ba_dim"] = Derived(inner, read).ba_dim
       /\ cfg["head_v_dim"] = Derived(inner, read).head_v_dim
  <2>1. {"conv_dim", "ba_dim", "head_v_dim"} \subseteq DOMAIN Derived(inner, read)
    BY DEF Derived
  <2> QED
    BY <1>8, <2>1
<1>12. \A n \in Nat : n % U32 \in Nat
  BY WidthAssumption
<1>13. \A a, b \in Nat : Product(a, b) \in Nat
  <2>1. ASSUME NEW a \in Nat, NEW b \in Nat
        PROVE  (a * b) % U32 \in Nat
    <3>1. a * b \in Nat
      OBVIOUS
    <3> QED
      BY <1>12, <3>1
  <2> QED
    BY <2>1 DEF Product
<1>14. PICK key \in Nat, value \in Nat :
         /\ key = Product(read["ssm.state_size"], read["ssm.group_count"])
         /\ value = Product(read["ssm.state_size"], read["ssm.time_step_rank"])
  BY <1>10, <1>13
<1>15. Derived(inner, read).conv_dim \in Nat /\ Derived(inner, read).ba_dim \in Nat
  <2>1. /\ Derived(inner, read).conv_dim = (Product(key, 2) + value) % U32
        /\ Derived(inner, read).ba_dim = value
    BY <1>14 DEF Derived
  <2>2. Product(key, 2) + value \in Nat
    BY <1>13
  <2> QED
    BY <1>12, <2>1, <2>2
<1>16. Derived(inner, read).head_v_dim \in Nat
  <2>1. Derived(inner, read).head_v_dim = HeadVDim(inner, read)
    BY DEF Derived
  <2>2. CASE inner = <<>>
    BY <1>10, <2>1, <2>2 DEF HeadVDim
  <2>3. CASE inner # <<>>
    <3>1. PICK a \in Nat, b \in Nat \ {0} : a = inner[1] /\ b = read["ssm.time_step_rank"]
      BY <1>9, <1>10, <2>3
    <3>2. a \div b \in Nat
      OBVIOUS
    <3> QED
      BY <2>1, <2>3, <3>1, <3>2 DEF HeadVDim
  <2> QED
    BY <2>2, <2>3
<1>17. \A a, b \in Nat : a * b \in Nat
  OBVIOUS
<1> QED
  BY <1>10, <1>11, <1>15, <1>16, <1>17 DEF n_embd, n_ff, q_size, n_k, v_size

LEMMA Shapes ==
  ASSUME LoaderInv, cfg # <<>>, NEW suffix
  PROVE  NIn(suffix) \in Nat /\ NOut(suffix) \in Nat
<1>1. NIn(suffix) \in Nat
  BY Dimensions DEF NIn
<1>2. 2 * q_size \in Nat
  BY Dimensions
<1>3. NOut(suffix) \in Nat
  BY <1>2, Dimensions DEF NOut
<1> QED
  BY <1>1, <1>3

\* A weight is all of its tensor, wherever that ends.
LEMMA WeightType ==
  ASSUME LoaderInv, Loadable, weights = [name \in Needed |-> Raw(name)],
         NEW name \in DOMAIN weights
  PROVE  /\ weights[name].offset \in Nat
         /\ NElements(by_name[name].meta.dims) \in Nat
         /\ weights[name].len = TensorSize(Type(name), NElements(by_name[name].meta.dims))
         /\ Sized(Type(name), NElements(by_name[name].meta.dims))
<1>1. name \in Needed /\ name \in DOMAIN by_name /\ SizedHere(name) /\ weights[name] = Raw(name)
  BY DEF Loadable
<1>2. Lists(by_name)
  <2>1. by_name # <<>>
    BY <1>1
  <2> QED
    BY <2>1 DEF LoaderInv, Indexed
<1>3. PICK e : e = by_name[name]
  OBVIOUS
<1>4. e.shard \in DOMAIN shards /\ Contains(shards[e.shard].gguf.tensors, e.meta)
  <2>1. e \in Listings(name)
    BY <1>1, <1>2, <1>3 DEF Lists
  <2>2. PICK si \in DOMAIN shards : \E m : e = Entry(si, m)
    BY <2>1 DEF Listings
  <2> QED
    BY <2>1, <2>2 DEF Listings, Entry
<1>5. disk \in Installed /\ shards \in Seq(Opened)
  BY DEF LoaderInv, ShardsOpen
<1>6. PICK gguf : gguf = shards[e.shard].gguf
  OBVIOUS
<1>7. gguf.tensors \in Seq(TensorMeta) /\ gguf.data_offset \in Nat
  <2>1. gguf = Open(shards[e.shard].path) /\ Open(shards[e.shard].path).err = "Ok"
    BY <1>4, <1>5, <1>6, ShardType
  <2> QED
    BY <1>5, <2>1, OpenType
<1>8. e.meta \in TensorMeta
  <2>1. PICK j \in 1..Len(gguf.tensors) : gguf.tensors[j] = e.meta
    BY <1>4, <1>6 DEF Contains
  <2> QED
    BY <1>7, <2>1, ElementOfSeq
<1>9. e.meta.dims \in Seq(Nat) /\ e.meta.offset \in Nat
  BY <1>8 DEF TensorMeta
<1>10. NElements(e.meta.dims) \in Nat
  BY <1>9, NElementsType
<1>11. weights[name].offset = gguf.data_offset + e.meta.offset
  BY <1>1, <1>3, <1>6 DEF Raw
<1>12. weights[name].len = TensorSize(e.meta.type, NElements(e.meta.dims))
  BY <1>1, <1>3 DEF Raw
<1> QED
  BY <1>1, <1>3, <1>7, <1>9, <1>10, <1>11, <1>12 DEF Type, SizedHere

-----------------------------------------------------------------------------
(* The inductive invariant.                                                *)

Result(suffix, i, e, r) ==
  IF suffix \in Experts THEN MoeFfnStream(suffix, i, e, r) ELSE Projected(suffix, i, r)

ReportOf(path, suffix, i, e, r) ==
  /\ path \in Paths /\ i \in 0..(cfg["block_count"] - 1) /\ r \in 0..(NOut(suffix) - 1)
  /\ BlockName(i, suffix) \in DOMAIN weights
  /\ \/ suffix \in Projections /\ e = 0
     \/ suffix \in Experts /\ e \in 0..(cfg["expert_count"] - 1)
  /\ out = [path |-> path, suffix |-> suffix, layer |-> i, expert |-> e, row |-> r,
            result |-> Result(suffix, i, e, r)]

\* The last row is one of the model that was loaded, and nothing has changed
\* since it was multiplied.
Reported ==
  out # <<>> =>
    /\ pc \in {"loaded", "panic"} /\ cfg # <<>>
    /\ Loadable /\ weights = [name \in Needed |-> Raw(name)]
    /\ \E path, suffix, i, e, r : ReportOf(path, suffix, i, e, r)

KernelsInv == LoaderInv /\ Reported

LEMMA ResultSame ==
  ASSUME shards' = shards, disk' = disk, cfg' = cfg, by_name' = by_name, weights' = weights
  PROVE  /\ \A suffix : NOut(suffix)' = NOut(suffix)
         /\ \A suffix, i, e, r : Result(suffix, i, e, r)' = Result(suffix, i, e, r)
<1>1. /\ n_embd' = n_embd /\ n_ff' = n_ff /\ q_size' = q_size /\ n_k' = n_k /\ v_size' = v_size
  BY DEF n_embd, n_ff, q_size, n_k, v_size
<1>2. \A suffix : NIn(suffix)' = NIn(suffix)
  BY <1>1, Zenon DEF NIn
<1>3. \A suffix : NOut(suffix)' = NOut(suffix)
  BY <1>1, Zenon DEF NOut
<1>4. \A name : Type(name)' = Type(name)
  BY DEF Type
<1>5. ASSUME NEW suffix, NEW i, NEW r
      PROVE  Projected(suffix, i, r)' = Projected(suffix, i, r)
  <2>1. Inside(weights[BlockName(i, suffix)])' <=> Inside(weights[BlockName(i, suffix)])
    BY DEF Inside
  <2> QED
    BY <1>2, <1>3, <1>4, <2>1, Zenon DEF Projected
<1>6. ASSUME NEW suffix, NEW i, NEW e
      PROVE  ExpertSlice(suffix, i, e)' = ExpertSlice(suffix, i, e)
  BY <1>2, <1>3, <1>4, Zenon DEF ExpertSlice
<1>7. ASSUME NEW suffix, NEW i, NEW e, NEW r
      PROVE  MoeFfnStream(suffix, i, e, r)' = MoeFfnStream(suffix, i, e, r)
  <2>1. \A s : Inside(weights[BlockName(i, s)])' <=> Inside(weights[BlockName(i, s)])
    BY DEF Inside
  <2> QED
    BY <1>1, <1>2, <1>3, <1>4, <1>6, <2>1, Zenon DEF MoeFfnStream
<1> QED
  BY <1>3, <1>5, <1>7 DEF Result

LEMMA KInitHolds ==
  ASSUME KInit
  PROVE  KernelsInv
<1>1. Init /\ out = <<>>
  BY DEF KInit
<1> QED
  BY <1>1, InitHolds DEF KernelsInv, Reported

\* Multiplying a row changes nothing but what is reported.
LEMMA ReportKeeps ==
  ASSUME KernelsInv, pc = "loaded", NEW path \in Paths, NEW i \in 0..(cfg["block_count"] - 1),
         NEW suffix, NEW e, NEW r \in 0..(NOut(suffix) - 1),
         BlockName(i, suffix) \in DOMAIN weights,
         \/ suffix \in Projections /\ e = 0
         \/ suffix \in Experts /\ e \in 0..(cfg["expert_count"] - 1),
         Report(path, suffix, i, e, r, Result(suffix, i, e, r))
  PROVE  KernelsInv'
<1>1. /\ disk' = disk /\ error' = error /\ paths' = paths /\ shards' = shards /\ cfg' = cfg
      /\ by_name' = by_name /\ weights' = weights /\ got' = <<>>
      /\ pc' \in {"loaded", "panic"}
      /\ out' = [path |-> path, suffix |-> suffix, layer |-> i, expert |-> e, row |-> r,
                 result |-> Result(suffix, i, e, r)]
  BY DEF Report
<1>2. LoaderInv
  BY DEF KernelsInv
<1>3. disk \in Installed /\ error.kind = "" /\ Loadable /\ weights = [name \in Needed |-> Raw(name)]
  BY <1>2 DEF LoaderInv, Taken
<1>4. SiblingNames' /\ ShardsOpen' /\ Configured' /\ Indexed' /\ cfg # <<>>
  BY <1>1, <1>2, LaterKeeps
<1>5. (Loadable' <=> Loadable) /\ weights' = [name \in Needed |-> Raw(name)]'
  <2>1. /\ Needed' = Needed /\ (Loadable' <=> Loadable)
        /\ \A name : Raw(name)' = Raw(name)
    BY <1>1, NeededSame
  <2> QED
    BY <1>1, <1>3, <2>1
<1>6. Taken'
  BY <1>1, <1>3, <1>5 DEF Taken
<1>7. MissingNowhereElse'
  BY <1>1 DEF MissingNowhereElse
<1>8. LoaderInv'
  <2>1. /\ disk' \in Installed /\ (pc' = "error" <=> error'.kind # "")
        /\ pc' \in {"probe", "open", "config", "index", "ready", "loaded", "error", "panic"}
    BY <1>1, <1>3
  <2> QED
    BY <2>1, <1>4, <1>6, <1>7, Zenon DEF LoaderInv
<1>9. ReportOf(path, suffix, i, e, r)'
  <2>1. NOut(suffix)' = NOut(suffix) /\ Result(suffix, i, e, r)' = Result(suffix, i, e, r)
    BY <1>1, ResultSame
  <2> QED
    BY <1>1, <2>1, Zenon DEF ReportOf
<1>10. Reported'
  BY <1>1, <1>3, <1>4, <1>5, <1>9, Zenon DEF Reported
<1> QED
  BY <1>8, <1>10 DEF KernelsInv

LEMMA KStutterKeeps ==
  ASSUME KernelsInv, UNCHANGED kvars
  PROVE  KernelsInv'
<1>1. UNCHANGED vars /\ out' = out
  BY DEF kvars
<1>2. LoaderInv'
  BY <1>1, StutterKeeps DEF KernelsInv
<1>3. /\ disk' = disk /\ pc' = pc /\ shards' = shards /\ cfg' = cfg /\ by_name' = by_name
      /\ weights' = weights
  BY <1>1 DEF vars
<1>4. /\ Needed' = Needed /\ (Loadable' <=> Loadable) /\ \A name : Raw(name)' = Raw(name)
  BY <1>3, NeededSame
<1>5. [name \in Needed |-> Raw(name)]' = [name \in Needed |-> Raw(name)]
  BY <1>4
<1>6. ASSUME NEW path, NEW suffix, NEW i, NEW e, NEW r, ReportOf(path, suffix, i, e, r)
      PROVE  ReportOf(path, suffix, i, e, r)'
  <2>1. NOut(suffix)' = NOut(suffix) /\ Result(suffix, i, e, r)' = Result(suffix, i, e, r)
    BY <1>3, ResultSame
  <2> QED
    BY <1>1, <1>3, <1>6, <2>1, Zenon DEF ReportOf
<1>7. Reported'
  <2>1. CASE out = <<>>
    BY <1>1, <2>1 DEF Reported
  <2>2. CASE out # <<>>
    <3>1. /\ pc \in {"loaded", "panic"} /\ cfg # <<>>
          /\ Loadable /\ weights = [name \in Needed |-> Raw(name)]
      BY <2>2 DEF KernelsInv, Reported
    <3>2. PICK path, suffix, i, e, r : ReportOf(path, suffix, i, e, r)
      BY <2>2 DEF KernelsInv, Reported
    <3>3. ReportOf(path, suffix, i, e, r)'
      BY <1>6, <3>2
    <3> QED
      BY <1>3, <1>4, <1>5, <3>1, <3>3, Zenon DEF Reported
  <2> QED
    BY <2>1, <2>2
<1> QED
  BY <1>2, <1>7 DEF KernelsInv

\* Before a row is multiplied, a step of the loader is all that happens.
LEMMA LoaderStepKeeps ==
  ASSUME KernelsInv, Next, out' = out, out = <<>>
  PROVE  KernelsInv'
<1>1. LoaderInv'
  BY StepKeeps DEF KernelsInv
<1> QED
  BY <1>1 DEF KernelsInv, Reported

LEMMA KStepKeeps ==
  ASSUME KernelsInv, [KNext]_kvars
  PROVE  KernelsInv'
<1>1. ASSUME Probe \/ OpenShard \/ ReadConfig \/ IndexShards \/ Load \/ (\E name \in DOMAIN by_name : DataSlice(name)),
             out' = out
      PROVE  KernelsInv'
  <2>1. pc \notin {"loaded", "panic"}
    BY <1>1 DEF Probe, OpenShard, ReadConfig, IndexShards, Load, DataSlice
  <2>2. out = <<>>
    BY <2>1 DEF KernelsInv, Reported
  <2>3. Next
    BY <1>1, Zenon DEF Next
  <2> QED
    BY <1>1, <2>2, <2>3, LoaderStepKeeps
<1>2. ASSUME NEW name \in DOMAIN weights, UseWeight(name), Fresh, out' = out
      PROVE  KernelsInv'
  <2>1. Next
    BY <1>2, Zenon DEF Next
  <2> QED
    BY <1>2, <2>1, LoaderStepKeeps DEF Fresh
<1>3. ASSUME NEW i \in Layers
      PROVE  pc = "loaded" /\ i \in 0..(cfg["block_count"] - 1)
  BY DEF Layers
<1>4. Projections \cap Experts = {}
  BY DEF Projections, DenseWeights, Experts, Gate, Up, Down
<1>5. ASSUME NEW i \in Layers, NEW path \in Paths, NEW suffix \in Projections, NEW r \in RowsOf(suffix),
             Project(path, suffix, i, r)
      PROVE  KernelsInv'
  <2>1. PICK e : e = 0
    OBVIOUS
  <2>2. Result(suffix, i, e, r) = Projected(suffix, i, r)
    BY <1>4 DEF Result
  <2>3. /\ BlockName(i, suffix) \in DOMAIN weights
        /\ Report(path, suffix, i, e, r, Result(suffix, i, e, r))
    BY <1>5, <2>1, <2>2 DEF Project
  <2>4. r \in 0..(NOut(suffix) - 1)
    BY DEF RowsOf
  <2> QED
    BY <1>3, <2>1, <2>3, <2>4, ReportKeeps
<1>6. ASSUME NEW i \in Layers, NEW path \in Paths, NEW suffix \in Experts,
             NEW e \in 0..(cfg["expert_count"] - 1), NEW r \in RowsOf(suffix),
             Expert(path, suffix, i, e, r)
      PROVE  KernelsInv'
  <2>1. Result(suffix, i, e, r) = MoeFfnStream(suffix, i, e, r)
    BY DEF Result
  <2>2. /\ BlockName(i, suffix) \in DOMAIN weights
        /\ Report(path, suffix, i, e, r, Result(suffix, i, e, r))
    BY <1>6, <2>1 DEF Expert
  <2>3. r \in 0..(NOut(suffix) - 1)
    BY DEF RowsOf
  <2> QED
    BY <1>3, <2>2, <2>3, ReportKeeps
<1>7. CASE UNCHANGED kvars
  BY <1>7, KStutterKeeps
<1> QED
  BY <1>1, <1>2, <1>5, <1>6, <1>7 DEF KNext

\* The invariant holds in every state, whatever is on the disk and whichever
\* rows are multiplied.
THEOREM KernelsInvariant == KSpec => []KernelsInv
<1>1. KInit => KernelsInv
  BY KInitHolds
<1>2. KernelsInv /\ [KNext]_kvars => KernelsInv'
  BY KStepKeeps
<1> QED
  BY <1>1, <1>2, PTL DEF KSpec

\* Multiplying rows reads nothing anew.
LEMMA ReportReads ==
  ASSUME ReadInv, NEW path, NEW suffix, NEW i, NEW e, NEW r, NEW result,
         Report(path, suffix, i, e, r, result)
  PROVE  ReadInv'
<1>1. disk' = disk /\ error' = error /\ got' = <<>>
  BY DEF Report
<1> QED
  BY <1>1, RefusedKeeps, NothingRead DEF ReadInv

LEMMA KReadStep ==
  ASSUME KernelsInv, ReadInv, [KNext]_kvars
  PROVE  ReadInv'
<1>1. CASE [Next]_vars
  BY <1>1, ReadStep DEF KernelsInv
<1>2. ASSUME NEW i, NEW path, NEW suffix, NEW r, Project(path, suffix, i, r)
      PROVE  ReadInv'
  <2>1. \E result : Report(path, suffix, i, 0, r, result)
    BY <1>2, Zenon DEF Project
  <2> QED
    BY <2>1, ReportReads
<1>3. ASSUME NEW i, NEW path, NEW suffix, NEW e, NEW r, Expert(path, suffix, i, e, r)
      PROVE  ReadInv'
  <2>1. \E result : Report(path, suffix, i, e, r, result)
    BY <1>3, Zenon DEF Expert
  <2> QED
    BY <2>1, ReportReads
<1>4. \/ [Next]_vars
      \/ \E i, path, suffix, r : Project(path, suffix, i, r)
      \/ \E i, path, suffix, e, r : Expert(path, suffix, i, e, r)
  <2>1. CASE UNCHANGED kvars
    BY <2>1 DEF kvars
  <2>2. CASE KNext
    BY <2>2, Zenon DEF KNext, Next
  <2> QED
    BY <2>1, <2>2
<1> QED
  BY <1>1, <1>2, <1>3, <1>4

\* So is what the loader reads, while rows are multiplied.
THEOREM KernelsReads == KSpec => []ReadInv
<1>1. KInit => ReadInv
  BY InitReads DEF KInit
<1>2. KernelsInv /\ ReadInv /\ [KNext]_kvars => ReadInv'
  BY KReadStep
<1> QED
  BY <1>1, <1>2, KernelsInvariant, PTL DEF KSpec

-----------------------------------------------------------------------------
(* What follows from it.                                                   *)

\* A row's bytes begin after those of the rows before it, and of the experts
\* before its own, if gate and up are of one type.
LEMMA WorkedAt ==
  ASSUME KernelsInv, Worked
  PROVE  /\ out.path \in Paths
         /\ Weight \in DOMAIN weights /\ weights[Weight].offset \in Nat
         /\ Sized(Type(Weight), NIn(out.suffix))
         /\ NIn(out.suffix) \in Nat
         /\ out.expert * NOut(out.suffix) + out.row \in Nat
         /\ SameTypes => out.result[2] = weights[Weight].offset
              + (out.expert * NOut(out.suffix) + out.row) * TensorSize(Type(Weight), NIn(out.suffix))
<1>1. out # <<>> /\ LoaderInv
  BY DEF Worked, KernelsInv
<1>2. /\ cfg # <<>> /\ Loadable /\ weights = [name \in Needed |-> Raw(name)]
      /\ \E path, suffix, i, e, r : ReportOf(path, suffix, i, e, r)
  BY <1>1 DEF KernelsInv, Reported
<1>3. PICK path, suffix, i, e, r : ReportOf(path, suffix, i, e, r)
  BY <1>2
<1>4. /\ out.path = path /\ out.suffix = suffix /\ out.layer = i /\ out.expert = e /\ out.row = r
      /\ out.result = Result(suffix, i, e, r)
  BY <1>3 DEF ReportOf
<1>5. PICK name : name = BlockName(i, suffix)
  OBVIOUS
<1>6. Weight = name /\ name \in DOMAIN weights /\ weights[name].offset \in Nat
  <2>1. Weight = name
    BY <1>4, <1>5 DEF Weight
  <2>2. name \in DOMAIN weights
    BY <1>3, <1>5 DEF ReportOf
  <2> QED
    BY <1>1, <1>2, <2>1, <2>2, WeightType
<1>7. PICK n_in \in Nat, n_out \in Nat : n_in = NIn(suffix) /\ n_out = NOut(suffix)
  BY <1>1, <1>2, Shapes
<1>8. r \in 0..(n_out - 1) /\ path \in Paths
  BY <1>3, <1>7 DEF ReportOf
<1>9. Result(suffix, i, e, r)[1] = "ok"
  BY <1>4 DEF Worked
<1>10. PICK w : w = weights[name]
  OBVIOUS
<1>11. CASE suffix \in Projections /\ e = 0
  <2>1. suffix \notin Experts
    BY <1>11 DEF Projections, DenseWeights, Experts, Gate, Up, Down
  <2>2. Result(suffix, i, e, r) = Projected(suffix, i, r)
    BY <2>1 DEF Result
  <2>3. Projected(suffix, i, r) = IF ~Inside(w) THEN <<"OutOfBounds">>
          ELSE GemvParallel(Type(name), w.offset, w.len, n_in, n_out, r)
    BY <1>5, <1>7, <1>10 DEF Projected
  <2>4. Projected(suffix, i, r) = GemvParallel(Type(name), w.offset, w.len, n_in, n_out, r)
    <3>1. CASE Inside(w)
      BY <2>3, <3>1
    <3>2. CASE ~Inside(w)
      BY <1>9, <2>2, <2>3, <3>2
    <3> QED
      BY <3>1, <3>2
  <2>5. /\ Sized(Type(name), n_in)
        /\ Projected(suffix, i, r) = <<"ok", w.offset + r * TensorSize(Type(name), n_in)>>
    BY <1>9, <2>2, <2>4 DEF GemvParallel, Gemv
  <2>6. e * n_out + r = r /\ r \in Nat
    BY <1>8, <1>11
  <2>7. out.result[2] = w.offset + (e * n_out + r) * TensorSize(Type(name), n_in)
    BY <1>4, <2>2, <2>5, <2>6
  <2> QED
    BY <1>4, <1>6, <1>7, <1>8, <1>10, <2>5, <2>6, <2>7
<1>12. CASE suffix \in Experts /\ e \in 0..(cfg["expert_count"] - 1)
  <2>1. Result(suffix, i, e, r) = MoeFfnStream(suffix, i, e, r)
    BY <1>12 DEF Result
  <2>2. PICK slice : slice = ExpertSlice(suffix, i, e)
    OBVIOUS
  <2>3. MoeFfnStream(suffix, i, e, r) =
          GemvParallel(Type(name), w.offset + slice.off, slice.len, n_in, n_out, r)
    BY <1>5, <1>7, <1>9, <1>10, <2>1, <2>2 DEF MoeFfnStream
  <2>4. /\ Sized(Type(name), n_in)
        /\ MoeFfnStream(suffix, i, e, r) =
             <<"ok", (w.offset + slice.off) + r * TensorSize(Type(name), n_in)>>
    BY <1>9, <2>1, <2>3 DEF GemvParallel, Gemv
  <2>5. ASSUME SameTypes
        PROVE  slice.off = e * (n_out * TensorSize(Type(name), n_in))
    <3>1. Type(name) = IF suffix = Down THEN Type(BlockName(i, Down)) ELSE Type(BlockName(i, Gate))
      <4>1. CASE suffix = Up
        <5>1. Type(name) = Type(BlockName(i, Gate)) /\ Up # Down
          BY <1>4, <1>6, <2>5, <4>1 DEF SameTypes, Up, Down
        <5> QED
          BY <4>1, <5>1
      <4>2. CASE suffix = Down
        BY <1>5, <4>2
      <4>3. CASE suffix = Gate
        <5>1. Gate # Down
          BY DEF Gate, Down
        <5> QED
          BY <1>5, <4>3, <5>1
      <4> QED
        BY <1>12, <4>1, <4>2, <4>3 DEF Experts
    <3> QED
      BY <1>7, <2>2, <3>1 DEF ExpertSlice
  <2>6. e \in Nat /\ r \in Nat
    <3>1. PICK count \in Nat : count = cfg["expert_count"]
      BY <1>1, <1>2, Dimensions
    <3>2. e \in 0..(count - 1)
      BY <1>12, <3>1
    <3> QED
      BY <1>8, <3>2
  <2>7. e * n_out + r \in Nat
    <3>1. e * n_out \in Nat
      BY <2>6
    <3> QED
      BY <2>6, <3>1
  <2>8. PICK size \in Nat : size = TensorSize(Type(name), n_in)
    BY <2>4, SizeType
  <2>9. PICK offset \in Nat : offset = w.offset
    BY <1>6, <1>10
  <2>10. (offset + e * (n_out * size)) + r * size = offset + (e * n_out + r) * size
    <3>1. e * (n_out * size) = (e * n_out) * size
      BY <2>6
    <3>2. PICK m \in Nat : m = e * n_out
      BY <2>6
    <3>3. (m + r) * size = m * size + r * size /\ m * size \in Nat /\ r * size \in Nat
      BY <2>6
    <3> QED
      BY <3>1, <3>2, <3>3
  <2>11. SameTypes => out.result[2] = w.offset + (e * n_out + r) * TensorSize(Type(name), n_in)
    BY <1>4, <2>1, <2>4, <2>5, <2>8, <2>9, <2>10
  <2> QED
    BY <1>4, <1>6, <1>7, <1>8, <1>10, <2>4, <2>7, <2>11
<1> QED
  BY <1>3, <1>11, <1>12, Zenon DEF ReportOf

\* Whatever the machine, the type, the row and the expert, gemv_parallel and
\* moe_ffn_stream multiply an activation with the bits that dequantize makes
\* the weight's element of (kernels.rs, simd.rs and quant.rs).
THEOREM KernelsDotReadsTheSame == KSpec => []DotReadsTheSame
<1>1. KernelsInv => DotReadsTheSame
  <2> SUFFICES ASSUME KernelsInv, Worked, SameTypes, ~HalfBlocks,
                      NEW y \in 0..(NIn(out.suffix) - 1)
               PROVE  Met(out.path, Type(Weight), out.result[2], y) = {Dequantized(ElementAt(y))}
    BY DEF DotReadsTheSame
  <2>1. PICK n_in \in Nat : n_in = NIn(out.suffix)
    BY WorkedAt
  <2>2. PICK m \in Nat : m = out.expert * NOut(out.suffix) + out.row
    BY WorkedAt
  <2>3. PICK type \in DOMAIN BlockSize : type = Type(Weight)
    BY WorkedAt DEF Sized
  <2>4. PICK base \in Nat : base = weights[Weight].offset
    BY WorkedAt
  <2>5. PICK path \in DOMAIN MultipliedBlock : path = out.path
    BY WorkedAt, PathsAssumption
  <2>6. Sized(type, n_in) /\ out.result[2] = base + m * TensorSize(type, n_in)
    BY <2>1, <2>2, <2>3, <2>4, WorkedAt
  <2>7. y \in 0..(n_in - 1) /\ ElementAt(y) = m * n_in + y
    BY <2>1, <2>2 DEF ElementAt
  <2> DEFINE k == m * n_in + y
             bs == BlockSize[type]
             bb == BlockBytes[type]
  <2>8. /\ k % bs = y % bs /\ y % bs \in Elements(type)
        /\ base + (k \div bs) * bb = out.result[2] + (y \div bs) * bb
    BY <2>6, <2>7, ElementInRow
  <2>9. MultipliedBlock[path][type][y % bs] = {DequantizedBlock[type][y % bs]}
    <3>1. ~(path = "arm" /\ type = "Q8_0")
      BY <2>3, <2>5 DEF HalfBlocks
    <3>2. PICK p \in Elements(type) : p = y % bs
      BY <2>8
    <3> QED
      BY <3>1, <3>2, BlocksAgree
  <2>10. Met(out.path, Type(Weight), out.result[2], y) =
           {[at |-> out.result[2] + (y \div bs) * bb, v |-> DequantizedBlock[type][y % bs]]}
    BY <2>3, <2>5, <2>9 DEF Met, At
  <2>11. Dequantized(ElementAt(y)) =
           [at |-> base + (k \div bs) * bb, v |-> DequantizedBlock[type][k % bs]]
    BY <2>3, <2>4, <2>7 DEF Dequantized, At
  <2> HIDE DEF k, bs, bb
  <2> QED
    BY <2>8, <2>10, <2>11
<1> QED
  BY <1>1, KernelsInvariant, PTL

\* A row's blocks are read one after the other, every bit of each of them
\* counts and no bit of a quant is for two activations, whatever the weight,
\* the type and the machine (kernels.rs, simd.rs).
THEOREM KernelsRowUsesItsBytes == KSpec => []RowUsesItsBytes
<1>1. KernelsInv => RowUsesItsBytes
  <2> SUFFICES ASSUME KernelsInv, Worked, ~HalfBlocks
               PROVE  RowUsesItsBytes
    BY DEF RowUsesItsBytes
  <2>1. PICK type \in DOMAIN BlockSize : type = Type(Weight)
    BY WorkedAt DEF Sized
  <2>2. PICK path \in DOMAIN MultipliedBlock : path = out.path
    BY WorkedAt, PathsAssumption
  <2>3. ~(path = "arm" /\ type = "Q8_0")
    BY <2>1, <2>2 DEF HalfBlocks
  <2>4. PICK n \in Nat : n = NIn(out.suffix)
    BY WorkedAt
  <2>5. PICK bs \in Nat \ {0}, bb \in Nat : bs = BlockSize[type] /\ bb = BlockBytes[type]
    BY BlockNumbers
  <2>6. PICK q \in Nat : n = q * bs
    BY <2>1, <2>4, <2>5, WorkedAt, RowBlocks
  <2>7. PICK base : base = out.result[2]
    OBVIOUS
  <2> DEFINE row == {y \in 0..(n - 1) : y % bs = 0}
             met(y) == Met(out.path, Type(Weight), out.result[2], y)
             begins == {p.at : p \in UNION {met(y) : y \in row}}
  <2>8. Cardinality(row) = q /\ {y \div bs : y \in row} = 0..(q - 1)
    BY <2>6, Beginnings
  <2>9. ASSUME NEW y \in row
        PROVE  met(y) = {[at |-> base + (y \div bs) * bb, v |-> DequantizedBlock[type][0]]}
    <3>1. 0 \in Elements(type)
      BY <2>5 DEF Elements
    <3>2. MultipliedBlock[path][type][0] = {DequantizedBlock[type][0]}
      BY <2>3, <3>1, BlocksAgree
    <3>3. y % bs = 0
      OBVIOUS
    <3> QED
      BY <2>1, <2>2, <2>5, <2>7, <3>2, <3>3 DEF Met, At
  <2>10. begins = {base + bb * b : b \in 0..(q - 1)}
    <3>1. \A x : x \in begins <=> \E y \in row : x = base + (y \div bs) * bb
      <4>1. PICK S : S = UNION {met(y) : y \in row}
        OBVIOUS
      <4>2. \A p : p \in S <=> \E y \in row : p \in met(y)
        <5> HIDE DEF row, met
        <5> QED
          BY <4>1
      <4>3. \A y \in row : \A p : p \in met(y) <=>
              p = [at |-> base + (y \div bs) * bb, v |-> DequantizedBlock[type][0]]
        <5> HIDE DEF row, met
        <5> QED
          BY <2>9
      <4>4. begins = {p.at : p \in S}
        BY <4>1
      <4>5. \A x : x \in begins <=> \E p \in S : x = p.at
        <5> HIDE DEF begins
        <5> QED
          BY <4>4
      <4>6. \A p \in S : \E y \in row : p.at = base + (y \div bs) * bb
        <5> HIDE DEF row, met
        <5> QED
          BY <4>2, <4>3
      <4>7. ASSUME NEW y \in row
            PROVE  base + (y \div bs) * bb \in begins
        <5>1. PICK p : p = [at |-> base + (y \div bs) * bb, v |-> DequantizedBlock[type][0]]
          OBVIOUS
        <5> HIDE DEF row, met, begins
        <5>2. p \in S
          BY <4>2, <4>3, <5>1
        <5>3. p.at = base + (y \div bs) * bb
          BY <5>1
        <5> QED
          BY <4>5, <5>2, <5>3
      <4>8. ASSUME NEW x \in begins
            PROVE  \E y \in row : x = base + (y \div bs) * bb
        <5> HIDE DEF row, met, begins
        <5>1. PICK p \in S : x = p.at
          BY <4>5
        <5> QED
          BY <4>6, <5>1
      <4> HIDE DEF row, met, begins
      <4> QED
        BY <4>7, <4>8
    <3>2. \A y \in row : (y \div bs) * bb = bb * (y \div bs)
      BY <2>6
    <3>3. \A b : b \in 0..(q - 1) <=> \E y \in row : b = y \div bs
      <4> HIDE DEF row
      <4> QED
        BY <2>8
    <3>4. \A x : x \in begins <=> \E b \in 0..(q - 1) : x = base + bb * b
      <4>1. ASSUME NEW y \in row
            PROVE  \E b \in 0..(q - 1) : base + (y \div bs) * bb = base + bb * b
        <5> HIDE DEF row
        <5> QED
          BY <3>2, <3>3
      <4>2. ASSUME NEW b \in 0..(q - 1)
            PROVE  \E y \in row : base + (y \div bs) * bb = base + bb * b
        <5> HIDE DEF row
        <5> QED
          BY <3>2, <3>3
      <4>3. ASSUME NEW x \in begins
            PROVE  \E b \in 0..(q - 1) : x = base + bb * b
        <5> HIDE DEF begins, row
        <5>1. PICK y \in row : x = base + (y \div bs) * bb
          BY <3>1
        <5> QED
          BY <4>1, <5>1
      <4>4. ASSUME NEW b \in 0..(q - 1)
            PROVE  base + bb * b \in begins
        <5> HIDE DEF begins, row
        <5>1. PICK y \in row : base + (y \div bs) * bb = base + bb * b
          BY <4>2
        <5> QED
          BY <3>1, <5>1
      <4> HIDE DEF begins, row
      <4> QED
        BY <4>3, <4>4
    <3> HIDE DEF begins
    <3> QED
      BY <3>4
  <2>11. UsedUp[path][type]
    BY <2>3, UsedUpHolds
  <2> HIDE DEF begins, row
  <2>12. RowUsesItsBytes <=> UsedUp[path][type] /\ begins = {base + bb * b : b \in 0..(Cardinality(row) - 1)}
    BY <2>1, <2>2, <2>4, <2>5, <2>7 DEF RowUsesItsBytes, begins, row, met
  <2> QED
    BY <2>8, <2>10, <2>11, <2>12
<1> QED
  BY <1>1, KernelsInvariant, PTL

\* One matrix of the configuration's shape has its rows' bytes.
LEMMA ShapedProjects ==
  ASSUME KernelsInv, NEW suffix \in Projections, NEW i, NEW r,
         out # <<>>, BlockName(i, suffix) \in DOMAIN weights, Shaped(suffix, i)
  PROVE  Projected(suffix, i, r)[1] = "ok"
<1>1. PICK name : name = BlockName(i, suffix)
  OBVIOUS
<1>2. LoaderInv /\ cfg # <<>> /\ Loadable /\ weights = [n \in Needed |-> Raw(n)]
  BY DEF KernelsInv, Reported
<1>3. PICK n_in \in Nat, n_out \in Nat : n_in = NIn(suffix) /\ n_out = NOut(suffix)
  BY <1>2, Shapes
<1>4. PICK w : w = weights[name]
  OBVIOUS
<1>5. PICK n \in Nat : n = NElements(by_name[name].meta.dims)
  BY <1>1, <1>2, WeightType
<1>6. w.len = TensorSize(Type(name), n)
  BY <1>1, <1>2, <1>4, <1>5, WeightType
<1>7. suffix \notin Experts
  BY DEF Projections, DenseWeights, Experts, Gate, Up, Down
<1>8. n >= 1 * n_in * n_out /\ Sized(Type(name), n_in) /\ Inside(w)
  BY <1>1, <1>3, <1>4, <1>5, <1>7 DEF Shaped
<1>9. w.len \in Nat /\ w.len >= n_out * TensorSize(Type(name), n_in)
  <2>1. n >= n_out * n_in
    BY <1>8
  <2> QED
    BY <1>6, <1>8, <2>1, RowsHaveBytes
<1>10. ~(w.len < n_out * TensorSize(Type(name), n_in))
  <2>1. PICK size \in Nat : size = TensorSize(Type(name), n_in)
    BY <1>8, SizeType
  <2>2. PICK a \in Nat : a = n_out * size
    OBVIOUS
  <2> QED
    BY <1>9, <2>1, <2>2
<1>11. Projected(suffix, i, r) = GemvParallel(Type(name), w.offset, w.len, n_in, n_out, r)
  BY <1>1, <1>3, <1>4, <1>8 DEF Projected
<1> QED
  BY <1>8, <1>10, <1>11 DEF GemvParallel, Gemv

\* The experts' parts of a tensor lie in it.
LEMMA ExpertsInside ==
  ASSUME KernelsInv, out # <<>>, NEW i, NEW s \in Experts, NEW e \in 0..(cfg["expert_count"] - 1),
         BlockName(i, s) \in DOMAIN weights, Shaped(s, i),
         Type(BlockName(i, Gate)) = Type(BlockName(i, Up))
  PROVE  ~PastEnd(ExpertSlice(s, i, e), weights[BlockName(i, s)].len)
<1>1. PICK name : name = BlockName(i, s)
  OBVIOUS
<1>2. LoaderInv /\ cfg # <<>> /\ Loadable /\ weights = [n \in Needed |-> Raw(n)]
  BY DEF KernelsInv, Reported
<1>3. PICK n_in \in Nat, n_out \in Nat : n_in = NIn(s) /\ n_out = NOut(s)
  BY <1>2, Shapes
<1>4. PICK w : w = weights[name]
  OBVIOUS
<1>5. PICK n \in Nat : n = NElements(by_name[name].meta.dims)
  BY <1>1, <1>2, WeightType
<1>6. w.len = TensorSize(Type(name), n)
  BY <1>1, <1>2, <1>4, <1>5, WeightType
<1>7. PICK count \in Nat : count = cfg["expert_count"]
  BY <1>2, Dimensions
<1>8. e \in 0..(count - 1)
  BY <1>7
<1>9. n >= count * n_in * n_out /\ Sized(Type(name), n_in)
  BY <1>1, <1>3, <1>5, <1>7 DEF Shaped
<1>10. PICK rows \in Nat : rows = count * n_out
  OBVIOUS
<1>11. n >= rows * n_in
  <2>1. count * n_in * n_out = (count * n_out) * n_in
    OBVIOUS
  <2> QED
    BY <1>9, <1>10, <2>1
<1>12. PICK size \in Nat : size = TensorSize(Type(name), n_in)
  BY <1>9, SizeType
<1>13. PICK len \in Nat : len = w.len /\ len >= rows * size
  BY <1>6, <1>9, <1>11, <1>12, RowsHaveBytes
<1>14. PICK stride \in Nat : stride = n_out * size
  OBVIOUS
<1>15. ExpertSlice(s, i, e) = [off |-> e * stride, len |-> stride]
  <2>1. Type(name) = IF s = Down THEN Type(BlockName(i, Down)) ELSE Type(BlockName(i, Gate))
    BY <1>1 DEF Experts
  <2> QED
    BY <1>3, <1>12, <1>14, <2>1 DEF ExpertSlice
<1>16. rows * size = count * stride
  BY <1>10, <1>14
<1>17. (e + 1) * stride <= count * stride
  BY <1>8, Multiply
<1>18. e * stride + stride <= len
  <2>1. (e + 1) * stride = e * stride + stride
    BY <1>8
  <2>2. PICK x \in Nat, y \in Nat : x = e * stride /\ y = count * stride
    BY <1>8
  <2> QED
    BY <1>13, <1>16, <1>17, <2>1, <2>2
<1>19. ~(e * stride + stride > len)
  <2>1. PICK x \in Nat : x = e * stride
    BY <1>8
  <2> QED
    BY <1>18, <2>1
<1> QED
  BY <1>1, <1>4, <1>13, <1>15, <1>19 DEF PastEnd

\* What an expert's layer has to be for its rows to be multiplied.
LEMMA ShapedExperts ==
  ASSUME KernelsInv, out # <<>>, NEW i \in 0..(cfg["block_count"] - 1), NEW suffix \in Experts,
         NEW e \in 0..(cfg["expert_count"] - 1), NEW r,
         \A s \in Experts : Shaped(s, i),
         Type(BlockName(i, Gate)) = Type(BlockName(i, Up)),
         Sized(Type(BlockName(i, Gate)), n_ff),
         NElements(by_name[BlockName(i, "ffn_gate_inp.weight")].meta.dims)
           = cfg["expert_count"] * n_embd
  PROVE  MoeFfnStream(suffix, i, e, r)[1] = "ok"
<1>1. LoaderInv /\ cfg # <<>> /\ Loadable /\ weights = [n \in Needed |-> Raw(n)]
  BY DEF KernelsInv, Reported
<1>2. PICK count \in Nat : count = cfg["expert_count"]
  BY <1>1, Dimensions
<1>3. cfg["expert_count"] # 0
  BY <1>2
<1>4. \A s \in Experts : BlockName(i, s) \in DOMAIN weights
  <2>1. Experts \subseteq MoeWeights
    BY DEF Experts, MoeWeights, Gate, Up, Down
  <2>2. \A s \in MoeWeights : BlockName(i, s) \in LayerWeights(i)
    BY <1>3 DEF LayerWeights
  <2>3. LayerWeights(i) \subseteq Needed
    BY DEF Needed
  <2> QED
    BY <1>1, <2>1, <2>2, <2>3
<1>5. \A s \in Experts : /\ Inside(weights[BlockName(i, s)])
                         /\ Sized(Type(BlockName(i, s)), NIn(s))
  BY DEF Shaped
<1>6. \A s \in Experts : ~PastEnd(ExpertSlice(s, i, e), weights[BlockName(i, s)].len)
  BY <1>4, ExpertsInside
<1>7. /\ NIn(Gate) = n_embd /\ NIn(Up) = n_embd /\ NIn(Down) = n_ff
      /\ Gate \in Experts /\ Up \in Experts /\ Down \in Experts
  BY DEF NIn, Gate, Up, Down, Experts
<1>8. /\ Sized(Type(BlockName(i, Gate)), n_embd) /\ Sized(Type(BlockName(i, Down)), n_ff)
  BY <1>5, <1>7
<1>9. PICK slice : slice = ExpertSlice(suffix, i, e)
  OBVIOUS
<1>10. PICK base : base = weights[BlockName(i, suffix)].offset + slice.off
  OBVIOUS
<1>11. MoeFfnStream(suffix, i, e, r) =
         GemvParallel(Type(BlockName(i, suffix)), base, slice.len, NIn(suffix), NOut(suffix), r)
  BY <1>5, <1>6, <1>8, <1>9, <1>10 DEF MoeFfnStream
<1>12. slice.len = NOut(suffix) * TensorSize(Type(BlockName(i, suffix)), NIn(suffix))
  <2>1. Type(BlockName(i, suffix)) = IF suffix = Down THEN Type(BlockName(i, Down))
                                     ELSE Type(BlockName(i, Gate))
    BY DEF Experts
  <2> QED
    BY <1>9, <2>1 DEF ExpertSlice
<1>13. ~(slice.len < NOut(suffix) * TensorSize(Type(BlockName(i, suffix)), NIn(suffix)))
  <2>1. PICK size \in Nat : size = TensorSize(Type(BlockName(i, suffix)), NIn(suffix))
    BY <1>1, <1>5, Shapes, SizeType
  <2>2. PICK n_out \in Nat : n_out = NOut(suffix)
    BY <1>1, Shapes
  <2>3. PICK a \in Nat : a = n_out * size
    OBVIOUS
  <2> QED
    BY <1>12, <2>1, <2>2, <2>3
<1> QED
  BY <1>5, <1>11, <1>13 DEF GemvParallel, Gemv

\* gemv_parallel and moe_ffn_stream end the program only for a tensor that is
\* cut off or has not the configuration's shape (their assertions and slices,
\* kernels.rs).
THEOREM KernelsFailsOnlyByShape == KSpec => []FailsOnlyByShape
<1>1. KernelsInv => FailsOnlyByShape
  <2> SUFFICES ASSUME KernelsInv, out # <<>>, ~Worked
               PROVE  FailsOnlyByShape
    BY DEF FailsOnlyByShape
  <2>1. PICK path, suffix, i, e, r : ReportOf(path, suffix, i, e, r)
    BY DEF KernelsInv, Reported
  <2>2. /\ out.suffix = suffix /\ out.layer = i /\ out.result = Result(suffix, i, e, r)
    BY <2>1 DEF ReportOf
  <2>3. Result(suffix, i, e, r)[1] # "ok"
    BY <2>2 DEF Worked
  <2>4. i \in 0..(cfg["block_count"] - 1) /\ BlockName(i, suffix) \in DOMAIN weights
    BY <2>1 DEF ReportOf
  <2>5. CASE suffix \in Projections /\ e = 0
    <3>1. suffix \notin Experts
      BY <2>5 DEF Projections, DenseWeights, Experts, Gate, Up, Down
    <3>2. Projected(suffix, i, r)[1] # "ok"
      BY <2>3, <3>1 DEF Result
    <3>3. ~Shaped(suffix, i)
      BY <2>4, <2>5, <3>2, ShapedProjects
    <3> QED
      BY <2>2, <3>1, <3>3 DEF FailsOnlyByShape
  <2>6. CASE suffix \in Experts /\ e \in 0..(cfg["expert_count"] - 1)
    <3>1. MoeFfnStream(suffix, i, e, r)[1] # "ok"
      BY <2>3, <2>6 DEF Result
    <3>2. \/ \E s \in Experts : ~Shaped(s, i)
          \/ Type(BlockName(i, Gate)) # Type(BlockName(i, Up))
          \/ ~Sized(Type(BlockName(i, Gate)), n_ff)
          \/ NElements(by_name[BlockName(i, "ffn_gate_inp.weight")].meta.dims)
               # cfg["expert_count"] * n_embd
      BY <2>4, <2>6, <3>1, ShapedExperts
    <3> QED
      BY <2>2, <2>6, <3>2 DEF FailsOnlyByShape
  <2> QED
    BY <2>1, <2>5, <2>6, Zenon DEF ReportOf
<1> QED
  BY <1>1, KernelsInvariant, PTL

\* Multiplying rows disturbs nothing of what opening a model promises: what
\* its files are read as, the names of the shards, the index, the weights and
\* the dimensions are as they were (gguf.rs, loader.rs, pipeline.rs, config.rs).
THEOREM LoaderHoldsAtWork ==
  KSpec => [](/\ TypeOK /\ ReadsWhatWasWritten /\ IndexFits /\ ReadsItsOwnData
              /\ MissingNowhereElse /\ LoadsWhatIsExpected /\ DimensionsHold)
<1>1. KernelsInv /\ ReadInv =>
        /\ TypeOK /\ ReadsWhatWasWritten /\ IndexFits /\ ReadsItsOwnData
        /\ MissingNowhereElse /\ LoadsWhatIsExpected /\ DimensionsHold
  <2>1. LoaderInv => MissingNowhereElse
    BY DEF LoaderInv
  <2>2. LoaderInv /\ ReadInv => ReadsWhatWasWritten /\ ReadsItsOwnData
    BY InvReadsWhatWasWritten, InvReadsItsOwnData
  <2> QED
    BY <2>1, <2>2, InvTypeOK, InvIndexFits, InvLoadsWhatIsExpected, InvDimensionsHold
    DEF KernelsInv
<1> QED
  BY <1>1, KernelsInvariant, KernelsReads, PTL
=============================================================================
