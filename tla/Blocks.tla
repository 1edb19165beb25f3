------------------------------- MODULE Blocks -------------------------------
(***************************************************************************)
(* The blocks of quantised tensors, bit by bit: what dequantize of         *)
(* src/model/quant.rs makes of a block, and what the dot products of       *)
(* src/model/kernels.rs and src/model/simd.rs multiply an activation with. *)
(*                                                                         *)
(* A byte or a word is the sequence of its bits, the lowest first. A bit   *)
(* is its address in the block (8 * byte + bit), or Zero: the arithmetic   *)
(* on the bits is exact, so two computations agree if they take the same   *)
(* bits to the same places.                                                *)
(***************************************************************************)
EXTENDS Quant, FiniteSets

Zero == -1

Bits(b, n) == [i \in 1..n |-> 8 * b + i - 1]
Byte(b) == Bits(b, 8)
Half(b) == Bits(b, 16)
Word(b) == Bits(b, 32)

Shr(x, n) == [i \in DOMAIN x |-> IF i + n \in DOMAIN x THEN x[i + n] ELSE Zero]
Shl(x, n) == [i \in DOMAIN x |-> IF i - n \in DOMAIN x THEN x[i - n] ELSE Zero]
Or(x, y) == [i \in DOMAIN x |-> IF x[i] = Zero THEN y[i] ELSE x[i]]

\* The lowest n bits of every byte: & 0x0f, & 0x3f3f_3f3f, ...
Low(x, n) == [i \in DOMAIN x |-> IF (i - 1) % 8 < n THEN x[i] ELSE Zero]

\* An element: d * scale * (q - bias) - dmin * min, without what it lacks.
Value(q, bias, scale, min) == [q |-> q, bias |-> bias, scale |-> scale, min |-> min]
None == <<>>

-----------------------------------------------------------------------------
(* dequantize: the value of element i of a block.                          *)

\* Scale and minimum of group j, of the twelve bytes at the fifth.
GetScaleMinK4(j) ==
  LET s(k) == Byte(4 + k)
  IN IF j < 4
     THEN [scale |-> Low(s(j), 6), min |-> Low(s(j + 4), 6)]
     ELSE [scale |-> Or(Low(s(j + 4), 4), Shl(Shr(s(j - 4), 6), 4)),
           min |-> Or(Shr(s(j + 4), 4), Shl(Shr(s(j), 6), 4))]

\* Chunks of 64: the low nibbles of 32 bytes, then the high ones.
DequantizeQ4_K(i) ==
  LET chunk == i \div 64
      high == (i % 64) \div 32
      q == Byte(16 + chunk * 32 + (i % 32))
      g == GetScaleMinK4(2 * chunk + high)
  IN Value(IF high = 0 THEN Low(q, 4) ELSE Shr(q, 4), 0, g.scale, g.min)

\* The fifth bit is in a byte of qh that the chunks share.
DequantizeQ5_K(i) ==
  LET chunk == i \div 64
      high == (i % 64) \div 32
      q == Byte(48 + chunk * 32 + (i % 32))
      h == Low(Shr(Byte(16 + (i % 32)), 2 * chunk + high), 1)
      g == GetScaleMinK4(2 * chunk + high)
  IN Value(Or(IF high = 0 THEN Low(q, 4) ELSE Shr(q, 4), Shl(h, 4)), 0, g.scale, g.min)

\* Two halves of four quarters: a nibble of ql, two bits of qh and a signed
\* scale for 16 elements.
DequantizeQ6_K(i) ==
  LET n == i \div 128
      k == (i % 128) \div 32
      l == i % 32
      ql == Byte(n * 64 + l + 32 * (k % 2))
      qh == Byte(128 + n * 32 + l)
  IN Value(Or(IF k < 2 THEN Low(ql, 4) ELSE Shr(ql, 4), Shl(Low(Shr(qh, 2 * k), 2), 4)), 32,
           Byte(192 + n * 8 + (l \div 16) + 2 * k), None)

DequantizeBlock(type, i) ==
  CASE type = "F32" -> Value(Word(0), 0, None, None)
    [] type = "Q8_0" -> Value(Byte(2 + i), 0, None, None)
    [] type = "Q4_K" -> DequantizeQ4_K(i)
    [] type = "Q5_K" -> DequantizeQ5_K(i)
    [] type = "Q6_K" -> DequantizeQ6_K(i)

-----------------------------------------------------------------------------
(* The dot products: what activation p of a block is multiplied with.      *)

\* Mutant of KScaleWords: the upper minimums' high bits from the wrong word.
KScaleWordsSwapped ==
  LET utmp0 == Word(4)
      utmp1 == Word(8)
      utmp2 == Word(12)
  IN <<Low(utmp0, 6), Or(Low(utmp2, 4), Shl(Low(Shr(utmp0, 6), 2), 4)),
       Low(utmp1, 6), Or(Low(Shr(utmp2, 4), 4), Shl(Low(Shr(utmp0, 6), 2), 4))>>

\* The twelve bytes shuffled as three words to four.
KScaleWords ==
  LET utmp0 == Word(4)
      utmp1 == Word(8)
      utmp2 == Word(12)
  IN <<Low(utmp0, 6), Or(Low(utmp2, 4), Shl(Low(Shr(utmp0, 6), 2), 4)),
       Low(utmp1, 6), Or(Low(Shr(utmp2, 4), 4), Shl(Low(Shr(utmp1, 6), 2), 4))>>

\* The bytes of the words: eight scales and eight minimums.
KScales ==
  LET byte(w, j) == SubSeq(w, 8 * j + 1, 8 * j + 8)
      eight(u, v) == [j \in 0..7 |-> IF j < 4 THEN byte(u, j) ELSE byte(v, j - 4)]
      w == KScaleWords
  IN [scales |-> eight(w[1], w[2]), mins |-> eight(w[3], w[4])]

UnpackQ4_K(p) ==
  LET q4 == Byte(16 + (p \div 64) * 32 + (p % 32))
  IN IF p % 64 < 32 THEN Low(q4, 4) ELSE Shr(q4, 4)

\* m is the mask of the chunk's lower half, shifted by two for each chunk.
UnpackQ5_K(p) ==
  LET q == Byte(48 + (p \div 64) * 32 + (p % 32))
      m == 2 * (p \div 64)
      bit(k) == Low(Shr(Byte(16 + (p % 32)), k), 1)
  IN IF p % 64 < 32 THEN Or(Low(q, 4), Shl(bit(m), 4)) ELSE Or(Shr(q, 4), Shl(bit(m + 1), 4))

\* Mutant of UnpackQ6_K: the second quarter from the bytes of the first.
UnpackQ6_KFirstBytes(p) ==
  LET ql == Byte((p \div 128) * 64 + (p % 32))
      qh == Byte(128 + (p \div 128) * 32 + (p % 32))
      quarter == (p % 128) \div 32
  IN Or(IF quarter < 2 THEN Low(ql, 4) ELSE Shr(ql, 4), Shl(Low(Shr(qh, 2 * quarter), 2), 4))

UnpackQ6_K(p) ==
  LET ql == Byte((p \div 128) * 64 + (p % 64))
      qh == Byte(128 + (p \div 128) * 32 + (p % 32))
      quarter == (p % 128) \div 32
  IN Or(IF quarter < 2 THEN Low(ql, 4) ELSE Shr(ql, 4), Shl(Low(Shr(qh, 2 * quarter), 2), 4))

\* An activation p of a block with scale number j: the product's minimum is
\* that of bsums[p / 16], which sums 16 activations.
Grouped(q, j, p) == {Value(q, 0, KScales.scales[j], KScales.mins[(p \div 16) \div 2])}

\* Everything activation p is multiplied with, one value per product.
\* The scalar code: loops over bytes, and over the scales for 32 activations
\* or, of Q6_K, for 16.
ScalarDot(type, p) ==
  CASE type = "F32" -> {Value(Word(0), 0, None, None)}
    [] type = "Q8_0" -> {Value(Byte(2 + p), 0, None, None)}
    [] type = "Q4_K" -> Grouped(UnpackQ4_K(p), p \div 32, p)
    [] type = "Q5_K" -> Grouped(UnpackQ5_K(p), p \div 32, p)
    [] type = "Q6_K" -> {Value(UnpackQ6_K(p), 32, Byte(192 + (p \div 16)), None)}

\* Bytes b to b + 15 of a Q8_0 block in a register of 16.
Lanes(b, p) == {Value(Byte(c), 0, None, None) : c \in {2 + p} \cap b..(b + 15)}

\* x86: two registers for a Q8_0 block; 16 groups of 16, two for each scale of
\* Q4_K and Q5_K.
X86Dot(type, p) ==
  CASE type = "F32" -> {Value(Word(0), 0, None, None)}
    [] type = "Q8_0" -> Lanes(2, p) \cup Lanes(18, p)
    [] type = "Q4_K" -> Grouped(UnpackQ4_K(p), (p \div 16) \div 2, p)
    [] type = "Q5_K" -> Grouped(UnpackQ5_K(p), (p \div 16) \div 2, p)
    [] type = "Q6_K" -> {Value(UnpackQ6_K(p), 32, Byte(192 + (p \div 16)), None)}

\* aarch64: one register for a Q8_0 block, the rest as on x86.
ArmDot(type, p) == IF type = "Q8_0" THEN Lanes(2, p) ELSE X86Dot(type, p)

\* The bits every element of a block shares: d, and dmin where there is one.
SharedBits(type) ==
  CASE type = "F32" -> {}
    [] type = "Q8_0" -> 0..15
    [] type \in {"Q4_K", "Q5_K"} -> 0..31
    [] type = "Q6_K" -> 8 * 208 .. 8 * 210 - 1

-----------------------------------------------------------------------------
(* All blocks, once.                                                       *)

Elements(type) == 0..(BlockSize[type] - 1)

DequantizedBlock ==
  [type \in DOMAIN BlockSize |-> [i \in Elements(type) |-> DequantizeBlock(type, i)]]

MultipliedBlock ==
  [scalar |-> [type \in DOMAIN BlockSize |-> [p \in Elements(type) |-> ScalarDot(type, p)]],
   x86 |-> [type \in DOMAIN BlockSize |-> [p \in Elements(type) |-> X86Dot(type, p)]],
   arm |-> [type \in DOMAIN BlockSize |-> [p \in Elements(type) |-> ArmDot(type, p)]]]

\* The bits a value takes.
BitsOf(x) == {x[i] : i \in DOMAIN x} \ {Zero}
AllBits(v) == BitsOf(v.q) \cup BitsOf(v.scale) \cup BitsOf(v.min)

\* The products of a block use it up: every bit, none beyond its end, and a bit
\* of a quant for one activation only.
UsedUp ==
  [path \in DOMAIN MultipliedBlock |-> [type \in DOMAIN BlockSize |->
     LET met == MultipliedBlock[path][type]
         quants == [p \in DOMAIN met |-> UNION {BitsOf(v.q) : v \in met[p]}]
     IN /\ (UNION {AllBits(v) : v \in UNION {met[p] : p \in DOMAIN met}}) \cup SharedBits(type)
             = 0..(8 * BlockBytes[type] - 1)
        /\ \A p, o \in DOMAIN met : p # o => quants[p] \cap quants[o] = {}]]
=============================================================================
