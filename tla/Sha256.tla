------------------------------- MODULE Sha256 -------------------------------
(***************************************************************************)
(* The hash that bin/fetch checks the weights with (hf.rs): how the bytes  *)
(* of a file, read in pieces of any size, are put into blocks of 64, and   *)
(* how the last block is padded. Compressing a block is left out: a state  *)
(* is the sequence of blocks it has compressed. A byte is named by the     *)
(* block of Fetch it comes from and its place in the file.                 *)
(***************************************************************************)
EXTENDS Fetch

CONSTANTS
  BlockBytes, \* bound: the bytes of one of Fetch's blocks
  ReadSizes   \* bound: the bytes that one read may return

ASSUME BytesAssumption == BlockBytes \in Nat \ {0} /\ ReadSizes \subseteq Nat \ {0}

\* The bytes of the padding.
One == <<"80">>
Zero == <<"00">>

New == [state |-> <<>>, buf |-> <<>>, total |-> 0]

\* The pieces of 64 bytes that data begins with, and what is left of it.
Whole64(data) == [i \in 1..(Len(data) \div 64) |-> SubSeq(data, 64 * i - 63, 64 * i)]
Left64(data) == SubSeq(data, 64 * (Len(data) \div 64) + 1, Len(data))

\* The buffer is topped up, and compressed when it is full.
Filled(h, take) ==
  LET buf == h.buf \o take
  IN IF Len(buf) = 64 THEN [h EXCEPT !.state = Append(@, buf), !.buf = <<>>]
     ELSE [h EXCEPT !.buf = buf]

\* Whole blocks of data are compressed where they are; a rest replaces the buffer.
Direct(h, data) ==
  [h EXCEPT !.state = @ \o Whole64(data),
            !.buf = IF Left64(data) = <<>> THEN @ ELSE Left64(data)]

\* The bytes that data has for the buffer, if one was begun.
Take(h, data) ==
  IF h.buf = <<>> THEN 0
  ELSE IF Len(data) < 64 - Len(h.buf) THEN Len(data) ELSE 64 - Len(h.buf)

\* Mutant of Absorb: the bytes that topped up the buffer are hashed again.
AbsorbAgain(h, data) == Direct(Filled(h, SubSeq(data, 1, Take(h, data))), data)

Absorb(h, data) ==
  LET take == Take(h, data)
  IN Direct(Filled(h, SubSeq(data, 1, take)), SubSeq(data, take + 1, Len(data)))

Update(h, data) == Absorb([h EXCEPT !.total = @ + Len(data)], data)

Length(bits) == [place \in 1..8 |-> <<"length", bits, place>>]

\* The loop of finalize: at most 63 zeros bring the buffer to 56 bytes.
Zeroed(h) == IF Len(h.buf) = 56 THEN h ELSE Absorb(h, <<Zero>>)

ZeroPadded(h) ==
  LET padded[k \in 0..63] == IF k = 0 THEN h ELSE Zeroed(padded[k - 1])
  IN padded[63]

\* A file is shorter than 2^61 bytes: its length in bits does not wrap around.
Finalize(h) == Absorb(ZeroPadded(Absorb(h, <<One>>)), Length(8 * h.total)).state

\* sha256_file, when read returns n bytes at a time.
Piece(n, bytes, k) ==
  SubSeq(bytes, n * (k - 1) + 1, IF n * k < Len(bytes) THEN n * k ELSE Len(bytes))

HashedBy(n, bytes) ==
  LET pieces == (Len(bytes) + n - 1) \div n
      read[k \in 0..pieces] == IF k = 0 THEN New ELSE Update(read[k - 1], Piece(n, bytes, k))
  IN Finalize(read[pieces])

-----------------------------------------------------------------------------
(* The reference: the message of FIPS 180-4, section 5.1.1.                *)

\* As few zeros as it takes to make whole blocks.
Zeros(n) == (119 - (n % 64)) % 64

Padded(bytes) ==
  bytes \o <<One>> \o [i \in 1..Zeros(Len(bytes)) |-> Zero] \o Length(8 * Len(bytes))

-----------------------------------------------------------------------------
(* The bytes of a file, and what its hash decides.                         *)

Content(blocks) ==
  [i \in 1..(BlockBytes * Len(blocks)) |-> <<blocks[((i - 1) \div BlockBytes) + 1], i>>]

\* What verification compares decides between the file that was put together
\* out of blocks of several runs and the published one, in whatever pieces the
\* file is read: the buffer, topped up across calls, loses and repeats nothing,
\* and a padding that does not fit behind the last bytes takes a block of its
\* own. Fetch relies on it in HashMatches and HashMismatch.
DigestDecides ==
  pc = "verify" /\ file = "weights" =>
    \A n \in ReadSizes :
      LET published == Whole(file, version)
      IN HashedBy(n, Content(dest[file])) = Whole64(Padded(Content(published)))
           <=> dest[file] = published
=============================================================================
