----------------------------- MODULE FetchProofs -----------------------------
(***************************************************************************)
(* For any number of versions of any sizes, and any number of runs, crashes *)
(* and bad answers: TypeOK, InPlace and DestWhole of Fetch, from one       *)
(* inductive invariant, and TransferCounted from another on top of it.     *)
(* For blocks of any size and reads of any size: what Sha256 hashed is the *)
(* padded file of FIPS 180-4, block by block, and so the hash of the file  *)
(* that was put together is the published one only if the file is          *)
(* (DigestDecides).                                                        *)
(***************************************************************************)
EXTENDS Sha256, SeqLemmas, SequenceTheorems, TLAPS

\* What was written of the file that is being fetched.
Written == part[file] \o buffered

\* Nothing on disk is out of place.
OnDisk ==
  \A f \in File : InOrder(part[f]) /\ (dest[f] # None => InOrder(dest[f]))

\* A request is for what follows the .part.
Requesting ==
  pc = "request" => resume_from = Len(part[file]) /\ buffered = <<>>

\* A body continues what was there with blocks of one version, no further than
\* this version goes; a length, if promised, is this version's.
Receiving ==
  pc \in {"body", "sync", "rename"} =>
    /\ InOrder(Written) /\ done = Len(part[file]) + Len(buffered)
    /\ resume_from < Size(file, serving) /\ done <= Size(file, serving)
    /\ \A i \in DOMAIN Written : i > resume_from => Written[i][1] = serving
    /\ total \in {0, Size(file, serving)}
    /\ file \notin lengthless => total = Size(file, serving)

\* What is synced was accepted; what is renamed is on disk.
Received ==
  /\ pc \in {"sync", "rename"} => Accepted
  /\ pc = "rename" => buffered = <<>>

\* The inductive invariant.
FetchInv == TypeOK /\ OnDisk /\ Requesting /\ Receiving /\ Received /\ DestWhole

-----------------------------------------------------------------------------
(* Sequences of blocks.                                                    *)

\* A block's version and place.
LEMMA BlockParts ==
  ASSUME NEW s \in Seq(Block), NEW i \in DOMAIN s
  PROVE  /\ s[i] \in Block /\ s[i] = <<s[i][1], s[i][2]>>
         /\ s[i][1] \in Version /\ s[i][2] \in Nat
         /\ i \in 1..Len(s) /\ i \in Nat
<1>1. i \in 1..Len(s) /\ Len(s) \in Nat
  BY LenProperties
<1>2. s[i] \in Block
  BY <1>1, ElementOfSeq
<1> QED
  BY <1>1, <1>2 DEF Block

\* The next block in its place.
LEMMA AppendPlaced ==
  ASSUME NEW s \in Seq(Block), NEW v \in Version, InOrder(s)
  PROVE  LET next == <<v, Len(s) + 1>>
         IN /\ next \in Block
            /\ Append(s, next) \in Seq(Block) /\ InOrder(Append(s, next))
            /\ Len(Append(s, next)) = Len(s) + 1
            /\ \A i \in 1..Len(s) : Append(s, next)[i] = s[i]
            /\ Append(s, next)[Len(s) + 1] = next
<1> DEFINE next == <<v, Len(s) + 1>>
           t == Append(s, next)
<1>1. Len(s) \in Nat /\ DOMAIN s = 1..Len(s)
  BY LenProperties
<1>2. next \in Block /\ next[2] = Len(s) + 1
  BY <1>1 DEF Block
<1> HIDE DEF next
<1>3. /\ t \in Seq(Block) /\ Len(t) = Len(s) + 1
      /\ \A i \in 1..Len(s) : t[i] = s[i]
      /\ t[Len(s) + 1] = next
  BY <1>2, AppendProperties
<1> HIDE DEF t
<1>4. DOMAIN t = 1..(Len(s) + 1)
  BY <1>3, LenProperties
<1>5. \A i \in 1..(Len(s) + 1) : i \in 1..Len(s) \/ i = Len(s) + 1
  BY <1>1
<1>6. \A i \in DOMAIN t : t[i][2] = i
  BY <1>1, <1>2, <1>3, <1>4, <1>5 DEF InOrder
<1> QED
  BY <1>2, <1>3, <1>6 DEF InOrder, t, next

\* A front piece is in order.
LEMMA FrontPlaced ==
  ASSUME NEW a \in Seq(Block), NEW b \in Seq(Block), InOrder(a \o b)
  PROVE  InOrder(a)
<1>1. /\ Len(a) \in Nat /\ Len(b) \in Nat /\ DOMAIN a = 1..Len(a)
      /\ a \o b \in Seq(Block) /\ Len(a \o b) = Len(a) + Len(b)
      /\ \A i \in 1..(Len(a) + Len(b)) : (a \o b)[i] = IF i <= Len(a) THEN a[i] ELSE b[i - Len(a)]
  BY ConcatProperties, LenProperties
<1>2. DOMAIN (a \o b) = 1..(Len(a) + Len(b))
  BY <1>1, LenProperties
<1> SUFFICES ASSUME NEW i \in DOMAIN a PROVE a[i][2] = i
  BY DEF InOrder
<1>3. i \in 1..(Len(a) + Len(b)) /\ i <= Len(a)
  BY <1>1
<1>4. (a \o b)[i] = a[i]
  BY <1>1, <1>3
<1> QED
  BY <1>2, <1>3, <1>4 DEF InOrder

LEMMA Joined ==
  ASSUME NEW a \in Seq(Block), NEW b \in Seq(Block)
  PROVE  a \o b \in Seq(Block) /\ Len(a \o b) = Len(a) + Len(b)
         /\ Len(a) \in Nat /\ Len(b) \in Nat
BY ConcatProperties, LenProperties

-----------------------------------------------------------------------------
(* Steps that keep parts of the invariant.                                 *)

LEMMA SizeType == \A f \in File, v \in Version : Size(f, v) \in Nat /\ Size(f, v) > 0
BY SizeAssumption

LEMMA VersionType == Version \subseteq Nat /\ 1 \in Version
BY VersionAssumption

\* Between calls nothing is claimed of them.
LEMMA NoCall ==
  ASSUME pc' \in {"idle", "verify"}
  PROVE  Requesting' /\ Receiving' /\ Received'
BY DEF Requesting, Receiving, Received

LEMMA DestKept ==
  ASSUME DestWhole, UNCHANGED dest, lengthless \subseteq lengthless'
  PROVE  DestWhole'
BY DEF DestWhole, Whole

LEMMA DiskKept ==
  ASSUME OnDisk, UNCHANGED disk
  PROVE  OnDisk'
BY DEF OnDisk, disk

\* The call ends and nothing else changes than a result.
LEMMA ExitKeeps ==
  ASSUME FetchInv, UNCHANGED <<disk, world, history>>,
         NEW res \in {"none", "error", "saved", "unverified"}, Exit(res)
  PROVE  FetchInv'
<1>0. UNCHANGED <<part, dest, version, lfs, calm, transferred, received, rejected, lengthless>>
  BY DEF disk, world, history
<1>a. 1 \in Version
  BY VersionType
<1>1. TypeOK'
  <2>1. /\ pc' = "idle" /\ result' \in {"none", "error", "saved", "unverified"}
        /\ file' = "weights" /\ existing' = 0 /\ resume_from' = 0
        /\ serving' = 1 /\ total' = 0 /\ done' = 0 /\ buffered' = <<>>
    BY DEF Exit
  <2>2. buffered' \in Seq(Block)
    BY <2>1
  <2>3. (\A f \in File : \E v \in Version : Len(part[f]) <= Size(f, v))'
    BY <1>0 DEF FetchInv, TypeOK
  <2> QED
    BY <1>0, <1>a, <2>1, <2>2, <2>3 DEF FetchInv, TypeOK, File
<1>2. Requesting' /\ Receiving' /\ Received'
  BY NoCall DEF Exit
<1>3. OnDisk' /\ DestWhole'
  BY DiskKept, DestKept DEF FetchInv, disk, history
<1> QED
  BY <1>1, <1>2, <1>3 DEF FetchInv

\* The next file is asked for.
LEMMA DownloadKeeps ==
  ASSUME FetchInv, UNCHANGED <<disk, world, lengthless>>,
         NEW res \in {"none", "error", "saved", "unverified"}, result' = res,
         NEW f \in File, Download(f)
  PROVE  FetchInv'
<1>0. \A g \in File : part[g] \in Seq(Block) /\ Len(part[g]) \in Nat
  BY LenProperties DEF FetchInv, TypeOK
<1>1. TypeOK'
  <2>0. UNCHANGED <<part, dest, version, lfs, calm, lengthless>>
    BY DEF disk, world
  <2>1. /\ pc' = "request" /\ file' = f /\ existing' = Len(part[f]) /\ resume_from' = Len(part[f])
        /\ serving' = version /\ total' = 0 /\ done' = 0 /\ buffered' = <<>>
        /\ transferred' = 0 /\ received' = 0 /\ rejected' = FALSE
    BY DEF Download
  <2>2. buffered' \in Seq(Block)
    BY <2>1
  <2>3. (\A g \in File : \E v \in Version : Len(part[g]) <= Size(g, v))'
    BY <2>0 DEF FetchInv, TypeOK
  <2>4. rejected' \in BOOLEAN
    BY <2>1, Zenon
  <2>5. lfs' \in BOOLEAN /\ calm' \in BOOLEAN
    BY <2>0, Zenon DEF FetchInv, TypeOK
  <2> QED
    BY <1>0, <2>0, <2>1, <2>2, <2>3, <2>4, <2>5 DEF FetchInv, TypeOK
<1>2. Requesting' /\ Receiving' /\ Received'
  BY DEF Requesting, Receiving, Received, Download, disk
<1>3. OnDisk' /\ DestWhole'
  BY DiskKept, DestKept DEF FetchInv, disk
<1> QED
  BY <1>1, <1>2, <1>3 DEF FetchInv

-----------------------------------------------------------------------------
(* The request.                                                            *)

LEMMA InitInv == Init => FetchInv
<1> SUFFICES ASSUME Init PROVE FetchInv
  OBVIOUS
<1>0. <<>> \in Seq(Block) /\ Len(<<>>) = 0 /\ DOMAIN <<>> = {}
  BY EmptySeq
<1>1. TypeOK
  <2>1. \A f \in File : part[f] = <<>>
    BY DEF Init
  <2>2. \A f \in File : \E v \in Version : Len(part[f]) <= Size(f, v)
    BY <1>0, <2>1, VersionType, SizeType
  <2>3. part \in [File -> Seq(Block)] /\ dest \in [File -> Seq(Block) \cup {None}]
    BY <1>0 DEF Init
  <2>4. 1 \in Version /\ "weights" \in File
    BY VersionType DEF File
  <2>5. rejected \in BOOLEAN /\ lfs \in BOOLEAN /\ calm \in BOOLEAN
    BY Zenon DEF Init
  <2>6. buffered \in Seq(Block)
    BY <1>0 DEF Init
  <2> QED
    BY <1>0, <2>2, <2>3, <2>4, <2>5, <2>6 DEF Init, TypeOK
<1>2. OnDisk /\ Requesting /\ Receiving /\ Received /\ DestWhole
  BY <1>0 DEF Init, OnDisk, InOrder, Requesting, Receiving, Received, DestWhole
<1> QED
  BY <1>1, <1>2 DEF FetchInv

LEMMA RunInv == FetchInv /\ Run => FetchInv'
BY DownloadKeeps DEF Run, File

LEMMA DownloadErrorInv == FetchInv /\ DownloadError /\ UNCHANGED disk => FetchInv'
BY ExitKeeps DEF DownloadError, FetchInv, TypeOK

LEMMA RespondInv == FetchInv /\ Respond => FetchInv'
<1> SUFFICES ASSUME FetchInv, Respond PROVE FetchInv'
  OBVIOUS
<1>0. /\ part \in [File -> Seq(Block)] /\ file \in File /\ version \in Version
      /\ Len(part[file]) \in Nat /\ resume_from = Len(part[file]) /\ buffered = <<>>
      /\ Size(file, version) \in Nat /\ Size(file, version) > 0
  BY LenProperties, SizeType DEF FetchInv, TypeOK, Requesting, Respond
<1>1. Opened(resume_from) = part[file]
  BY <1>0, EmptySeq DEF Opened
<1>2. part' = part /\ UNCHANGED <<dest, file, resume_from, buffered, existing>>
  BY <1>0, <1>1 DEF Respond
<1>3. total' \in {0, Size(file, version)} /\ lengthless \subseteq lengthless'
      /\ (file \notin lengthless' => total' = Size(file, version))
      /\ lengthless' \subseteq lengthless \cup {file}
  BY DEF Respond
<1>4. TypeOK'
  BY <1>0, <1>2, <1>3 DEF FetchInv, TypeOK, Respond, world
<1>5. Written' = part[file] /\ DOMAIN part[file] = 1..Len(part[file]) /\ Len(buffered') = 0
  BY <1>0, <1>2, ConcatEmptySeq, LenProperties DEF Written
<1>6. InOrder(part[file])
  BY <1>0 DEF FetchInv, OnDisk
<1>7. Receiving'
  BY <1>0, <1>2, <1>3, <1>5, <1>6 DEF Receiving, Respond, InOrder
<1>8. Requesting' /\ Received'
  BY DEF Respond, Requesting, Received
<1>9. OnDisk' /\ DestWhole'
  BY <1>2, <1>3, DiskKept, DestKept DEF FetchInv, disk
<1> QED
  BY <1>4, <1>7, <1>8, <1>9 DEF FetchInv

LEMMA RangeRejectedInv == FetchInv /\ RangeRejected => FetchInv'
<1> SUFFICES ASSUME FetchInv, RangeRejected PROVE FetchInv'
  OBVIOUS
<1>0. /\ part \in [File -> Seq(Block)] /\ file \in File /\ buffered = <<>>
      /\ <<>> \in Seq(Block) /\ Len(<<>>) = 0 /\ DOMAIN <<>> = {}
  BY EmptySeq DEF FetchInv, TypeOK, Requesting, RangeRejected
<1>1. /\ part' \in [File -> Seq(Block)] /\ part'[file] = <<>>
      /\ \A f \in File : f # file => part'[f] = part[f]
  BY <1>0 DEF RangeRejected
<1>2. \A f \in File : \E v \in Version : Len(part'[f]) <= Size(f, v)
  BY <1>0, <1>1, VersionType, SizeType DEF FetchInv, TypeOK
<1>3. TypeOK'
  BY <1>1, <1>2 DEF FetchInv, TypeOK, RangeRejected, world
<1>4. OnDisk'
  BY <1>0, <1>1 DEF FetchInv, OnDisk, InOrder, RangeRejected
<1>5. Requesting' /\ Receiving' /\ Received'
  BY <1>0, <1>1 DEF Requesting, Receiving, Received, RangeRejected
<1>6. DestWhole'
  BY DestKept DEF FetchInv, RangeRejected
<1> QED
  BY <1>3, <1>4, <1>5, <1>6 DEF FetchInv

-----------------------------------------------------------------------------
(* The body.                                                               *)

\* What is known of the file while a body is received.
LEMMA BodyFacts ==
  ASSUME FetchInv
  PROVE  /\ file \in File /\ serving \in Version /\ done \in Nat /\ resume_from \in Nat
         /\ part \in [File -> Seq(Block)] /\ part[file] \in Seq(Block) /\ buffered \in Seq(Block)
         /\ Written \in Seq(Block) /\ Len(Written) = Len(part[file]) + Len(buffered)
         /\ Len(part[file]) \in Nat /\ Len(buffered) \in Nat
         /\ DOMAIN Written = 1..Len(Written)
         /\ Size(file, serving) \in Nat
<1>1. /\ file \in File /\ serving \in Version /\ done \in Nat
      /\ part \in [File -> Seq(Block)] /\ buffered \in Seq(Block)
      /\ resume_from \in {0, existing} /\ existing \in Nat
  BY DEF FetchInv, TypeOK
<1>2. part[file] \in Seq(Block)
  BY <1>1
<1>3. /\ Written \in Seq(Block) /\ Len(Written) = Len(part[file]) + Len(buffered)
      /\ Len(part[file]) \in Nat /\ Len(buffered) \in Nat
  BY <1>1, <1>2, Joined DEF Written
<1>4. DOMAIN Written = 1..Len(Written)
  BY <1>3, LenProperties
<1> QED
  BY <1>1, <1>2, <1>3, <1>4, SizeType

\* Flushing the buffer keeps what was written, which is all in place.
LEMMA FlushKeeps ==
  ASSUME FetchInv, Flush, UNCHANGED dest, pc \in {"body", "sync", "rename"}
  PROVE  /\ part' \in [File -> Seq(Block)] /\ part'[file] = Written
         /\ OnDisk'
         /\ (\A f \in File : \E v \in Version : Len(part[f]) <= Size(f, v))'
<1>1. /\ part' \in [File -> Seq(Block)] /\ part'[file] = Written
      /\ \A f \in File : f # file => part'[f] = part[f]
  BY BodyFacts DEF Flush, Written
<1>2. InOrder(Written) /\ Len(Written) <= Size(file, serving)
  BY BodyFacts DEF FetchInv, Receiving
<1>3. OnDisk'
  BY <1>1, <1>2 DEF FetchInv, OnDisk, InOrder
<1>4. \A f \in File : \E v \in Version : Len(part'[f]) <= Size(f, v)
  BY <1>1, <1>2, BodyFacts DEF FetchInv, TypeOK
<1> QED
  BY <1>1, <1>3, <1>4

LEMMA ReadInv == FetchInv /\ Read => FetchInv'
<1> SUFFICES ASSUME FetchInv, Read PROVE FetchInv'
  OBVIOUS
<1> DEFINE next == <<serving, done + 1>>
           written == Append(buffered, next)
<1>1. /\ pc = "body" /\ done < Size(file, serving) /\ done' = done + 1 /\ received' = received + 1
      /\ UNCHANGED <<world, dest, pc, file, existing, resume_from, serving, total, result,
                     transferred, rejected, lengthless>>
      /\ \/ buffered' = written /\ UNCHANGED part
         \/ buffered' = <<>> /\ part' = [part EXCEPT ![file] = @ \o written]
  BY DEF Read
<1>2. /\ InOrder(Written) /\ done = Len(Written)
      /\ \A i \in DOMAIN Written : i > resume_from => Written[i][1] = serving
      /\ resume_from < Size(file, serving) /\ total \in {0, Size(file, serving)}
      /\ file \notin lengthless => total = Size(file, serving)
  BY <1>1, BodyFacts DEF FetchInv, Receiving
<1>3. /\ next \in Block /\ Append(Written, next) \in Seq(Block) /\ InOrder(Append(Written, next))
      /\ Len(Append(Written, next)) = done + 1
      /\ \A i \in 1..done : Append(Written, next)[i] = Written[i]
      /\ Append(Written, next)[done + 1] = next
  BY <1>2, BodyFacts, AppendPlaced
<1>4. written \in Seq(Block) /\ Len(written) = Len(buffered) + 1
  BY <1>3, BodyFacts, AppendProperties
<1>5. part[file] \o written = Append(Written, next)
  BY <1>3, BodyFacts, JoinAppend DEF Written
<1>6. next[1] = serving
  OBVIOUS
<1> HIDE DEF next, written
<1>7. /\ part' \in [File -> Seq(Block)] /\ buffered' \in Seq(Block)
      /\ Written' = Append(Written, next)
      /\ Len(part'[file]) + Len(buffered') = done + 1
      /\ \A f \in File : f # file => part'[f] = part[f]
      /\ part'[file] = part[file] \/ part'[file] = Append(Written, next)
  <2>1. CASE buffered' = written /\ UNCHANGED part
    BY <2>1, <1>1, <1>2, <1>4, <1>5, BodyFacts DEF Written
  <2>2. CASE buffered' = <<>> /\ part' = [part EXCEPT ![file] = @ \o written]
    <3>1. /\ part'[file] = Append(Written, next) /\ part' \in [File -> Seq(Block)]
          /\ \A f \in File : f # file => part'[f] = part[f]
      BY <2>2, <1>3, <1>5, BodyFacts
    <3>2. Append(Written, next) \o <<>> = Append(Written, next) /\ Len(<<>>) = 0 /\ <<>> \in Seq(Block)
      BY <1>3, ConcatEmptySeq, EmptySeq
    <3> QED
      BY <2>2, <3>1, <3>2, <1>1, <1>3, BodyFacts DEF Written
  <2> QED
    BY <1>1, <2>1, <2>2
<1>8. TypeOK'
  <2>1. \A f \in File : \E v \in Version : Len(part'[f]) <= Size(f, v)
    BY <1>1, <1>3, <1>7, BodyFacts DEF FetchInv, TypeOK
  <2>2. done' \in Nat /\ received' \in Nat
    BY <1>1 DEF FetchInv, TypeOK
  <2> QED
    BY <1>1, <1>7, <2>1, <2>2 DEF FetchInv, TypeOK, world
<1>9. Receiving'
  <2>1. DOMAIN Append(Written, next) = 1..(done + 1)
    BY <1>3, LenProperties
  <2>2. \A i \in 1..(done + 1) : i > resume_from => Append(Written, next)[i][1] = serving
    <3> SUFFICES ASSUME NEW i \in 1..(done + 1), i > resume_from
                 PROVE  Append(Written, next)[i][1] = serving
      OBVIOUS
    <3>1. CASE i \in 1..done
      BY <3>1, <1>2, <1>3, BodyFacts
    <3>2. CASE i = done + 1
      BY <3>2, <1>3, <1>6
    <3>3. i \in 1..done \/ i = done + 1
      <4>1. done \in Nat
        BY BodyFacts
      <4> QED
        BY <4>1
    <3> QED
      BY <3>1, <3>2, <3>3
  <2>3. done' <= Size(file, serving)
    <3>1. done \in Nat /\ Size(file, serving) \in Nat
      BY BodyFacts
    <3>2. done < Size(file, serving) /\ done' = done + 1
      BY <1>1
    <3> QED
      BY <3>1, <3>2
  <2> QED
    BY <1>1, <1>2, <1>3, <1>7, <2>1, <2>2, <2>3 DEF Receiving, InOrder
<1>10. OnDisk'
  BY <1>1, <1>3, <1>7 DEF FetchInv, OnDisk, InOrder
<1>11. Requesting' /\ Received'
  BY <1>1 DEF Requesting, Received
<1>12. DestWhole'
  BY <1>1, DestKept DEF FetchInv
<1> QED
  BY <1>8, <1>9, <1>10, <1>11, <1>12 DEF FetchInv

LEMMA BodyEndsInv == FetchInv /\ BodyEnds => FetchInv'
<1> SUFFICES ASSUME FetchInv, BodyEnds PROVE FetchInv'
  OBVIOUS
<1>1. /\ pc = "body" /\ pc' = "sync" /\ Accepted
      /\ UNCHANGED <<part, dest, version, lfs, calm, file, existing, resume_from, serving, total,
                     done, buffered, result, transferred, received, rejected, lengthless>>
  BY DEF BodyEnds, world, disk, call, history
<1>2. TypeOK'
  BY <1>1 DEF FetchInv, TypeOK
<1>3. Receiving' /\ Received' /\ Requesting'
  BY <1>1 DEF FetchInv, Receiving, Received, Requesting, Written, Accepted, InOrder
<1>4. OnDisk' /\ DestWhole'
  BY <1>1, DiskKept, DestKept DEF FetchInv, disk
<1> QED
  BY <1>2, <1>3, <1>4 DEF FetchInv

LEMMA BodyFailsInv == FetchInv /\ BodyFails => FetchInv'
<1> SUFFICES ASSUME FetchInv, BodyFails PROVE FetchInv'
  OBVIOUS
<1>1. PICK res \in {"none", "error", "saved", "unverified"} : Exit(res)
  BY DEF BodyFails, DownloadError, FetchInv, TypeOK
<1>2. /\ part' \in [File -> Seq(Block)] /\ OnDisk'
      /\ (\A f \in File : \E v \in Version : Len(part[f]) <= Size(f, v))'
  BY FlushKeeps DEF BodyFails
<1>3. UNCHANGED <<dest, version, lfs, calm, transferred, received, rejected, lengthless>>
  BY DEF BodyFails, DownloadError, world, history
<1>4. TypeOK'
  <2>1. buffered' \in Seq(Block) /\ 1 \in Version
    BY <1>1, VersionType DEF Exit
  <2> QED
    BY <1>1, <1>2, <1>3, <2>1 DEF FetchInv, TypeOK, Exit, File
<1>5. Requesting' /\ Receiving' /\ Received'
  BY <1>1, NoCall DEF Exit
<1>6. DestWhole'
  BY <1>3, DestKept DEF FetchInv
<1> QED
  BY <1>2, <1>4, <1>5, <1>6 DEF FetchInv

LEMMA SyncInv == FetchInv /\ Sync => FetchInv'
<1> SUFFICES ASSUME FetchInv, Sync PROVE FetchInv'
  OBVIOUS
<1>1. /\ pc = "sync" /\ pc' = "rename" /\ buffered' = <<>> /\ Flush
      /\ UNCHANGED <<dest, version, lfs, calm, file, existing, resume_from, serving, total,
                     done, result, transferred, received, rejected, lengthless>>
  BY DEF Sync, world, history
<1>2. /\ part' \in [File -> Seq(Block)] /\ part'[file] = Written /\ OnDisk'
      /\ (\A f \in File : \E v \in Version : Len(part[f]) <= Size(f, v))'
  BY <1>1, FlushKeeps
<1>3. Written' = Written /\ Len(buffered') = 0 /\ buffered' \in Seq(Block)
  BY <1>1, <1>2, BodyFacts, ConcatEmptySeq, EmptySeq DEF Written
<1>4. TypeOK'
  BY <1>1, <1>2, <1>3 DEF FetchInv, TypeOK
<1>5. Receiving'
  BY <1>1, <1>2, <1>3, BodyFacts DEF FetchInv, Receiving, InOrder
<1>6. Requesting' /\ Received'
  BY <1>1 DEF FetchInv, Requesting, Received, Accepted
<1>7. DestWhole'
  BY <1>1, DestKept DEF FetchInv
<1> QED
  BY <1>2, <1>4, <1>5, <1>6, <1>7 DEF FetchInv

\* A whole block sequence of one version is that version.
LEMMA OneVersion ==
  ASSUME NEW s \in Seq(Block), NEW f \in File, NEW v \in Version,
         InOrder(s), Len(s) = Size(f, v), \A i \in DOMAIN s : s[i][1] = v
  PROVE  s = Whole(f, v)
<1>1. DOMAIN s = 1..Size(f, v) /\ s = [i \in 1..Size(f, v) |-> s[i]]
  BY LenProperties
<1>2. ASSUME NEW i \in 1..Size(f, v) PROVE s[i] = <<v, i>>
  BY <1>1, BlockParts DEF InOrder
<1> QED
  BY <1>1, <1>2 DEF Whole

\* What is renamed is whole: its last block is of the version of the body,
\* whose length was reached.
LEMMA RenamedWhole ==
  ASSUME FetchInv, pc = "rename", file \notin lengthless
  PROVE  LET s == part[file]
         IN /\ s # <<>> /\ s[Len(s)][1] = serving
            /\ Len(s) = Size(file, serving)
            /\ (\A i \in DOMAIN s : s[i][1] = serving) => s = Whole(file, serving)
<1> DEFINE s == part[file]
<1>1. Written = s /\ done = Len(s)
  <2>1. buffered = <<>> /\ s \in Seq(Block) /\ Len(s) \in Nat
    BY BodyFacts DEF FetchInv, Received
  <2>2. s \o <<>> = s /\ Len(<<>>) = 0
    BY <2>1, ConcatEmptySeq, EmptySeq
  <2> QED
    BY <2>1, <2>2 DEF FetchInv, Receiving, Written
<1>2. /\ s \in Seq(Block) /\ Len(s) \in Nat /\ DOMAIN s = 1..Len(s)
      /\ file \in File /\ serving \in Version /\ resume_from \in Nat
  BY BodyFacts, LenProperties
<1>3. Size(file, serving) \in Nat /\ Size(file, serving) > 0
  BY <1>2, SizeType
<1>4. /\ InOrder(s) /\ resume_from < Size(file, serving)
      /\ \A i \in DOMAIN s : i > resume_from => s[i][1] = serving
      /\ total = Size(file, serving)
  BY <1>1 DEF FetchInv, Receiving
<1>5. Len(s) = Size(file, serving)
  BY <1>1, <1>3, <1>4 DEF FetchInv, Received, Accepted
<1>6. Len(s) \in DOMAIN s /\ Len(s) > resume_from
  BY <1>2, <1>3, <1>4, <1>5
<1>7. s[Len(s)][1] = serving
  BY <1>4, <1>6
<1>8. s # <<>>
  BY <1>3, <1>5, EmptySeq
<1>9. (\A i \in DOMAIN s : s[i][1] = serving) => s = Whole(file, serving)
  BY <1>2, <1>4, <1>5, OneVersion
<1> QED
  BY <1>5, <1>7, <1>8, <1>9

LEMMA RenameInv == FetchInv /\ Rename => FetchInv'
<1> SUFFICES ASSUME FetchInv, Rename PROVE FetchInv'
  OBVIOUS
<1>1. /\ pc = "rename" /\ pc' \in {"verify", "idle"}
      /\ dest' = [dest EXCEPT ![file] = part[file]]
      /\ part' = [part EXCEPT ![file] = <<>>]
      /\ transferred' = done - existing
      /\ UNCHANGED <<version, lfs, calm, received, rejected, lengthless>>
  BY DEF Rename, Exit, Transferred, world
<1>2. /\ file \in File /\ part \in [File -> Seq(Block)] /\ part[file] \in Seq(Block)
      /\ dest \in [File -> Seq(Block) \cup {None}]
      /\ <<>> \in Seq(Block) /\ Len(<<>>) = 0 /\ DOMAIN <<>> = {}
  BY BodyFacts, EmptySeq DEF FetchInv, TypeOK
<1>3. /\ part' \in [File -> Seq(Block)] /\ dest' \in [File -> Seq(Block) \cup {None}]
      /\ part'[file] = <<>> /\ dest'[file] = part[file]
      /\ \A f \in File : f # file => part'[f] = part[f] /\ dest'[f] = dest[f]
  BY <1>1, <1>2
<1>4. TypeOK'
  <2>1. \A f \in File : \E v \in Version : Len(part'[f]) <= Size(f, v)
    <3>1. 1 \in Version /\ Size(file, 1) \in Nat
      BY <1>2, VersionType, SizeType
    <3>2. Len(part'[file]) <= Size(file, 1)
      BY <3>1, <1>2, <1>3
    <3>3. \A f \in File : \E v \in Version : Len(part[f]) <= Size(f, v)
      BY DEF FetchInv, TypeOK
    <3> QED
      BY <3>1, <3>2, <3>3, <1>3
  <2>2. transferred' \in Int
    BY <1>1 DEF FetchInv, TypeOK
  <2>3. CASE UNCHANGED <<call, result>>
    <3>1. UNCHANGED <<file, existing, resume_from, serving, total, done, buffered, result>>
      BY <2>3 DEF call
    <3> QED
      BY <3>1, <1>1, <1>3, <2>1, <2>2 DEF FetchInv, TypeOK
  <2>4. CASE Exit("none")
    <3>1. buffered' \in Seq(Block) /\ 1 \in Version
      BY <2>4, <1>2, VersionType DEF Exit
    <3> QED
      BY <3>1, <2>4, <1>1, <1>3, <2>1, <2>2 DEF FetchInv, TypeOK, Exit, File
  <2> QED
    BY <2>3, <2>4 DEF Rename
<1>5. OnDisk'
  BY <1>2, <1>3 DEF FetchInv, OnDisk, InOrder
<1>6. Requesting' /\ Receiving' /\ Received'
  BY <1>1, NoCall
<1>7. DestWhole'
  <2> SUFFICES ASSUME NEW f \in File \ lengthless', dest'[f] # None
               PROVE  /\ dest'[f] # <<>>
                      /\ LET v == dest'[f][Len(dest'[f])][1]
                         IN /\ Len(dest'[f]) = Size(f, v)
                            /\ (\A i \in DOMAIN dest'[f] : dest'[f][i][1] = v)
                                 => dest'[f] = Whole(f, v)
    BY DEF DestWhole
  <2>1. CASE f = file
    BY <2>1, <1>1, <1>3, RenamedWhole
  <2>2. CASE f # file
    BY <2>2, <1>1, <1>3 DEF FetchInv, DestWhole
  <2> QED
    BY <2>1, <2>2
<1> QED
  BY <1>4, <1>5, <1>6, <1>7 DEF FetchInv

-----------------------------------------------------------------------------
(* After a download, and the world.                                        *)

LEMMA GoOnInv ==
  ASSUME FetchInv, NEW res \in {"saved", "unverified"}, GoOn(res)
  PROVE  FetchInv'
<1>1. CASE Download("tokenizer")
  BY <1>1, DownloadKeeps DEF GoOn, File
<1>2. CASE Exit(res) /\ UNCHANGED <<transferred, received, rejected>>
  BY <1>2, ExitKeeps DEF GoOn, history
<1> QED
  BY <1>1, <1>2 DEF GoOn

LEMMA HashMismatchInv == FetchInv /\ HashMismatch => FetchInv'
<1> SUFFICES ASSUME FetchInv, HashMismatch PROVE FetchInv'
  OBVIOUS
<1>1. /\ dest' = [dest EXCEPT ![file] = None] /\ Exit("error")
      /\ UNCHANGED <<part, version, lfs, calm, transferred, received, rejected, lengthless>>
  BY DEF HashMismatch, world, history
<1>2. /\ file \in File /\ dest \in [File -> Seq(Block) \cup {None}]
      /\ dest' \in [File -> Seq(Block) \cup {None}] /\ dest'[file] = None
      /\ \A f \in File : f # file => dest'[f] = dest[f]
  BY <1>1 DEF FetchInv, TypeOK
<1>3. TypeOK'
  <2>1. buffered' \in Seq(Block) /\ 1 \in Version
    BY <1>1, VersionType, EmptySeq DEF Exit
  <2> QED
    BY <1>1, <1>2, <2>1 DEF FetchInv, TypeOK, Exit, File
<1>4. OnDisk'
  BY <1>1, <1>2 DEF FetchInv, OnDisk
<1>5. Requesting' /\ Receiving' /\ Received'
  BY <1>1, NoCall DEF Exit
<1>6. DestWhole'
  <2>1. \A f \in File : dest'[f] # None => dest'[f] = dest[f]
    BY <1>2
  <2> QED
    BY <2>1, <1>1 DEF FetchInv, DestWhole, Whole
<1> QED
  BY <1>3, <1>4, <1>5, <1>6 DEF FetchInv

\* The server and the calm may change; only the version a new request meets
\* depends on them.
LEMMA WorldInv ==
  ASSUME FetchInv, version' \in Version, lfs' \in BOOLEAN, calm' \in BOOLEAN,
         UNCHANGED <<disk, pc, call, result, history>>
  PROVE  FetchInv'
<1>1. UNCHANGED <<part, dest, pc, file, existing, resume_from, serving, total, done, buffered,
                  result, transferred, received, rejected, lengthless>>
  BY DEF disk, call, history
<1>2. TypeOK'
  <2>1. lfs' \in BOOLEAN /\ calm' \in BOOLEAN /\ rejected' \in BOOLEAN
    BY <1>1, Zenon DEF FetchInv, TypeOK
  <2> QED
    BY <1>1, <2>1 DEF FetchInv, TypeOK
<1>3. Requesting' /\ Receiving' /\ Received'
  BY <1>1 DEF FetchInv, Requesting, Receiving, Received, Written, Accepted, InOrder
<1>4. OnDisk' /\ DestWhole'
  BY <1>1, DiskKept, DestKept DEF FetchInv, disk
<1> QED
  BY <1>2, <1>3, <1>4 DEF FetchInv

LEMMA PublishInv == FetchInv /\ (Publish \/ CalmDown \/ UNCHANGED vars) => FetchInv'
<1> SUFFICES ASSUME FetchInv, Publish \/ CalmDown \/ UNCHANGED vars PROVE FetchInv'
  OBVIOUS
<1>1. version \in Version /\ lfs \in BOOLEAN /\ calm \in BOOLEAN
  BY DEF FetchInv, TypeOK
<1>2. CASE Publish
  BY <1>1, <1>2, WorldInv, Zenon DEF Publish
<1>3. CASE CalmDown
  BY <1>1, <1>3, WorldInv, Zenon DEF CalmDown
<1>4. CASE UNCHANGED vars
  BY <1>1, <1>4, WorldInv, Zenon DEF vars, world
<1> QED
  BY <1>2, <1>3, <1>4

-----------------------------------------------------------------------------
(* The theorems.                                                           *)

LEMMA StepInv == FetchInv /\ [Next]_vars => FetchInv'
<1> SUFFICES ASSUME FetchInv, [Next]_vars PROVE FetchInv'
  OBVIOUS
<1>1. CASE Run
  BY <1>1, RunInv
<1>2. CASE Respond
  BY <1>2, RespondInv
<1>3. CASE RangeRejected
  BY <1>3, RangeRejectedInv
<1>4. CASE RangeUnsatisfiable \/ RequestFails
  BY <1>4, DownloadErrorInv DEF RangeUnsatisfiable, RequestFails
<1>5. CASE Read
  BY <1>5, ReadInv
<1>6. CASE BodyEnds
  BY <1>6, BodyEndsInv
<1>7. CASE BodyFails
  BY <1>7, BodyFailsInv
<1>8. CASE Sync
  BY <1>8, SyncInv
<1>9. CASE Rename
  BY <1>9, RenameInv
<1>10. CASE HashMatches \/ NoPointer
  BY <1>10, GoOnInv DEF HashMatches, NoPointer
<1>11. CASE HashMismatch
  BY <1>11, HashMismatchInv
<1>12. CASE PointerFails \/ TokenizerFetched \/ Crash
  <2>1. result \in {"none", "error", "saved", "unverified"}
    BY DEF FetchInv, TypeOK
  <2> QED
    BY <1>12, <2>1, ExitKeeps DEF PointerFails, TokenizerFetched, Crash
<1>13. CASE Publish \/ CalmDown \/ UNCHANGED vars
  BY <1>13, PublishInv
<1> QED
  BY <1>1, <1>2, <1>3, <1>4, <1>5, <1>6, <1>7, <1>8, <1>9, <1>10, <1>11, <1>12, <1>13
     DEF Next, Step

\* FetchInv is an invariant of the downloader.
THEOREM FetchInvariant == Spec => []FetchInv
<1> QED
  BY InitInv, StepInv, PTL DEF Spec

\* The types hold, and no .part outgrows the largest version of its file,
\* after any number of runs of download_file.
THEOREM FetchTypeCorrect == Spec => []TypeOK
<1>1. FetchInv => TypeOK
  BY DEF FetchInv
<1> QED
  BY <1>1, FetchInvariant, PTL

\* Resumes, restarts and crashes of download_file never skip, repeat or
\* misplace a block.
THEOREM BlocksInPlace == Spec => []InPlace
<1>1. FetchInv => InPlace
  BY DEF FetchInv, InPlace, OnDisk, Receiving, Written
<1> QED
  BY <1>1, FetchInvariant, PTL

\* A file that download_file renamed into place, from a body whose length was
\* promised, has that length, and is that version unless it joins two.
THEOREM PublishedWhole == Spec => []DestWhole
<1>1. FetchInv => DestWhole
  BY DEF FetchInv
<1> QED
  BY <1>1, FetchInvariant, PTL

-----------------------------------------------------------------------------
(* The count that is returned.                                             *)

\* What was received is what was done beyond the offset, which is the length
\* that was found unless a server ignored the range.
Counted ==
  /\ pc = "request" => received = 0 /\ (~rejected => resume_from = existing)
  /\ pc \in {"body", "sync", "rename"} /\ ~rejected => received = done - existing
  /\ TransferCounted

LEMMA CountedStep == FetchInv /\ Counted /\ [Next]_vars => Counted'
<1> SUFFICES ASSUME FetchInv, Counted, [Next]_vars PROVE Counted'
  OBVIOUS
<1>1. done \in Nat /\ existing \in Nat /\ received \in Nat /\ resume_from \in Nat
  BY DEF FetchInv, TypeOK
<1> USE DEF Counted, TransferCounted
<1>2. \A f \in File : Download(f) => Counted'
  BY DEF Download
<1>3. \A res : Exit(res) => Counted'
  BY DEF Exit
<1>4. CASE Run
  BY <1>4, <1>2 DEF Run, File
<1>5. CASE RangeUnsatisfiable \/ RequestFails \/ BodyFails
  BY <1>5, <1>3 DEF RangeUnsatisfiable, RequestFails, BodyFails, DownloadError
<1>6. CASE Respond
  BY <1>6, <1>1 DEF Respond
<1>7. CASE RangeRejected
  BY <1>7 DEF RangeRejected
<1>8. CASE Read
  BY <1>8, <1>1 DEF Read
<1>9. CASE BodyEnds
  BY <1>9 DEF BodyEnds, call, history
<1>10. CASE Sync
  BY <1>10 DEF Sync, history
<1>11. CASE Rename
  BY <1>11, <1>3 DEF Rename, Transferred
<1>12. CASE HashMatches \/ NoPointer
  BY <1>12, <1>2, <1>3 DEF HashMatches, NoPointer, GoOn, File
<1>13. CASE HashMismatch \/ PointerFails \/ TokenizerFetched \/ Crash
  BY <1>13, <1>3 DEF HashMismatch, PointerFails, TokenizerFetched, Crash
<1>14. CASE Publish \/ CalmDown \/ UNCHANGED vars
  BY <1>14 DEF Publish, CalmDown, vars, call, history
<1> QED
  BY <1>4, <1>5, <1>6, <1>7, <1>8, <1>9, <1>10, <1>11, <1>12, <1>13, <1>14 DEF Next, Step

\* download_file returns the bytes it received, through every resume, unless
\* a server ignored its range.
THEOREM TransferReturned == Spec => []TransferCounted
<1>1. Init => Counted
  BY DEF Init, Counted, TransferCounted
<1>2. Counted => TransferCounted
  BY DEF Counted
<1> QED
  BY <1>1, <1>2, CountedStep, FetchInvariant, PTL DEF Spec

-----------------------------------------------------------------------------
(* The whole pieces of 64 bytes of a message, and what is left of it.      *)

LEMMA Div64 ==
  ASSUME NEW n \in Nat
  PROVE  /\ n \div 64 \in Nat /\ 64 * (n \div 64) \in Nat
         /\ 64 * (n \div 64) <= n /\ n - 64 * (n \div 64) \in 0..63
OBVIOUS

LEMMA Div64Is ==
  ASSUME NEW n \in Nat, NEW q \in Nat, n - 64 * q \in 0..63
  PROVE  n \div 64 = q
OBVIOUS

\* p is the i-th piece of 64 bytes of x.
PieceAt(p, x, i) == Len(p) = 64 /\ \A j \in 1..64 : p[j] = x[64 * i - 64 + j]

LEMMA WholeProperties ==
  ASSUME NEW S, NEW x \in Seq(S)
  PROVE  /\ Whole64(x) \in Seq(Seq(S)) /\ Len(Whole64(x)) = Len(x) \div 64
         /\ \A i \in 1..(Len(x) \div 64) : PieceAt(Whole64(x)[i], x, i)
<1>1. PICK n \in Nat, q \in Nat : n = Len(x) /\ q = n \div 64 /\ 64 * q <= n
  BY LenProperties, Div64
<1> DEFINE e(i) == SubSeq(x, 64 * i - 63, 64 * i)
<1>2. Whole64(x) = [i \in 1..q |-> e(i)]
  BY <1>1 DEF Whole64
<1>3. ASSUME NEW i \in 1..q
      PROVE  /\ e(i) \in Seq(S) /\ Len(e(i)) = 64
             /\ \A j \in 1..64 : e(i)[j] = x[64 * i - 64 + j]
  <2>1. PICK a \in Int, b \in Int : a = 64 * i - 63 /\ b = 64 * i /\ b - a + 1 = 64 /\ a <= b
    OBVIOUS
  <2>2. \A k \in a..b : k \in 1..n
    BY <1>1, <2>1
  <2>3. \A k \in a..b : x[k] \in S
    BY <1>1, <2>2, ElementOfSeq
  <2>4. /\ SubSeq(x, a, b) \in Seq(S) /\ Len(SubSeq(x, a, b)) = 64
        /\ \A j \in 1..64 : SubSeq(x, a, b)[j] = x[a + j - 1]
    BY <2>1, <2>3, SubSeqProperties
  <2>5. \A j \in 1..64 : a + j - 1 = 64 * i - 64 + j
    BY <2>1
  <2> QED
    BY <2>1, <2>4, <2>5
<1> HIDE DEF e
<1>4. PICK T : T = Seq(S)
  OBVIOUS
<1>5. \A i \in 1..q : e(i) \in T
  BY <1>3, <1>4
<1>6. [i \in 1..q |-> e(i)] \in Seq(T)
  BY <1>5, IsASeq
<1>7. Len(Whole64(x)) = q /\ \A i \in 1..q : Whole64(x)[i] = e(i)
  BY <1>1, <1>2, LenProperties, <1>6
<1>8. ASSUME NEW i \in 1..q
      PROVE  PieceAt(Whole64(x)[i], x, i)
  <2>1. PICK p : p = e(i)
    OBVIOUS
  <2>2. Len(p) = 64 /\ \A j \in 1..64 : p[j] = x[64 * i - 64 + j]
    BY <1>3, <2>1
  <2>3. PieceAt(p, x, i)
    BY <2>2 DEF PieceAt
  <2> QED
    BY <1>7, <2>1, <2>3
<1> QED
  BY <1>1, <1>2, <1>4, <1>6, <1>7, <1>8

LEMMA LeftProperties ==
  ASSUME NEW S, NEW x \in Seq(S)
  PROVE  LET q == Len(x) \div 64
         IN /\ Left64(x) \in Seq(S) /\ Len(Left64(x)) = Len(x) - 64 * q
            /\ Len(Left64(x)) \in 0..63
            /\ \A j \in 1..Len(Left64(x)) : Left64(x)[j] = x[64 * q + j]
<1>1. PICK n \in Nat, q \in Nat : n = Len(x) /\ q = n \div 64 /\ 64 * q <= n /\ n - 64 * q \in 0..63
  BY LenProperties, Div64
<1>2. PICK a \in Int : a = 64 * q + 1
  BY <1>1
<1>3. Left64(x) = SubSeq(x, a, n)
  BY <1>1, <1>2 DEF Left64
<1>4. \A k \in a..n : k \in 1..n
  BY <1>2
<1>5. \A k \in a..n : x[k] \in S
  BY <1>1, <1>4, ElementOfSeq
<1>6. /\ Left64(x) \in Seq(S) /\ Len(Left64(x)) = IF a <= n THEN n - a + 1 ELSE 0
      /\ \A j \in 1..(n - a + 1) : Left64(x)[j] = x[a + j - 1]
  BY <1>3, <1>5, SubSeqProperties
<1>7. (IF a <= n THEN n - a + 1 ELSE 0) = n - 64 * q /\ n - a + 1 = n - 64 * q
  <2>1. PICK k \in Int : k = 64 * q
    BY <1>1
  <2>2. a = k + 1 /\ k <= n
    BY <1>1, <1>2, <2>1
  <2>3. n - a + 1 = n - k
    BY <2>2
  <2>4. a <= n \/ n - k = 0
    BY <2>2
  <2>5. a <= n => n - k # 0
    BY <2>2
  <2> QED
    BY <2>1, <2>3, <2>4, <2>5
<1>8. \A j \in 1..(n - 64 * q) : a + j - 1 = 64 * q + j
  BY <1>2
<1>9. /\ Left64(x) \in Seq(S) /\ Len(Left64(x)) = n - 64 * q
      /\ \A j \in 1..(n - 64 * q) : Left64(x)[j] = x[64 * q + j]
  BY <1>6, <1>7, <1>8
<1> QED
  BY <1>1, <1>9

\* Pieces of 64 bytes that agree with a message are its pieces.
LEMMA SamePiece ==
  ASSUME NEW S, NEW p \in Seq(S), NEW q \in Seq(S), NEW x, NEW i,
         PieceAt(p, x, i), PieceAt(q, x, i)
  PROVE  p = q
<1>1. Len(p) = Len(q) /\ Len(p) = 64 /\ \A j \in 1..64 : p[j] = q[j]
  BY DEF PieceAt
<1> QED
  BY <1>1, SeqEqual

LEMMA WholeIs ==
  ASSUME NEW S, NEW x \in Seq(S)
  PROVE  \A w \in Seq(Seq(S)) :
           /\ Len(w) = Len(x) \div 64
           /\ \A i \in 1..(Len(x) \div 64) : PieceAt(w[i], x, i)
           => w = Whole64(x)
<1>1. PICK T, v, q : T = Seq(S) /\ v = Whole64(x) /\ q = Len(x) \div 64
  OBVIOUS
<1>2. v \in Seq(T) /\ Len(v) = q /\ \A i \in 1..q : PieceAt(v[i], x, i)
  BY <1>1, WholeProperties
<1>3. SUFFICES ASSUME NEW w \in Seq(T), Len(w) = q, \A i \in 1..q : PieceAt(w[i], x, i)
               PROVE  w = v
  BY <1>1
<1>4. ASSUME NEW i \in 1..q
      PROVE  w[i] = v[i]
  <2>1. w[i] \in Seq(S) /\ v[i] \in Seq(S)
    BY <1>1, <1>2, <1>3, ElementOfSeq
  <2> QED
    BY <1>2, <1>3, <2>1, SamePiece
<1> QED
  BY <1>2, <1>3, <1>4, SeqEqual

LEMMA LeftIs ==
  ASSUME NEW S, NEW x \in Seq(S), NEW l \in Seq(S), NEW q \in Nat, q = Len(x) \div 64,
         Len(l) = Len(x) - 64 * q, \A j \in 1..Len(l) : l[j] = x[64 * q + j]
  PROVE  l = Left64(x)
<1>1. PICK m : m = Left64(x)
  OBVIOUS
<1>2. m \in Seq(S) /\ Len(m) = Len(l) /\ \A j \in 1..Len(l) : l[j] = m[j]
  BY <1>1, LeftProperties
<1> QED
  BY <1>1, <1>2, SeqEqual

\* A piece of a message is one of a longer message.
LEMMA PieceFront ==
  ASSUME NEW S, NEW x \in Seq(S), NEW d \in Seq(S), NEW p, NEW i \in Nat \ {0},
         64 * i <= Len(x), PieceAt(p, x, i)
  PROVE  PieceAt(p, x \o d, i)
<1>a. PICK n \in Nat, m \in Nat : n = Len(x) /\ m = Len(d)
  BY LenProperties
<1>b. PICK y : y = x \o d
  OBVIOUS
<1>1. n = Len(x) /\ m = Len(d) /\ y = x \o d
  BY <1>a, <1>b
<1>2. \A k \in 1..(n + m) : y[k] = IF k <= n THEN x[k] ELSE d[k - n]
  BY <1>1, ConcatProperties
<1>3. ASSUME NEW j \in 1..64
      PROVE  y[64 * i - 64 + j] = x[64 * i - 64 + j]
  <2>1. PICK k \in Int : k = 64 * i - 64 + j
    OBVIOUS
  <2>2. k \in 1..(n + m) /\ k <= n
    BY <1>1, <2>1
  <2> QED
    BY <1>2, <2>1, <2>2
<1> QED
  BY <1>1, <1>3 DEF PieceAt

\* Whole pieces in front of a message move its pieces.
LEMMA PieceBehind ==
  ASSUME NEW S, NEW x \in Seq(S), NEW d \in Seq(S), NEW p, NEW i \in Nat \ {0},
         NEW q \in Nat, Len(x) = 64 * q, 64 * i <= Len(d), PieceAt(p, d, i)
  PROVE  PieceAt(p, x \o d, i + q)
<1>a. PICK n \in Nat, m \in Nat : n = Len(x) /\ m = Len(d)
  BY LenProperties
<1>b. PICK y : y = x \o d
  OBVIOUS
<1>1. n = Len(x) /\ m = Len(d) /\ y = x \o d
  BY <1>a, <1>b
<1>2. \A k \in 1..(n + m) : y[k] = IF k <= n THEN x[k] ELSE d[k - n]
  BY <1>1, ConcatProperties
<1>3. ASSUME NEW j \in 1..64
      PROVE  y[64 * (i + q) - 64 + j] = d[64 * i - 64 + j]
  <2>1. PICK k \in Int : k = 64 * (i + q) - 64 + j
    OBVIOUS
  <2>2. k \in 1..(n + m) /\ ~(k <= n) /\ k - n = 64 * i - 64 + j
    BY <1>1, <2>1
  <2> QED
    BY <1>2, <2>1, <2>2
<1> QED
  BY <1>1, <1>3 DEF PieceAt

\* What follows whole pieces is cut as if nothing were in front of it.
LEMMA CutBehindPieces ==
  ASSUME NEW S, NEW x \in Seq(S), NEW d \in Seq(S), NEW q \in Nat, Len(x) = 64 * q
  PROVE  /\ Whole64(x \o d) = Whole64(x) \o Whole64(d)
         /\ Left64(x \o d) = Left64(d)
<1>1. PICK y, m, c, n, z : y = x \o d /\ m = Len(d) /\ c = m \div 64 /\ n = Len(x) /\ z = q + c
  OBVIOUS
<1>2. /\ m \in Nat /\ c \in Nat /\ 64 * c <= m /\ m - 64 * c \in 0..63
      /\ n \in Nat /\ n = 64 * q /\ z \in Nat /\ z = q + c
  <2>1. m \in Nat /\ n \in Nat
    BY <1>1, LenProperties
  <2>2. c \in Nat /\ 64 * c <= m /\ m - 64 * c \in 0..63
    BY <1>1, <2>1, Div64
  <2> QED
    BY <1>1, <2>1, <2>2
<1>3. /\ y \in Seq(S) /\ Len(y) = n + m
      /\ \A k \in 1..(n + m) : y[k] = IF k <= n THEN x[k] ELSE d[k - n]
  BY <1>1, ConcatProperties
<1>4. Len(y) \div 64 = z
  <2>1. PICK l \in Nat : l = n + m
    BY <1>2
  <2>2. l - 64 * z \in 0..63
    BY <1>2, <2>1
  <2>3. l \div 64 = z
    BY <1>2, <2>2, Div64Is
  <2> QED
    BY <1>3, <2>1, <2>3
<1>5. Len(x) \div 64 = q
  BY Div64Is
<1>6. PICK T, u, v : T = Seq(S) /\ u = Whole64(x) /\ v = Whole64(d)
  OBVIOUS
<1>7. u \in Seq(T) /\ Len(u) = q /\ \A i \in 1..q : PieceAt(u[i], x, i)
  BY <1>5, <1>6, WholeProperties
<1>8. v \in Seq(T) /\ Len(v) = c /\ \A i \in 1..c : PieceAt(v[i], d, i)
  BY <1>1, <1>6, WholeProperties
<1>9. PICK w : w = u \o v
  OBVIOUS
<1>10. /\ w \in Seq(T) /\ Len(w) = z
       /\ \A i \in 1..z : w[i] = IF i <= q THEN u[i] ELSE v[i - q]
  BY <1>2, <1>7, <1>8, <1>9, ConcatProperties
<1>11. ASSUME NEW i \in 1..z
       PROVE  PieceAt(w[i], y, i)
  <2>1. CASE i <= q
    <3>1. i \in 1..q /\ i \in Nat \ {0} /\ 64 * i <= Len(x)
      BY <2>1
    <3>2. PieceAt(u[i], x, i)
      BY <1>7, <3>1
    <3>3. PieceAt(u[i], y, i)
      BY <1>1, <3>1, <3>2, PieceFront
    <3> QED
      BY <1>10, <2>1, <3>3
  <2>2. CASE ~(i <= q)
    <3>1. PICK k \in 1..c : k = i - q
      BY <1>2, <2>2
    <3>2. k \in Nat \ {0} /\ 64 * k <= Len(d) /\ i = k + q
      BY <1>1, <1>2, <2>2, <3>1
    <3>3. PieceAt(v[k], y, k + q)
      BY <1>1, <1>8, <3>2, PieceBehind
    <3> QED
      BY <1>10, <2>2, <3>1, <3>2, <3>3
  <2> QED
    BY <2>1, <2>2
<1>12. w = Whole64(y)
  <2>1. w \in Seq(Seq(S)) /\ Len(w) = Len(y) \div 64
        /\ \A i \in 1..(Len(y) \div 64) : PieceAt(w[i], y, i)
    BY <1>4, <1>6, <1>10, <1>11
  <2> QED
    BY <1>3, <2>1, WholeIs
<1>13. Left64(d) = Left64(y)
  <2>1. PICK l : l = Left64(d)
    OBVIOUS
  <2>2. l \in Seq(S) /\ Len(l) = m - 64 * c /\ \A j \in 1..Len(l) : l[j] = d[64 * c + j]
    BY <1>1, <2>1, LeftProperties
  <2>3. Len(l) = Len(y) - 64 * z
    BY <1>2, <1>3, <2>2
  <2>4. ASSUME NEW j \in 1..Len(l)
        PROVE  l[j] = y[64 * z + j]
    <3>1. PICK k \in Int : k = 64 * z + j
      BY <1>2, <2>2
    <3>2. k \in 1..(n + m) /\ ~(k <= n) /\ k - n = 64 * c + j
      BY <1>2, <2>2, <3>1
    <3> QED
      BY <1>3, <2>2, <3>1, <3>2
  <2>5. l = Left64(y)
    BY <1>2, <1>3, <1>4, <2>2, <2>3, <2>4, LeftIs
  <2> QED
    BY <2>1, <2>5
<1> QED
  BY <1>1, <1>6, <1>9, <1>12, <1>13

\* What is left of x, r bytes behind q pieces, begins what d continues.
Cut(x, d, n, m, q, r) ==
  /\ n = Len(x) /\ m = Len(d) /\ q = Len(x) \div 64 /\ r = Len(Left64(x))
  /\ n = 64 * q + r /\ r <= 63

Continues(x, d, n, m, q, r) ==
  /\ Len(x \o d) = n + m /\ Len(Left64(x) \o d) = r + m
  /\ \A j \in 1..(r + m) : (Left64(x) \o d)[j] = (x \o d)[64 * q + j]

LEMMA Continued ==
  ASSUME NEW S, NEW x \in Seq(S), NEW d \in Seq(S)
  PROVE  /\ \E n, m, q, r \in Nat : Cut(x, d, n, m, q, r) /\ Continues(x, d, n, m, q, r)
         /\ x \o d \in Seq(S) /\ Left64(x) \o d \in Seq(S)
<1>1. PICK n, m, q, l, r, y, z :
        /\ n = Len(x) /\ m = Len(d) /\ q = Len(x) \div 64 /\ l = Left64(x) /\ r = Len(l)
        /\ y = x \o d /\ z = l \o d
  OBVIOUS
<1>2. n \in Nat /\ m \in Nat
  BY <1>1, LenProperties
<1>3. q \in Nat /\ 64 * q <= n /\ n - 64 * q \in 0..63
  BY <1>1, <1>2, Div64
<1>4. l \in Seq(S) /\ r = n - 64 * q /\ \A j \in 1..r : l[j] = x[64 * q + j]
  BY <1>1, LeftProperties
<1>5. r \in Nat /\ r <= 63 /\ n = 64 * q + r
  BY <1>2, <1>3, <1>4
<1>6. /\ y \in Seq(S) /\ Len(y) = n + m
      /\ \A k \in 1..(n + m) : y[k] = IF k <= n THEN x[k] ELSE d[k - n]
  BY <1>1, ConcatProperties
<1>7. /\ z \in Seq(S) /\ Len(z) = r + m
      /\ \A j \in 1..(r + m) : z[j] = IF j <= r THEN l[j] ELSE d[j - r]
  <2>1. l \in Seq(S)
    BY <1>4
  <2> QED
    BY <1>1, <2>1, ConcatProperties
<1>8. ASSUME NEW j \in 1..(r + m)
      PROVE  z[j] = y[64 * q + j]
  <2>1. PICK k \in Int : k = 64 * q + j
    BY <1>3
  <2>2. k \in 1..(n + m) /\ (k <= n <=> j <= r) /\ k - n = j - r
    BY <1>2, <1>3, <1>5, <2>1
  <2>3. CASE j <= r
    <3>1. j \in 1..r
      BY <1>5, <2>3
    <3> QED
      BY <1>4, <1>6, <1>7, <2>1, <2>2, <2>3, <3>1
  <2>4. CASE ~(j <= r)
    BY <1>6, <1>7, <2>1, <2>2, <2>4
  <2> QED
    BY <2>3, <2>4
<1>9. Cut(x, d, n, m, q, r)
  BY <1>1, <1>5 DEF Cut
<1>10. Continues(x, d, n, m, q, r)
  BY <1>1, <1>6, <1>7, <1>8 DEF Continues
<1> QED
  BY <1>1, <1>2, <1>3, <1>5, <1>6, <1>7, <1>9, <1>10

\* The pieces of a message are those of one that follows it.
LEMMA SamePieces ==
  ASSUME NEW S, NEW x \in Seq(S), NEW d \in Seq(S), NEW i \in 1..(Len(x) \div 64)
  PROVE  PieceAt(Whole64(x)[i], x \o d, i)
<1>1. PICK n \in Nat, q \in Nat : n = Len(x) /\ q = n \div 64 /\ 64 * q <= n
  BY LenProperties, Div64
<1>2. i \in Nat \ {0} /\ 64 * i <= Len(x)
  BY <1>1
<1>3. PieceAt(Whole64(x)[i], x, i)
  BY WholeProperties
<1> QED
  BY <1>2, <1>3, PieceFront

\* Bytes that do not fill the piece that was begun are left with it.
LEMMA CutShort ==
  ASSUME NEW S, NEW x \in Seq(S), NEW d \in Seq(S), Len(Left64(x)) + Len(d) < 64
  PROVE  Whole64(x \o d) = Whole64(x) /\ Left64(x \o d) = Left64(x) \o d
<1>1. PICK n \in Nat, m \in Nat, q \in Nat, r \in Nat :
         Cut(x, d, n, m, q, r) /\ Continues(x, d, n, m, q, r)
  BY Continued
<1>2. PICK y, z, w, T : y = x \o d /\ z = Left64(x) \o d /\ w = Whole64(x) /\ T = Seq(S)
  OBVIOUS
<1>3. n = 64 * q + r /\ r + m < 64
  BY <1>1 DEF Cut
<1>b. q = Len(x) \div 64
  BY <1>1 DEF Cut
<1>a. /\ y \in Seq(S) /\ z \in Seq(S) /\ Len(y) = n + m /\ Len(z) = r + m
      /\ \A j \in 1..(r + m) : z[j] = y[64 * q + j]
  BY <1>1, <1>2, Continued DEF Continues
<1>4. Len(y) \div 64 = q
  <2>1. PICK l \in Nat : l = n + m
    OBVIOUS
  <2>2. l - 64 * q = r + m
    BY <1>3, <2>1
  <2>3. l - 64 * q \in 0..63
    BY <1>3, <2>2
  <2>4. l \div 64 = q
    BY <2>3, Div64Is
  <2> QED
    BY <1>a, <2>1, <2>4
<1>5. w = Whole64(y)
  <2>1. w \in Seq(T) /\ Len(w) = q
    BY <1>2, <1>b, WholeProperties
  <2>2. \A i \in 1..q : PieceAt(w[i], y, i)
    BY <1>2, <1>b, SamePieces
  <2>3. y \in Seq(S) /\ w \in Seq(Seq(S))
    BY <1>a, <1>2, <2>1
  <2> QED
    BY <1>4, <2>1, <2>2, <2>3, WholeIs
<1>6. z = Left64(y)
  <2>1. r + m = n + m - 64 * q
    BY <1>3
  <2>2. Len(z) = Len(y) - 64 * q
    BY <1>a, <2>1
  <2>3. \A j \in 1..Len(z) : z[j] = y[64 * q + j]
    BY <1>a
  <2> QED
    BY <1>4, <1>a, <2>2, <2>3, LeftIs
<1> QED
  BY <1>2, <1>5, <1>6

\* Bytes that fill the piece that was begun make it whole.
LEMMA CutFull ==
  ASSUME NEW S, NEW x \in Seq(S), NEW d \in Seq(S), Len(Left64(x)) + Len(d) = 64
  PROVE  /\ Whole64(x \o d) = Append(Whole64(x), Left64(x) \o d)
         /\ Left64(x \o d) = <<>>
         /\ \E q \in Nat : Len(x \o d) = 64 * q
<1>1. PICK n \in Nat, m \in Nat, q \in Nat, r \in Nat :
         Cut(x, d, n, m, q, r) /\ Continues(x, d, n, m, q, r)
  BY Continued
<1>2. PICK y, z, v, T : y = x \o d /\ z = Left64(x) \o d /\ v = Whole64(x) /\ T = Seq(S)
  OBVIOUS
<1>3. PICK c \in Nat : c = q + 1
  OBVIOUS
<1>4. r + m = 64 /\ n + m = 64 * c /\ q = Len(x) \div 64
  <2>1. n = 64 * q + r /\ r + m = 64 /\ q = Len(x) \div 64
    BY <1>1 DEF Cut
  <2> QED
    BY <1>3, <2>1
<1>a. /\ y \in Seq(S) /\ z \in Seq(S) /\ Len(y) = n + m /\ Len(z) = r + m
      /\ \A j \in 1..(r + m) : z[j] = y[64 * q + j]
  BY <1>1, <1>2, Continued DEF Continues
<1>5. y \in Seq(S) /\ Len(y) = 64 * c /\ Len(y) \div 64 = c
  <2>1. PICK l \in Nat : l = n + m
    OBVIOUS
  <2>2. l - 64 * c \in 0..63
    BY <1>4, <2>1
  <2>3. l \div 64 = c
    BY <2>2, Div64Is
  <2> QED
    BY <1>a, <1>4, <2>1, <2>3
<1>6. PICK w : w = Append(v, z)
  OBVIOUS
<1>7. v \in Seq(T) /\ Len(v) = q /\ \A i \in 1..q : PieceAt(v[i], y, i)
  <2>1. v \in Seq(T) /\ Len(v) = q
    BY <1>2, <1>4, WholeProperties
  <2>2. \A i \in 1..q : PieceAt(v[i], y, i)
    BY <1>2, <1>4, SamePieces
  <2> QED
    BY <2>1, <2>2
<1>8. w \in Seq(T) /\ Len(w) = c /\ w[c] = z /\ \A i \in 1..q : w[i] = v[i]
  <2>1. z \in T
    BY <1>a, <1>2
  <2> QED
    BY <1>3, <1>6, <1>7, <2>1, AppendProperties
<1>9. PieceAt(z, y, c)
  <2>1. Len(z) = 64 /\ \A j \in 1..64 : z[j] = y[64 * q + j]
    BY <1>a, <1>4
  <2>2. 64 * q = 64 * c - 64
    BY <1>3
  <2> QED
    BY <2>1, <2>2 DEF PieceAt
<1>10. \A i \in 1..c : PieceAt(w[i], y, i)
  <2>1. \A i \in 1..c : i \in 1..q \/ i = c
    BY <1>3
  <2> QED
    BY <1>7, <1>8, <1>9, <2>1
<1>11. w = Whole64(y)
  <2>1. w \in Seq(Seq(S))
    BY <1>2, <1>8
  <2> QED
    BY <1>5, <1>8, <1>10, <2>1, WholeIs
<1>12. Left64(y) = <<>>
  <2>1. PICK l : l = Left64(y)
    OBVIOUS
  <2>2. l \in Seq(S) /\ Len(l) = Len(y) - 64 * (Len(y) \div 64)
    BY <1>5, <2>1, LeftProperties
  <2>3. Len(l) = 0
    BY <1>3, <1>5, <2>2
  <2> QED
    BY <2>1, <2>2, <2>3, EmptySeq
<1> QED
  BY <1>2, <1>5, <1>6, <1>11, <1>12

-----------------------------------------------------------------------------
(* The hasher: how the buffer follows the message.                         *)

Hasher(S) == [state : Seq(Seq(S)), buf : Seq(S), total : Nat]

\* What was compressed and what is buffered is the message x.
Holds(h, x) == h.state = Whole64(x) /\ h.buf = Left64(x)

LEMMA CutNothing == Whole64(<<>>) = <<>> /\ Left64(<<>>) = <<>>
<1>1. PICK S : S = {0}
  OBVIOUS
<1>2. <<>> \in Seq(S) /\ Len(<<>>) = 0 /\ 0 \div 64 = 0
  BY EmptySeq
<1>3. PICK w, l : w = Whole64(<<>>) /\ l = Left64(<<>>)
  OBVIOUS
<1>4. w \in Seq(Seq(S)) /\ Len(w) = 0
  BY <1>2, <1>3, WholeProperties
<1>5. l \in Seq(S) /\ Len(l) = 0 - 64 * 0
  BY <1>2, <1>3, LeftProperties
<1>6. w = <<>>
  BY <1>4, EmptySeq
<1>7. l = <<>>
  BY <1>5, EmptySeq
<1> QED
  BY <1>3, <1>6, <1>7

\* Behind whole pieces, data is cut where it is.
LEMMA DirectHolds ==
  ASSUME NEW S, NEW h \in Hasher(S), NEW x \in Seq(S), NEW d \in Seq(S),
         NEW q \in Nat, Len(x) = 64 * q, Holds(h, x), h.buf = <<>>
  PROVE  /\ Direct(h, d) \in Hasher(S) /\ Holds(Direct(h, d), x \o d)
         /\ Direct(h, d).total = h.total
<1>1. PICK g, u, v, l, T : g = Direct(h, d) /\ u = Whole64(x) /\ v = Whole64(d) /\ l = Left64(d) /\ T = Seq(S)
  OBVIOUS
<1>2. u \in Seq(T) /\ v \in Seq(T) /\ l \in T
  BY <1>1, WholeProperties, LeftProperties
<1>3. u \o v \in Seq(T)
  BY <1>2, ConcatProperties
<1>4. g = [h EXCEPT !.state = h.state \o v, !.buf = IF l = <<>> THEN h.buf ELSE l]
  BY <1>1 DEF Direct
<1>5. /\ h.state = u /\ h.total \in Nat
      /\ h = [state |-> h.state, buf |-> h.buf, total |-> h.total]
  BY <1>1 DEF Hasher, Holds
<1>6. g.state = u \o v /\ g.buf = l /\ g.total = h.total
      /\ g = [state |-> u \o v, buf |-> l, total |-> h.total]
  BY <1>4, <1>5
<1>7. Whole64(x \o d) = u \o v /\ Left64(x \o d) = l
  BY <1>1, CutBehindPieces
<1>8. g \in Hasher(S)
  BY <1>1, <1>2, <1>3, <1>5, <1>6 DEF Hasher
<1> QED
  BY <1>1, <1>6, <1>7, <1>8 DEF Holds

LEMMA DirectNothing ==
  ASSUME NEW S, NEW h \in Hasher(S)
  PROVE  Direct(h, <<>>) = h
<1>1. h = [state |-> h.state, buf |-> h.buf, total |-> h.total] /\ h.state \in Seq(Seq(S))
  BY DEF Hasher
<1>2. h.state \o <<>> = h.state
  BY <1>1, ConcatEmptySeq
<1>3. Direct(h, <<>>) = [h EXCEPT !.state = h.state \o <<>>, !.buf = h.buf]
  BY CutNothing DEF Direct
<1> QED
  BY <1>1, <1>2, <1>3

LEMMA AbsorbHolds ==
  ASSUME NEW S, NEW h \in Hasher(S), NEW x \in Seq(S), NEW d \in Seq(S), Holds(h, x)
  PROVE  /\ Absorb(h, d) \in Hasher(S) /\ Holds(Absorb(h, d), x \o d)
         /\ Absorb(h, d).total = h.total
<1>a. PICK m \in Nat, l \in Seq(S), r \in Nat : m = Len(d) /\ l = Left64(x) /\ r = Len(l)
  <2>1. Len(d) \in Nat /\ Left64(x) \in Seq(S)
    BY LenProperties, LeftProperties
  <2> QED
    BY <2>1, LenProperties
<1>b. PICK t, d1, d2, g : /\ t = Take(h, d)
                          /\ d1 = SubSeq(d, 1, t) /\ d2 = SubSeq(d, t + 1, m) /\ g = Filled(h, d1)
  OBVIOUS
<1>1. /\ m = Len(d) /\ l = Left64(x) /\ r = Len(l) /\ t = Take(h, d)
      /\ d1 = SubSeq(d, 1, t) /\ d2 = SubSeq(d, t + 1, m) /\ g = Filled(h, d1)
  BY <1>a, <1>b
<1>2. Absorb(h, d) = Direct(g, d2)
  BY <1>1 DEF Absorb
<1>3. h.state = Whole64(x) /\ h.buf = l /\ h.total \in Nat /\ h.state \in Seq(Seq(S))
      /\ h = [state |-> h.state, buf |-> h.buf, total |-> h.total]
  BY <1>1 DEF Hasher, Holds
<1>4. t = IF l = <<>> THEN 0 ELSE IF m < 64 - r THEN m ELSE 64 - r
  BY <1>1, <1>3 DEF Take
<1>5. g = IF Len(l \o d1) = 64 THEN [h EXCEPT !.state = Append(h.state, l \o d1), !.buf = <<>>]
          ELSE [h EXCEPT !.buf = l \o d1]
  BY <1>1, <1>3 DEF Filled
<1>6. PICK n \in Nat, q \in Nat : n = Len(x) /\ n = 64 * q + r /\ r <= 63
  <2>1. PICK n \in Nat, k \in Nat, q \in Nat, c \in Nat : Cut(x, d, n, k, q, c)
    BY Continued
  <2> QED
    BY <1>1, <2>1 DEF Cut
<1>7. CASE l = <<>>
  <2>1. r = 0 /\ t = 0 /\ n = 64 * q
    BY <1>1, <1>4, <1>6, <1>7, EmptySeq
  <2>2. d1 = <<>> /\ d2 = d
    <3>1. d1 = <<>>
      BY <1>1, <2>1, SubSeqEmpty
    <3>2. d2 = SubSeq(d, 1, Len(d))
      BY <1>1, <2>1
    <3> QED
      BY <3>1, <3>2, SubSeqFull
  <2>3. l \o d1 = <<>> /\ Len(l \o d1) # 64
    BY <1>7, <2>2, ConcatEmptySeq, EmptySeq
  <2>4. g = h
    BY <1>3, <1>5, <1>7, <2>3
  <2>5. Len(x) = 64 * q /\ h.buf = <<>>
    BY <1>3, <1>6, <1>7, <2>1
  <2>6. /\ Direct(h, d) \in Hasher(S) /\ Holds(Direct(h, d), x \o d)
        /\ Direct(h, d).total = h.total
    BY <2>5, DirectHolds
  <2> QED
    BY <1>2, <2>2, <2>4, <2>6
<1>8. CASE l # <<>> /\ m < 64 - r
  <2>1. t = m
    BY <1>4, <1>8
  <2>2. d1 = d /\ d2 = <<>>
    <3>1. d1 = d
      BY <1>1, <2>1, SubSeqFull
    <3>2. d2 = <<>>
      BY <1>1, <2>1, SubSeqEmpty
    <3> QED
      BY <3>1, <3>2
  <2>3. r + m < 64
    BY <1>6, <1>8
  <2>4. /\ Whole64(x \o d) = Whole64(x) /\ Left64(x \o d) = l \o d
    BY <1>1, <2>3, CutShort
  <2>5. l \o d \in Seq(S) /\ Len(l \o d) # 64
    BY <1>1, <2>3, ConcatProperties
  <2>6. g = [state |-> h.state, buf |-> l \o d, total |-> h.total]
    BY <1>3, <1>5, <2>2, <2>5
  <2>7. g \in Hasher(S) /\ Holds(g, x \o d) /\ g.total = h.total
    BY <1>3, <2>4, <2>5, <2>6 DEF Hasher, Holds
  <2> QED
    BY <1>2, <2>2, <2>7, DirectNothing
<1>9. CASE l # <<>> /\ ~(m < 64 - r)
  <2>1. t = 64 - r /\ t \in 0..m /\ t \in Nat /\ r + t = 64
    BY <1>4, <1>6, <1>9
  <2>2. d1 \in Seq(S) /\ Len(d1) = t
    BY <1>1, <2>1, FrontPiece
  <2>3. d2 \in Seq(S) /\ d1 \o d2 = d
    <3>1. \A i \in (t + 1)..m : i \in 1..Len(d)
      BY <1>1, <2>1
    <3>2. \A i \in (t + 1)..m : d[i] \in S
      BY <3>1, ElementOfSeq
    <3>3. t + 1 \in Int /\ m \in Int
      BY <2>1
    <3>4. d2 \in Seq(S)
      BY <1>1, <3>2, <3>3, SubSeqProperties
    <3>5. 1 \in 1..(Len(d) + 1) /\ t \in (1 - 1)..Len(d) /\ Len(d) \in t..Len(d)
      BY <1>1, <2>1
    <3>6. SubSeq(d, 1, t) \o SubSeq(d, t + 1, Len(d)) = SubSeq(d, 1, Len(d))
      BY <3>5, ConcatAdjacentSubSeq
    <3> QED
      BY <1>1, <3>4, <3>6, SubSeqFull
  <2>a. Len(Left64(x)) + Len(d1) = 64
    BY <1>1, <2>1, <2>2
  <2>4. /\ Whole64(x \o d1) = Append(Whole64(x), l \o d1) /\ Left64(x \o d1) = <<>>
        /\ \E c \in Nat : Len(x \o d1) = 64 * c
    <3>1. d1 \in Seq(S)
      BY <2>2
    <3> QED
      BY <1>1, <2>a, <3>1, CutFull
  <2>5. l \o d1 \in Seq(S) /\ Len(l \o d1) = 64 /\ x \o d1 \in Seq(S)
    <3>1. d1 \in Seq(S) /\ Len(l) + Len(d1) = 64
      BY <1>1, <2>a, <2>2
    <3>2. l \o d1 \in Seq(S) /\ Len(l \o d1) = Len(l) + Len(d1)
      BY <3>1, ConcatProperties
    <3>3. x \o d1 \in Seq(S)
      BY <3>1, ConcatProperties
    <3> QED
      BY <3>1, <3>2, <3>3
  <2>6. g = [state |-> Append(h.state, l \o d1), buf |-> <<>>, total |-> h.total]
    BY <1>3, <1>5, <2>5
  <2>7. g \in Hasher(S) /\ Holds(g, x \o d1) /\ g.total = h.total /\ g.buf = <<>>
    <3>1. PICK T : T = Seq(S)
      OBVIOUS
    <3>2. Append(h.state, l \o d1) \in Seq(T)
      BY <1>3, <2>5, <3>1, AppendProperties
    <3>3. <<>> \in Seq(S)
      BY EmptySeq
    <3> QED
      BY <1>3, <2>4, <2>6, <3>1, <3>2, <3>3 DEF Hasher, Holds
  <2>8. (x \o d1) \o d2 = x \o d
    <3>1. d1 \in Seq(S) /\ d2 \in Seq(S)
      BY <2>2, <2>3
    <3>2. (x \o d1) \o d2 = x \o (d1 \o d2)
      BY <3>1, ConcatAssociative
    <3> QED
      BY <2>3, <3>2
  <2>9. /\ Direct(g, d2) \in Hasher(S) /\ Holds(Direct(g, d2), (x \o d1) \o d2)
        /\ Direct(g, d2).total = g.total
    <3>1. PICK y : y = x \o d1
      OBVIOUS
    <3>2. PICK c \in Nat : Len(y) = 64 * c
      BY <2>4, <3>1
    <3>3. y \in Seq(S) /\ d2 \in Seq(S)
      BY <2>3, <2>5, <3>1
    <3>4. g \in Hasher(S) /\ Holds(g, y) /\ g.buf = <<>>
      BY <2>7, <3>1
    <3>5. Direct(g, d2) \in Hasher(S) /\ Holds(Direct(g, d2), y \o d2) /\ Direct(g, d2).total = g.total
      BY <3>2, <3>3, <3>4, DirectHolds
    <3> QED
      BY <3>1, <3>5
  <2> QED
    BY <1>2, <2>7, <2>8, <2>9
<1> QED
  BY <1>7, <1>8, <1>9

\* The functions that ZeroPadded and HashedBy are defined by exist.
LEMMA ZerosDefined ==
  ASSUME NEW h
  PROVE  \A k \in Nat :
           \E f : f = [n \in 0..k |-> IF n = 0 THEN h ELSE Zeroed(f[n-1])]
<1> DEFINE P(k) == \E f : f = [n \in 0..k |-> IF n = 0 THEN h ELSE Zeroed(f[n-1])]
           G == {k \in Nat : P(k)}
<1>1. P(0)
  <2> DEFINE f == [n \in 0..0 |-> h]
  <2>1. f = [n \in 0..0 |-> IF n = 0 THEN h ELSE Zeroed(f[n-1])]
    OBVIOUS
  <2> QED
    BY <2>1
<1>2. ASSUME NEW k \in Nat, P(k)
      PROVE  P(k + 1)
  <2>1. PICK f : f = [n \in 0..k |-> IF n = 0 THEN h ELSE Zeroed(f[n-1])]
    BY <1>2
  <2> DEFINE e(n) == IF n = 0 THEN h ELSE Zeroed(f[n-1])
             g == [n \in 0..(k+1) |-> e(n)]
  <2>2. ASSUME NEW n \in 0..(k+1), n # 0
        PROVE  g[n-1] = f[n-1]
    <3>1. n - 1 \in 0..k /\ n - 1 \in 0..(k+1)
      BY <2>2
    <3>2. f[n-1] = e(n-1)
      BY <2>1, <3>1
    <3>3. g[n-1] = e(n-1)
      BY <3>1
    <3> QED
      BY <3>2, <3>3
  <2> DEFINE r == [n \in 0..(k+1) |-> IF n = 0 THEN h ELSE Zeroed(g[n-1])]
  <2>3. \A n \in 0..(k+1) : g[n] = r[n]
    BY <2>2
  <2>4. g = r
    BY <2>3
  <2> QED
    BY <2>4
<1>3. 0 \in G /\ \A k \in Nat : k \in G => k + 1 \in G
  <2> HIDE DEF P
  <2> QED
    BY <1>1, <1>2
<1>4. Nat \subseteq G
  <2> HIDE DEF G
  <2> QED
    BY <1>3, NatBySteps
<1> QED
  BY <1>4

LEMMA ZerosUnfold ==
  ASSUME NEW h
  PROVE  \E f : /\ f[0] = h /\ \A k \in 1..63 : f[k] = Zeroed(f[k-1])
                /\ ZeroPadded(h) = f[63]
<1> DEFINE f == CHOOSE f : f = [k \in 0..63 |-> IF k = 0 THEN h ELSE Zeroed(f[k-1])]
<1>1. f = [k \in 0..63 |-> IF k = 0 THEN h ELSE Zeroed(f[k-1])]
  <2>1. PICK k \in Nat : k = 63
    OBVIOUS
  <2>2. \E g : g = [n \in 0..k |-> IF n = 0 THEN h ELSE Zeroed(g[n-1])]
    BY ZerosDefined
  <2> QED
    BY <2>1, <2>2
<1>2. ZeroPadded(h) = f[63]
  BY DEF ZeroPadded
<1> HIDE DEF f
<1>3. f[0] = h /\ \A k \in 1..63 : f[k] = Zeroed(f[k-1])
  BY <1>1
<1> QED
  BY <1>2, <1>3

LEMMA ReadsDefined ==
  ASSUME NEW s, NEW bytes
  PROVE  \A k \in Nat :
           \E f : f = [n \in 0..k |-> IF n = 0 THEN New ELSE Update(f[n-1], Piece(s, bytes, n))]
<1> DEFINE P(k) == \E f : f = [n \in 0..k |-> IF n = 0 THEN New ELSE Update(f[n-1], Piece(s, bytes, n))]
           G == {k \in Nat : P(k)}
<1>1. P(0)
  <2> DEFINE f == [n \in 0..0 |-> New]
  <2>1. f = [n \in 0..0 |-> IF n = 0 THEN New ELSE Update(f[n-1], Piece(s, bytes, n))]
    OBVIOUS
  <2> QED
    BY <2>1
<1>2. ASSUME NEW k \in Nat, P(k)
      PROVE  P(k + 1)
  <2>1. PICK f : f = [n \in 0..k |-> IF n = 0 THEN New ELSE Update(f[n-1], Piece(s, bytes, n))]
    BY <1>2
  <2> DEFINE e(n) == IF n = 0 THEN New ELSE Update(f[n-1], Piece(s, bytes, n))
             g == [n \in 0..(k+1) |-> e(n)]
  <2>2. ASSUME NEW n \in 0..(k+1), n # 0
        PROVE  g[n-1] = f[n-1]
    <3>1. n - 1 \in 0..k /\ n - 1 \in 0..(k+1)
      BY <2>2
    <3>2. f[n-1] = e(n-1)
      BY <2>1, <3>1
    <3>3. g[n-1] = e(n-1)
      BY <3>1
    <3> QED
      BY <3>2, <3>3
  <2> DEFINE r == [n \in 0..(k+1) |-> IF n = 0 THEN New ELSE Update(g[n-1], Piece(s, bytes, n))]
  <2>3. \A n \in 0..(k+1) : g[n] = r[n]
    BY <2>2
  <2>4. g = r
    BY <2>3
  <2> QED
    BY <2>4
<1>3. 0 \in G /\ \A k \in Nat : k \in G => k + 1 \in G
  <2> HIDE DEF P
  <2> QED
    BY <1>1, <1>2
<1>4. Nat \subseteq G
  <2> HIDE DEF G
  <2> QED
    BY <1>3, NatBySteps
<1> QED
  BY <1>4

\* f holds the hashers after the m reads of a file.
Reads(f, s, bytes, m) ==
  /\ f[0] = New /\ \A k \in 1..m : f[k] = Update(f[k-1], Piece(s, bytes, k))
  /\ HashedBy(s, bytes) = Finalize(f[m])

LEMMA ReadsUnfold ==
  ASSUME NEW s, NEW bytes, NEW m \in Nat, m = (Len(bytes) + s - 1) \div s
  PROVE  \E f : Reads(f, s, bytes, m)
<1> DEFINE f == CHOOSE f : f = [k \in 0..m |-> IF k = 0 THEN New ELSE Update(f[k-1], Piece(s, bytes, k))]
<1>1. f = [k \in 0..m |-> IF k = 0 THEN New ELSE Update(f[k-1], Piece(s, bytes, k))]
  BY ReadsDefined
<1>2. HashedBy(s, bytes) = Finalize(f[m])
  BY DEF HashedBy
<1> HIDE DEF f
<1>3. f[0] = New /\ \A k \in 1..m : f[k] = Update(f[k-1], Piece(s, bytes, k))
  BY <1>1
<1> QED
  BY <1>2, <1>3 DEF Reads

LEMMA CeilDiv ==
  ASSUME NEW n \in Nat \ {0}, NEW l \in Nat
  PROVE  (l + n - 1) \div n \in Nat /\ n * ((l + n - 1) \div n) >= l
OBVIOUS

\* The zeros bring the length to 56 behind whole pieces.
LEMMA ZerosFit ==
  ASSUME NEW n \in Nat
  PROVE  Zeros(n) \in 0..63 /\ \E c \in Nat : n + 1 + Zeros(n) = 64 * c + 56
<1>1. PICK a \in Nat, b \in 0..63 : n = 64 * a + b /\ n % 64 = b
  <2>1. n \div 64 \in Nat /\ n - 64 * (n \div 64) \in 0..63
    BY Div64
  <2>2. n % 64 = n - 64 * (n \div 64)
    OBVIOUS
  <2> QED
    BY <2>1, <2>2
<1>2. CASE b <= 55
  <2>1. (119 - b) % 64 = 55 - b
    BY <1>2
  <2>2. Zeros(n) = 55 - b
    BY <1>1, <2>1 DEF Zeros
  <2>3. n + 1 + Zeros(n) = 64 * a + 56
    BY <1>1, <2>2
  <2> QED
    BY <1>2, <2>2, <2>3
<1>3. CASE b > 55
  <2>1. (119 - b) % 64 = 119 - b
    BY <1>3
  <2>2. Zeros(n) = 119 - b
    BY <1>1, <2>1 DEF Zeros
  <2>a. PICK c \in Nat : c = a + 1
    OBVIOUS
  <2>3. n + 1 + Zeros(n) = 64 * c + 56
    BY <1>1, <2>2, <2>a
  <2> QED
    BY <1>3, <2>2, <2>3
<1> QED
  BY <1>2, <1>3

-----------------------------------------------------------------------------
(* What was hashed.                                                        *)

LEMMA ZeroPaddedHolds ==
  ASSUME NEW S, Zero \in S, NEW h \in Hasher(S), NEW x \in Seq(S), Holds(h, x),
         NEW z \in 0..63, NEW c \in Nat, Len(x) + z = 64 * c + 56
  PROVE  LET y == x \o [i \in 1..z |-> Zero]
         IN /\ ZeroPadded(h) \in Hasher(S) /\ Holds(ZeroPadded(h), y)
            /\ ZeroPadded(h).total = h.total
<1> DEFINE zeros(j) == [i \in 1..j |-> Zero]
           Padding(g, j) == g \in Hasher(S) /\ Holds(g, x \o zeros(j)) /\ g.total = h.total
<1>1. SUFFICES Padding(ZeroPadded(h), z)
  OBVIOUS
<1>2. ASSUME NEW j \in Nat
      PROVE  /\ zeros(j) \in Seq(S) /\ Len(zeros(j)) = j
             /\ zeros(j) \o <<Zero>> = zeros(j + 1)
  <2>1. zeros(j) \in Seq(S) /\ zeros(j + 1) \in Seq(S)
    <3> DEFINE e(i) == Zero
    <3>1. \A i \in 1..j : e(i) \in S
      OBVIOUS
    <3>2. \A i \in 1..(j + 1) : e(i) \in S
      OBVIOUS
    <3>3. j \in Nat /\ j + 1 \in Nat
      OBVIOUS
    <3>4. zeros(j) = [i \in 1..j |-> e(i)] /\ zeros(j + 1) = [i \in 1..(j + 1) |-> e(i)]
      OBVIOUS
    <3> HIDE DEF e, zeros
    <3>5. [i \in 1..j |-> e(i)] \in Seq(S)
      BY <3>1, <3>3, IsASeq
    <3>6. [i \in 1..(j + 1) |-> e(i)] \in Seq(S)
      BY <3>2, <3>3, IsASeq
    <3> QED
      BY <3>4, <3>5, <3>6
  <2>2. /\ Len(zeros(j)) = j /\ Len(zeros(j + 1)) = j + 1
        /\ \A i \in 1..j : zeros(j)[i] = Zero
        /\ \A i \in 1..(j + 1) : zeros(j + 1)[i] = Zero
    BY <2>1, LenProperties
  <2> HIDE DEF zeros
  <2>3. PICK u : u = Append(zeros(j), Zero)
    OBVIOUS
  <2>4. /\ u \in Seq(S) /\ Len(u) = j + 1 /\ u[j + 1] = Zero
        /\ \A i \in 1..j : u[i] = zeros(j)[i]
    BY <2>1, <2>2, <2>3, AppendProperties
  <2>5. \A i \in 1..(j + 1) : i \in 1..j \/ i = j + 1
    OBVIOUS
  <2>6. \A i \in 1..(j + 1) : u[i] = zeros(j + 1)[i]
    BY <2>2, <2>4, <2>5
  <2>7. u = zeros(j + 1)
    BY <2>1, <2>2, <2>4, <2>6, SeqEqual
  <2>8. u = zeros(j) \o <<Zero>>
    BY <2>1, <2>3, AppendIsConcat
  <2> QED
    BY <2>1, <2>2, <2>7, <2>8
<1>3. PICK n \in Nat : n = Len(x) /\ n + z = 64 * c + 56
  BY LenProperties
<1>4. ASSUME NEW g, NEW j \in 0..z, Padding(g, j)
      PROVE  IF j = z THEN Zeroed(g) = g ELSE Padding(Zeroed(g), j + 1)
  <2>1. j \in Nat
    OBVIOUS
  <2>2. PICK y : y = x \o zeros(j)
    OBVIOUS
  <2>3. y \in Seq(S) /\ Len(y) = n + j
    <3>1. PICK u : u = zeros(j)
      OBVIOUS
    <3>2. u \in Seq(S) /\ Len(u) = j /\ y = x \o u
      BY <1>2, <2>1, <2>2, <3>1
    <3>3. x \o u \in Seq(S) /\ Len(x \o u) = Len(x) + Len(u)
      BY <3>2, ConcatProperties
    <3> QED
      BY <1>3, <3>2, <3>3
  <2>4. PICK r : r = Len(g.buf)
    OBVIOUS
  <2>5. PICK q \in Nat : r = n + j - 64 * q /\ r \in 0..63
    <3>1. Len(Left64(y)) = Len(y) - 64 * (Len(y) \div 64) /\ Len(Left64(y)) \in 0..63
      BY <2>3, LeftProperties
    <3>2. Len(y) \div 64 \in Nat
      BY <2>3, LenProperties, Div64
    <3>3. g.buf = Left64(y)
      BY <1>4, <2>2 DEF Holds
    <3>4. PICK q \in Nat : q = Len(y) \div 64
      BY <3>2
    <3>5. r = Len(y) - 64 * q /\ r \in 0..63
      BY <2>4, <3>1, <3>3, <3>4
    <3>6. r = (n + j) - 64 * q
      BY <2>3, <3>5
    <3>7. r = n + j - 64 * q
      BY <2>1, <3>6
    <3> QED
      BY <3>5, <3>7
  <2>6. r = 56 <=> j = z
    <3>1. PICK e \in Int : e = c - q
      OBVIOUS
    <3>2. z - j = 64 * e + 56 - r
      BY <1>3, <2>1, <2>5, <3>1
    <3>3. z - j \in 0..63
      BY <2>1
    <3>4. r = 56 => e = 0
      BY <3>2, <3>3
    <3>5. z = j => e = 0
      BY <2>5, <3>2
    <3>6. e = 0 => z - j = 56 - r
      BY <2>5, <3>2
    <3> QED
      BY <2>1, <2>5, <3>4, <3>5, <3>6
  <2>7. CASE j = z
    BY <2>4, <2>6, <2>7 DEF Zeroed
  <2>8. CASE j # z
    <3>1. Zeroed(g) = Absorb(g, <<Zero>>)
      BY <2>4, <2>6, <2>8 DEF Zeroed
    <3>2. <<Zero>> \in Seq(S)
      OBVIOUS
    <3>3. g \in Hasher(S) /\ Holds(g, y) /\ g.total = h.total
      BY <1>4, <2>2
    <3>4. /\ Zeroed(g) \in Hasher(S) /\ Holds(Zeroed(g), y \o <<Zero>>)
          /\ Zeroed(g).total = h.total
      BY <2>3, <3>1, <3>2, <3>3, AbsorbHolds
    <3>5. y \o <<Zero>> = x \o zeros(j + 1)
      <4>1. zeros(j) \in Seq(S) /\ zeros(j) \o <<Zero>> = zeros(j + 1)
        BY <1>2, <2>1
      <4> HIDE DEF zeros
      <4>2. (x \o zeros(j)) \o <<Zero>> = x \o (zeros(j) \o <<Zero>>)
        BY <3>2, <4>1, ConcatAssociative
      <4> QED
        BY <2>2, <4>1, <4>2
    <3> QED
      BY <2>8, <3>4, <3>5
  <2> QED
    BY <2>7, <2>8
<1>5. PICK f : /\ f[0] = h /\ \A k \in 1..63 : f[k] = Zeroed(f[k-1])
               /\ ZeroPadded(h) = f[63]
  BY ZerosUnfold
<1>6. Padding(h, 0)
  <2>1. zeros(0) = <<>>
    OBVIOUS
  <2>2. x \o <<>> = x
    BY ConcatEmptySeq
  <2> HIDE DEF zeros
  <2> QED
    BY <2>1, <2>2
<1> HIDE DEF Padding
<1> DEFINE P(k) == k <= 63 => \E j \in 0..z : Padding(f[k], j) /\ (j = k \/ j = z)
           G == {k \in Nat : P(k)}
<1>7. P(0)
  <2>1. 0 \in 0..z /\ Padding(f[0], 0)
    BY <1>5, <1>6
  <2> QED
    BY <2>1
<1>8. ASSUME NEW k \in Nat, P(k)
      PROVE  P(k + 1)
  <2>1. SUFFICES ASSUME k + 1 <= 63
                 PROVE  \E j \in 0..z : Padding(f[k + 1], j) /\ (j = k + 1 \/ j = z)
    OBVIOUS
  <2>2. PICK j \in 0..z : Padding(f[k], j) /\ (j = k \/ j = z)
    BY <1>8, <2>1
  <2>3. f[k + 1] = Zeroed(f[k])
    <3>1. k + 1 \in 1..63 /\ (k + 1) - 1 = k
      BY <2>1
    <3> QED
      BY <1>5, <3>1
  <2>4. CASE j = z
    BY <1>4, <2>2, <2>3, <2>4
  <2>5. CASE j # z
    <3>1. Padding(f[k + 1], j + 1)
      BY <1>4, <2>2, <2>3, <2>5
    <3>2. j + 1 \in 0..z /\ j + 1 = k + 1
      BY <2>2, <2>5
    <3> QED
      BY <3>1, <3>2
  <2> QED
    BY <2>4, <2>5
<1>9. 0 \in G /\ \A k \in Nat : k \in G => k + 1 \in G
  <2> HIDE DEF P
  <2> QED
    BY <1>7, <1>8
<1>10. Nat \subseteq G
  <2> HIDE DEF G
  <2> QED
    BY <1>9, NatBySteps
<1>11. PICK j \in 0..z : Padding(f[63], j) /\ (j = 63 \/ j = z)
  BY <1>10
<1>12. j = z
  BY <1>11
<1> QED
  BY <1>5, <1>11, <1>12

\* The bytes of a file, and those of the padding.
Byte == (Block \X Nat) \cup {One, Zero} \cup ({"length"} \X Nat \X (1..8))

LEMMA LengthProperties ==
  ASSUME NEW b \in Nat
  PROVE  /\ Length(b) \in Seq(Byte) /\ Len(Length(b)) = 8
         /\ \A i \in 1..8 : Length(b)[i] = <<"length", b, i>>
<1> DEFINE e(i) == <<"length", b, i>>
<1>1. \A i \in 1..8 : e(i) \in Byte
  BY DEF Byte
<1>2. Length(b) = [i \in 1..8 |-> e(i)]
  BY DEF Length
<1> HIDE DEF e
<1>3. [i \in 1..8 |-> e(i)] \in Seq(Byte)
  BY <1>1, IsASeq
<1>4. Length(b) \in Seq(Byte) /\ Len(Length(b)) = 8 /\ \A i \in 1..8 : Length(b)[i] = e(i)
  BY <1>2, <1>3, LenProperties
<1> QED
  BY <1>4 DEF e

\* The padded message is whole pieces, whose last byte is its length's.
LEMMA PaddedProperties ==
  ASSUME NEW x \in Seq(Byte)
  PROVE  /\ Padded(x) \in Seq(Byte)
         /\ \E c \in Nat : Len(Padded(x)) = 64 * c + 64
         /\ \A i \in 1..Len(x) : Padded(x)[i] = x[i]
         /\ Len(x) <= Len(Padded(x))
         /\ Padded(x)[Len(Padded(x))] = <<"length", 8 * Len(x), 8>>
<1>1. PICK n \in Nat, z \in 0..63, b \in Nat : n = Len(x) /\ z = Zeros(n) /\ b = 8 * n
  BY LenProperties, ZerosFit
<1>2. PICK c \in Nat : n + 1 + z = 64 * c + 56
  BY <1>1, ZerosFit
<1>3. PICK zs, u, v, w, l : /\ zs = [i \in 1..z |-> Zero] /\ l = Length(b)
                            /\ u = x \o <<One>> /\ v = u \o zs /\ w = v \o l
  OBVIOUS
<1>4. zs \in Seq(Byte) /\ Len(zs) = z
  <2> DEFINE e(i) == Zero
  <2>1. \A i \in 1..z : e(i) \in Byte
    BY DEF Byte
  <2>2. zs = [i \in 1..z |-> e(i)] /\ z \in Nat
    BY <1>3
  <2> HIDE DEF e
  <2>3. zs \in Seq(Byte)
    BY <2>1, <2>2, IsASeq
  <2> QED
    BY <2>2, <2>3, LenProperties
<1>5. <<One>> \in Seq(Byte) /\ Len(<<One>>) = 1
  BY DEF Byte
<1>6. /\ u \in Seq(Byte) /\ Len(u) = n + 1
      /\ \A i \in 1..n : u[i] = x[i]
  BY <1>1, <1>3, <1>5, ConcatProperties
<1>7. /\ v \in Seq(Byte) /\ Len(v) = n + 1 + z
      /\ \A i \in 1..n : v[i] = u[i]
  <2>1. /\ v \in Seq(Byte) /\ Len(v) = Len(u) + Len(zs)
        /\ \A i \in 1..(Len(u) + Len(zs)) : v[i] = IF i <= Len(u) THEN u[i] ELSE zs[i - Len(u)]
    <3>1. u \in Seq(Byte) /\ zs \in Seq(Byte) /\ v = u \o zs
      BY <1>3, <1>4, <1>6
    <3> QED
      BY <3>1, ConcatProperties
  <2>2. Len(v) = n + 1 + z
    BY <1>4, <1>6, <2>1
  <2>3. \A i \in 1..n : i \in 1..(Len(u) + Len(zs)) /\ i <= Len(u)
    BY <1>4, <1>6
  <2> QED
    BY <2>1, <2>2, <2>3
<1>8. /\ l \in Seq(Byte) /\ Len(l) = 8 /\ l[8] = <<"length", b, 8>>
  <2>1. /\ Length(b) \in Seq(Byte) /\ Len(Length(b)) = 8
        /\ \A i \in 1..8 : Length(b)[i] = <<"length", b, i>>
    BY LengthProperties
  <2>2. l = Length(b) /\ 8 \in 1..8
    BY <1>3
  <2>3. \A i \in 1..8 : l[i] = <<"length", b, i>>
    BY <2>1, <2>2
  <2>4. l[8] = <<"length", b, 8>>
    BY <2>2, <2>3
  <2> QED
    BY <2>1, <2>2, <2>4
<1>9. PICK m \in Nat : m = n + 1 + z
  <2>1. n + 1 + z \in Nat
    OBVIOUS
  <2> QED
    BY <2>1
<1>10. /\ w \in Seq(Byte) /\ Len(w) = m + 8
       /\ \A i \in 1..(m + 8) : w[i] = IF i <= m THEN v[i] ELSE l[i - m]
  <2>1. Len(v) = m /\ v \in Seq(Byte) /\ l \in Seq(Byte) /\ w = v \o l
    BY <1>3, <1>7, <1>8, <1>9
  <2>2. /\ w \in Seq(Byte) /\ Len(w) = Len(v) + Len(l)
        /\ \A i \in 1..(Len(v) + Len(l)) : w[i] = IF i <= Len(v) THEN v[i] ELSE l[i - Len(v)]
    BY <2>1, ConcatProperties
  <2>3. Len(v) + Len(l) = m + 8
    BY <1>8, <2>1
  <2> QED
    BY <2>1, <2>2, <2>3
<1>11. w[m + 8] = <<"length", b, 8>>
  <2>1. m + 8 \in 1..(m + 8) /\ ~(m + 8 <= m) /\ (m + 8) - m = 8
    OBVIOUS
  <2> QED
    BY <1>8, <1>10, <2>1
<1>12. \A i \in 1..n : w[i] = x[i]
  <2>1. \A i \in 1..n : i \in 1..(m + 8) /\ i <= m
    <3>1. n <= m
      BY <1>9
    <3> QED
      BY <3>1
  <2> QED
    BY <1>6, <1>7, <1>10, <2>1
<1>13. Padded(x) = w
  BY <1>1, <1>3 DEF Padded
<1>14. m + 8 = 64 * c + 64 /\ n <= m + 8
  <2>1. m = 64 * c + 56
    BY <1>2, <1>9
  <2>2. n <= m
    BY <1>9
  <2> QED
    BY <2>1, <2>2
<1>15. \E k \in Nat : Len(w) = 64 * k + 64
  BY <1>10, <1>14
<1> QED
  BY <1>1, <1>10, <1>11, <1>12, <1>13, <1>14, <1>15

LEMMA FinalizeHolds ==
  ASSUME NEW h \in Hasher(Byte), NEW x \in Seq(Byte), Holds(h, x), h.total = Len(x)
  PROVE  Finalize(h) = Whole64(Padded(x))
<1>a. PICK n \in Nat, z \in 0..63 : n = Len(x) /\ z = Zeros(n)
  BY LenProperties, ZerosFit
<1>b. PICK u, g : u = x \o <<One>> /\ g = Absorb(h, <<One>>)
  OBVIOUS
<1>1. n = Len(x) /\ z = Zeros(n) /\ u = x \o <<One>> /\ g = Absorb(h, <<One>>)
  BY <1>a, <1>b
<1>2. <<One>> \in Seq(Byte) /\ Len(<<One>>) = 1 /\ Zero \in Byte
  BY DEF Byte
<1>3. g \in Hasher(Byte) /\ Holds(g, u) /\ g.total = h.total
  BY <1>1, <1>2, AbsorbHolds
<1>4. u \in Seq(Byte) /\ Len(u) = n + 1
  BY <1>1, <1>2, ConcatProperties
<1>5. PICK c \in Nat : Len(u) + z = 64 * c + 56
  <2>1. PICK c \in Nat : n + 1 + z = 64 * c + 56
    BY <1>1, ZerosFit
  <2> QED
    BY <1>4, <2>1
<1>6. PICK v, k : v = u \o [i \in 1..z |-> Zero] /\ k = ZeroPadded(g)
  OBVIOUS
<1>7. k \in Hasher(Byte) /\ Holds(k, v)
  BY <1>2, <1>3, <1>4, <1>5, <1>6, ZeroPaddedHolds
<1>8. v \in Seq(Byte)
  <2> DEFINE e(i) == Zero
  <2>1. \A i \in 1..z : e(i) \in Byte
    BY <1>2
  <2>2. v = u \o [i \in 1..z |-> e(i)] /\ z \in Nat
    BY <1>6
  <2> HIDE DEF e
  <2>3. [i \in 1..z |-> e(i)] \in Seq(Byte)
    BY <2>1, <2>2, IsASeq
  <2> QED
    BY <1>4, <2>2, <2>3, ConcatProperties
<1>9. PICK l : l = Length(8 * n)
  OBVIOUS
<1>10. l \in Seq(Byte)
  <2>1. 8 * n \in Nat
    OBVIOUS
  <2> QED
    BY <1>9, <2>1, LengthProperties
<1>11. Holds(Absorb(k, l), v \o l)
  BY <1>7, <1>8, <1>10, AbsorbHolds
<1>12. Padded(x) = v \o l
  BY <1>1, <1>6, <1>9 DEF Padded
<1>13. Finalize(h) = Absorb(k, l).state
  BY <1>1, <1>6, <1>9 DEF Finalize
<1> QED
  BY <1>11, <1>12, <1>13 DEF Holds

\* However the file is read, what is hashed is the padded file.
LEMMA HashedIsPadded ==
  ASSUME NEW s \in Nat \ {0}, NEW x \in Seq(Byte)
  PROVE  HashedBy(s, x) = Whole64(Padded(x))
<1>1. PICK n \in Nat, m \in Nat : n = Len(x) /\ m = (Len(x) + s - 1) \div s /\ s * m >= n
  BY LenProperties, CeilDiv
<1>2. PICK f : /\ f[0] = New /\ \A k \in 1..m : f[k] = Update(f[k-1], Piece(s, x, k))
               /\ HashedBy(s, x) = Finalize(f[m])
  <2>1. m = (Len(x) + s - 1) \div s
    BY <1>1
  <2>2. PICK f : Reads(f, s, x, m)
    BY <2>1, ReadsUnfold
  <2> QED
    BY <2>2 DEF Reads
<1> DEFINE upto(k) == IF s * k < n THEN s * k ELSE n
           Reading(h, i) == /\ h \in Hasher(Byte) /\ Holds(h, SubSeq(x, 1, i)) /\ h.total = i
           P(k) == k <= m => Reading(f[k], upto(k))
           G == {k \in Nat : P(k)}
<1>3. \A k \in Nat : s * k \in Nat /\ upto(k) \in 0..n /\ s * (k + 1) = s * k + s
  OBVIOUS
<1>4. Reading(New, 0)
  <2>1. SubSeq(x, 1, 0) = <<>>
    BY SubSeqEmpty
  <2>2. <<>> \in Seq(Byte) /\ <<>> \in Seq(Seq(Byte))
    BY EmptySeq
  <2> QED
    BY <2>1, <2>2, CutNothing DEF New, Hasher, Holds
<1>5. ASSUME NEW h, NEW k \in Nat, Reading(h, upto(k))
      PROVE  Reading(Update(h, Piece(s, x, k + 1)), upto(k + 1))
  <2>a. PICK a \in 0..n, b \in 0..n : a = upto(k) /\ b = upto(k + 1)
    <3>1. upto(k) \in 0..n /\ upto(k + 1) \in 0..n
      <4>1. k + 1 \in Nat
        OBVIOUS
      <4> QED
        BY <1>3, <4>1
    <3> HIDE DEF upto
    <3> QED
      BY <3>1
  <2>b. PICK p, front : p = Piece(s, x, k + 1) /\ front = SubSeq(x, 1, a)
    OBVIOUS
  <2>1. a = upto(k) /\ b = upto(k + 1) /\ p = Piece(s, x, k + 1) /\ front = SubSeq(x, 1, a)
    <3> HIDE DEF upto
    <3> QED
      BY <2>a, <2>b
  <2>2. a <= b
    BY <1>3, <2>1
  <2>3. p = SubSeq(x, a + 1, b)
    <3>1. (k + 1) - 1 = k
      OBVIOUS
    <3>2. p = SubSeq(x, s * k + 1, b)
      BY <1>1, <2>1, <3>1 DEF Piece
    <3>3. CASE s * k < n
      BY <2>1, <3>2, <3>3
    <3>4. CASE ~(s * k < n)
      <4>1. a = n /\ b = n /\ s * k + 1 \in Int /\ n < s * k + 1
        BY <1>3, <2>1, <3>4
      <4>2. p = <<>>
        BY <3>2, <4>1, SubSeqEmpty
      <4>3. SubSeq(x, a + 1, b) = <<>>
        BY <4>1, SubSeqEmpty
      <4> QED
        BY <4>2, <4>3
    <3> QED
      BY <3>3, <3>4
  <2>4. front \in Seq(Byte) /\ Len(front) = a
    BY <1>1, <2>1, FrontPiece
  <2>5. p \in Seq(Byte) /\ Len(p) = b - a
    <3>1. \A i \in (a + 1)..b : i \in 1..Len(x)
      BY <1>1
    <3>2. \A i \in (a + 1)..b : x[i] \in Byte
      BY <3>1, ElementOfSeq
    <3>3. a + 1 \in Int /\ b \in Int
      OBVIOUS
    <3>4. p \in Seq(Byte) /\ Len(p) = IF a + 1 <= b THEN b - (a + 1) + 1 ELSE 0
      BY <2>3, <3>2, <3>3, SubSeqProperties
    <3>5. (IF a + 1 <= b THEN b - (a + 1) + 1 ELSE 0) = b - a
      BY <2>2
    <3> QED
      BY <3>4, <3>5
  <2>6. front \o p = SubSeq(x, 1, b)
    <3>1. 1 \in 1..(Len(x) + 1) /\ a \in (1 - 1)..Len(x) /\ b \in a..Len(x)
      BY <1>1, <2>2
    <3> QED
      BY <2>1, <2>3, <3>1, ConcatAdjacentSubSeq
  <2>7. /\ h \in Hasher(Byte) /\ Holds(h, front) /\ h.total = a
    BY <1>5, <2>1
  <2>8. PICK g : g = [h EXCEPT !.total = @ + Len(p)]
    OBVIOUS
  <2>9. g \in Hasher(Byte) /\ Holds(g, front) /\ g.total = b
    <3>1. /\ h.state \in Seq(Seq(Byte)) /\ h.buf \in Seq(Byte)
          /\ h = [state |-> h.state, buf |-> h.buf, total |-> h.total]
      BY <2>7 DEF Hasher
    <3>2. a + (b - a) = b /\ b \in Nat
      OBVIOUS
    <3>3. g = [state |-> h.state, buf |-> h.buf, total |-> b]
      BY <2>5, <2>7, <2>8, <3>1, <3>2
    <3> QED
      BY <2>7, <3>1, <3>2, <3>3 DEF Hasher, Holds
  <2>10. /\ Absorb(g, p) \in Hasher(Byte) /\ Holds(Absorb(g, p), front \o p)
         /\ Absorb(g, p).total = b
    BY <2>4, <2>5, <2>9, AbsorbHolds
  <2>11. Update(h, p) = Absorb(g, p)
    BY <2>8 DEF Update
  <2> QED
    BY <2>1, <2>6, <2>10, <2>11
<1> HIDE DEF Reading
<1>6. P(0)
  <2>1. s * 0 = 0
    OBVIOUS
  <2>2. upto(0) = 0
    BY <2>1
  <2> QED
    BY <1>2, <1>4, <2>2
<1> HIDE DEF upto
<1>7. ASSUME NEW k \in Nat, P(k)
      PROVE  P(k + 1)
  <2>1. SUFFICES ASSUME k + 1 <= m
                 PROVE  Reading(f[k + 1], upto(k + 1))
    OBVIOUS
  <2>2. k + 1 \in 1..m /\ (k + 1) - 1 = k /\ k <= m
    BY <2>1
  <2>3. f[k + 1] = Update(f[k], Piece(s, x, k + 1))
    BY <1>2, <2>2
  <2> QED
    BY <1>5, <1>7, <2>2, <2>3
<1>8. 0 \in G /\ \A k \in Nat : k \in G => k + 1 \in G
  <2> HIDE DEF P
  <2> QED
    BY <1>6, <1>7
<1>9. Nat \subseteq G
  <2> HIDE DEF G
  <2> QED
    BY <1>8, NatBySteps
<1>10. Reading(f[m], upto(m))
  BY <1>9
<1>11. upto(m) = n
  BY <1>1, <1>3 DEF upto
<1>12. f[m] \in Hasher(Byte) /\ Holds(f[m], x) /\ f[m].total = Len(x)
  BY <1>1, <1>10, <1>11, SubSeqFull DEF Reading
<1> QED
  BY <1>2, <1>12, FinalizeHolds

-----------------------------------------------------------------------------
(* What the padded message says of the message.                            *)

\* A place of a message of whole pieces, and the piece it is in.
LEMMA PlaceInPiece ==
  ASSUME NEW c \in Nat, NEW i \in 1..(64 * c)
  PROVE  \E k \in 1..c, j \in 1..64 : i = 64 * k - 64 + j
<1>1. PICK n \in Nat, q \in Nat : n = i - 1 /\ q = n \div 64 /\ n - 64 * q \in 0..63
  <2>1. i - 1 \in Nat
    OBVIOUS
  <2> QED
    BY <2>1, Div64
<1>2. PICK k, j : k = q + 1 /\ j = n - 64 * q + 1
  OBVIOUS
<1>3. k \in 1..c /\ j \in 1..64 /\ i = 64 * k - 64 + j
  BY <1>1, <1>2
<1> QED
  BY <1>3

\* Messages of whole pieces with the same pieces are the same.
LEMMA SameWhole ==
  ASSUME NEW S, NEW x \in Seq(S), NEW y \in Seq(S), NEW c \in Nat, NEW d \in Nat,
         Len(x) = 64 * c, Len(y) = 64 * d, Whole64(x) = Whole64(y)
  PROVE  x = y
<1>1. Len(x) \div 64 = c /\ Len(y) \div 64 = d
  BY Div64Is
<1>2. PICK w : w = Whole64(x) /\ w = Whole64(y)
  OBVIOUS
<1>3. Len(w) = c /\ \A i \in 1..c : PieceAt(w[i], x, i)
  BY <1>1, <1>2, WholeProperties
<1>4. Len(w) = d /\ \A i \in 1..d : PieceAt(w[i], y, i)
  BY <1>1, <1>2, WholeProperties
<1>5. ASSUME NEW i \in 1..(64 * c)
      PROVE  x[i] = y[i]
  <2>1. PICK k \in 1..c, j \in 1..64 : i = 64 * k - 64 + j
    BY PlaceInPiece
  <2>2. PieceAt(w[k], x, k) /\ PieceAt(w[k], y, k)
    BY <1>3, <1>4
  <2>3. w[k][j] = x[64 * k - 64 + j] /\ w[k][j] = y[64 * k - 64 + j]
    BY <2>2 DEF PieceAt
  <2> QED
    BY <2>1, <2>3
<1>6. Len(x) = Len(y)
  BY <1>3, <1>4
<1> QED
  BY <1>5, <1>6, SeqEqual

\* The padding can be told from the message: the pieces name it.
LEMMA SamePadded ==
  ASSUME NEW x \in Seq(Byte), NEW y \in Seq(Byte), Whole64(Padded(x)) = Whole64(Padded(y))
  PROVE  x = y
<1>1. PICK p, q : p = Padded(x) /\ q = Padded(y)
  OBVIOUS
<1>2. /\ p \in Seq(Byte) /\ \E c \in Nat : Len(p) = 64 * c + 64
      /\ \A i \in 1..Len(x) : p[i] = x[i]
      /\ p[Len(p)] = <<"length", 8 * Len(x), 8>>
  BY <1>1, PaddedProperties
<1>3. /\ q \in Seq(Byte) /\ \E c \in Nat : Len(q) = 64 * c + 64
      /\ \A i \in 1..Len(y) : q[i] = y[i]
      /\ q[Len(q)] = <<"length", 8 * Len(y), 8>>
  BY <1>1, PaddedProperties
<1>4. p = q
  <2>1. PICK c \in Nat, d \in Nat : Len(p) = 64 * c + 64 /\ Len(q) = 64 * d + 64
    BY <1>2, <1>3
  <2>2. PICK a \in Nat, b \in Nat : a = c + 1 /\ b = d + 1
    OBVIOUS
  <2>3. Len(p) = 64 * a /\ Len(q) = 64 * b
    BY <2>1, <2>2
  <2> QED
    BY <1>1, <1>2, <1>3, <2>3, SameWhole
<1>5. Len(x) = Len(y)
  <2>1. <<"length", 8 * Len(x), 8>> = <<"length", 8 * Len(y), 8>>
    BY <1>2, <1>3, <1>4
  <2>2. Len(x) \in Nat /\ Len(y) \in Nat
    BY LenProperties
  <2>3. PICK m, n : m = 8 * Len(x) /\ n = 8 * Len(y)
    OBVIOUS
  <2>4. <<"length", m, 8>> = <<"length", n, 8>>
    BY <2>1, <2>3
  <2>5. m = n
    BY <2>4
  <2> QED
    BY <2>2, <2>3, <2>5
<1>6. \A i \in 1..Len(x) : x[i] = y[i]
  BY <1>2, <1>3, <1>4, <1>5
<1> QED
  BY <1>5, <1>6, SeqEqual

-----------------------------------------------------------------------------
(* The bytes of a file.                                                    *)

LEMMA BlockOf ==
  ASSUME NEW m \in Nat \ {0}, NEW n \in Nat, NEW i \in 1..(m * n)
  PROVE  ((i - 1) \div m) + 1 \in 1..n
<1>1. PICK a \in Nat : a = i - 1 /\ a < m * n
  OBVIOUS
<1>2. PICK q \in Int : q = a \div m /\ m * q <= a /\ a < m * q + m
  OBVIOUS
<1>3. q >= 0
  <2>1. CASE q < 0
    <3>1. q + 1 <= 0
      BY <2>1
    <3>2. m * (q + 1) <= 0
      BY <3>1
    <3> QED
      BY <1>2, <3>2
  <2> QED
    BY <2>1
<1>4. q < n
  <2>1. CASE q >= n
    <3>1. m * q >= m * n
      BY <2>1
    <3> QED
      BY <1>1, <1>2, <3>1
  <2> QED
    BY <2>1
<1> QED
  BY <1>1, <1>2, <1>3, <1>4

LEMMA ContentProperties ==
  ASSUME NEW a \in Seq(Block)
  PROVE  /\ Content(a) \in Seq(Byte) /\ Len(Content(a)) = BlockBytes * Len(a)
         /\ \A i \in 1..(BlockBytes * Len(a)) :
              Content(a)[i] = <<a[((i - 1) \div BlockBytes) + 1], i>>
<1>1. PICK m \in Nat \ {0}, n \in Nat : m = BlockBytes /\ n = Len(a)
  BY BytesAssumption, LenProperties
<1>2. PICK l \in Nat : l = m * n
  OBVIOUS
<1> DEFINE e(i) == <<a[((i - 1) \div m) + 1], i>>
<1>3. ASSUME NEW i \in 1..l
      PROVE  e(i) \in Byte
  <2>1. ((i - 1) \div m) + 1 \in 1..n
    BY <1>2, BlockOf
  <2>2. a[((i - 1) \div m) + 1] \in Block /\ i \in Nat
    BY <1>1, <2>1, ElementOfSeq
  <2> QED
    BY <2>2 DEF Byte
<1>4. Content(a) = [i \in 1..l |-> e(i)]
  BY <1>1, <1>2 DEF Content
<1> HIDE DEF e
<1>5. [i \in 1..l |-> e(i)] \in Seq(Byte)
  BY <1>3, IsASeq
<1>6. Content(a) \in Seq(Byte) /\ Len(Content(a)) = l /\ \A i \in 1..l : Content(a)[i] = e(i)
  BY <1>4, <1>5, LenProperties
<1> QED
  BY <1>1, <1>2, <1>6 DEF e

\* The bytes of a file name its blocks.
LEMMA SameContent ==
  ASSUME NEW a \in Seq(Block), NEW b \in Seq(Block), Content(a) = Content(b)
  PROVE  a = b
<1>1. PICK m \in Nat \ {0}, k \in Nat, n \in Nat : m = BlockBytes /\ k = Len(a) /\ n = Len(b)
  BY BytesAssumption, LenProperties
<1>2. PICK c : c = Content(a) /\ c = Content(b)
  OBVIOUS
<1>3. Len(c) = m * k /\ \A i \in 1..(m * k) : c[i] = <<a[((i - 1) \div m) + 1], i>>
  BY <1>1, <1>2, ContentProperties
<1>4. Len(c) = m * n /\ \A i \in 1..(m * n) : c[i] = <<b[((i - 1) \div m) + 1], i>>
  BY <1>1, <1>2, ContentProperties
<1>5. k = n
  <2>1. m * k = m * n
    BY <1>3, <1>4
  <2> HIDE <1>3, <1>4
  <2>2. CASE k < n
    <3>1. m * k + m <= m * n
      <4>1. k + 1 <= n
        BY <2>2
      <4>2. m * (k + 1) <= m * n
        BY <4>1
      <4> QED
        BY <4>2
    <3> QED
      BY <2>1, <3>1
  <2>3. CASE n < k
    <3>1. m * n + m <= m * k
      <4>1. n + 1 <= k
        BY <2>3
      <4>2. m * (n + 1) <= m * k
        BY <4>1
      <4> QED
        BY <4>2
    <3> QED
      BY <2>1, <3>1
  <2> QED
    BY <2>2, <2>3
<1>6. ASSUME NEW j \in 1..k
      PROVE  a[j] = b[j]
  <2>1. PICK i \in Int : i = m * (j - 1) + 1
    OBVIOUS
  <2>2. i \in 1..(m * k)
    <3>1. m * j <= m * k
      OBVIOUS
    <3>2. m * (j - 1) >= 0 /\ m * (j - 1) = m * j - m
      OBVIOUS
    <3> QED
      BY <2>1, <3>1, <3>2
  <2>3. ((i - 1) \div m) + 1 = j
    <3>1. PICK d \in Nat : d = j - 1
      OBVIOUS
    <3>2. i - 1 = m * d
      BY <2>1, <3>1
    <3>3. (m * d) \div m = d
      OBVIOUS
    <3> QED
      BY <3>1, <3>2, <3>3
  <2>4. c[i] = <<a[j], i>> /\ c[i] = <<b[j], i>>
    BY <1>3, <1>4, <1>5, <2>2, <2>3
  <2> QED
    BY <2>4
<1>7. Len(a) = Len(b) /\ \A i \in 1..Len(a) : a[i] = b[i]
  BY <1>1, <1>5, <1>6
<1> QED
  BY <1>7, SeqEqual

-----------------------------------------------------------------------------
(* The hash decides.                                                       *)

\* What is verified was renamed into place and is still there.
Renamed == pc = "verify" => dest[file] # None

LEMMA RenamedStep == FetchInv /\ Renamed /\ [Next]_vars => Renamed'
<1> SUFFICES ASSUME FetchInv, Renamed, [Next]_vars PROVE Renamed'
  OBVIOUS
<1> USE DEF Renamed
<1>1. \A f \in File : Download(f) => Renamed'
  BY DEF Download
<1>2. \A res : Exit(res) => Renamed'
  BY DEF Exit
<1>3. CASE Run
  BY <1>3, <1>1 DEF Run, File
<1>4. CASE RangeUnsatisfiable \/ RequestFails \/ BodyFails
  BY <1>4, <1>2 DEF RangeUnsatisfiable, RequestFails, BodyFails, DownloadError
<1>5. CASE Respond \/ RangeRejected \/ Read \/ BodyEnds \/ Sync
  BY <1>5 DEF Respond, RangeRejected, Read, BodyEnds, Sync
<1>6. CASE Rename
  <2>1. file \in File /\ part[file] \in Seq(Block) /\ dest \in [File -> Seq(Block) \cup {None}]
    BY BodyFacts DEF FetchInv, TypeOK
  <2>2. dest'[file] = part[file]
    BY <1>6, <2>1 DEF Rename
  <2>3. dest'[file] # None
    BY <2>1, <2>2, NoneAssumption
  <2>4. CASE UNCHANGED call
    <3>1. file' = file
      BY <2>4 DEF call
    <3> QED
      BY <2>3, <3>1
  <2>5. CASE Exit("none")
    BY <2>5, <1>2
  <2> QED
    BY <1>6, <2>4, <2>5 DEF Rename
<1>7. CASE HashMatches \/ NoPointer
  BY <1>7, <1>1, <1>2 DEF HashMatches, NoPointer, GoOn, File
<1>8. CASE HashMismatch \/ PointerFails \/ TokenizerFetched \/ Crash
  BY <1>8, <1>2 DEF HashMismatch, PointerFails, TokenizerFetched, Crash
<1>9. CASE Publish \/ CalmDown \/ UNCHANGED vars
  <2>1. UNCHANGED <<pc, file, dest>>
    BY <1>9 DEF Publish, CalmDown, vars, call, disk
  <2> QED
    BY <2>1
<1> QED
  BY <1>3, <1>4, <1>5, <1>6, <1>7, <1>8, <1>9 DEF Next, Step

LEMMA Decides == FetchInv /\ Renamed => DigestDecides
<1> SUFFICES ASSUME FetchInv, Renamed, pc = "verify", file = "weights", NEW n \in ReadSizes
             PROVE  HashedBy(n, Content(dest[file])) = Whole64(Padded(Content(Whole(file, version))))
                      <=> dest[file] = Whole(file, version)
  BY DEF DigestDecides
<1>1. PICK d, w : d = dest[file] /\ w = Whole(file, version)
  OBVIOUS
<1>2. d \in Seq(Block)
  BY <1>1 DEF FetchInv, TypeOK, Renamed
<1>3. w \in Seq(Block)
  <2>1. PICK v \in Version, k \in Nat : v = version /\ k = Size(file, version)
    BY SizeType DEF FetchInv, TypeOK
  <2> DEFINE e(i) == <<v, i>>
  <2>2. \A i \in 1..k : e(i) \in Block
    BY DEF Block
  <2>3. w = [i \in 1..k |-> e(i)]
    BY <1>1, <2>1 DEF Whole
  <2> HIDE DEF e
  <2> QED
    BY <2>2, <2>3, IsASeq
<1>4. PICK x \in Seq(Byte), y \in Seq(Byte) : x = Content(d) /\ y = Content(w)
  BY <1>2, <1>3, ContentProperties
<1>5. n \in Nat \ {0}
  BY BytesAssumption
<1>6. HashedBy(n, x) = Whole64(Padded(x))
  BY <1>5, HashedIsPadded
<1>7. HashedBy(n, x) = Whole64(Padded(y)) <=> x = y
  BY <1>6, SamePadded
<1>8. x = y <=> d = w
  BY <1>2, <1>3, <1>4, SameContent
<1> QED
  BY <1>1, <1>4, <1>7, <1>8

\* sha256_file, in reads of any sizes, tells the published file from every
\* other one that download_file may have put together.
THEOREM HashDecides == Spec => []DigestDecides
<1>1. Init => Renamed
  BY DEF Init, Renamed
<1> QED
  BY <1>1, RenamedStep, Decides, FetchInvariant, PTL DEF Spec
=============================================================================
