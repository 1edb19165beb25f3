------------------------------- MODULE Fetch -------------------------------
(***************************************************************************)
(* The downloader: bin/fetch over download_file of hf.rs. A run fetches    *)
(* the weights into <file>.part, resuming what an earlier run left there,  *)
(* renames it, checks its hash, and then fetches tokenizer.json the same   *)
(* way unless there is one. Runs follow each other; any of them may crash, *)
(* and the server may answer badly or publish a new version in between.    *)
(*                                                                         *)
(* A file is a sequence of blocks <<v, i>>: block i of version v. An empty *)
(* .part counts as none, as in part_len.                                   *)
(***************************************************************************)
EXTENDS Integers, Sequences

CONSTANTS
  Version,    \* bound: the versions the server may ever publish, 1..n
  Size(_, _), \* the blocks of file f in version v
  None        \* no such file

File == {"weights", "tokenizer"}
Block == Version \X (Nat \ {0})
Whole(f, v) == [i \in 1..Size(f, v) |-> <<v, i>>]

ASSUME VersionAssumption == Version \subseteq Nat \ {0} /\ 1 \in Version
ASSUME SizeAssumption == \A f \in File, v \in Version : Size(f, v) \in Nat \ {0}
ASSUME NoneAssumption == None \notin Seq(Block)

VARIABLES
  \* the world
  version,    \* what the server serves
  lfs,        \* raw_url answers with a hash pointer (not 401, 404 or other text)
  calm,       \* from here on nothing goes wrong any more
  \* the disk
  part, dest, \* <file>.part and <file>
  \* the run
  pc,         \* "idle" between runs, "request", "body", "sync", "rename", "verify"
  file,       \* what download_file is fetching
  existing,   \* the length of the .part it found
  resume_from,\* the offset it asks for
  serving,    \* the version of the response body
  total,      \* the promised length, 0 if there was none
  done,       \* blocks on disk or on their way there
  buffered,   \* what BufWriter has not written yet
  result,     \* of the last run: "none" (crashed, running), "error", "saved", "unverified"
  \* history variables
  transferred,\* what download_file returned, or 0
  received,   \* blocks received by it
  rejected,   \* it met a server that ignored its range
  lengthless  \* files made from a body without a length

disk == <<part, dest>>
world == <<version, lfs, calm>>
call == <<file, existing, resume_from, serving, total, done, buffered>>
history == <<transferred, received, rejected, lengthless>>
vars == <<world, disk, pc, call, result, history>>

Init ==
  /\ version = 1 /\ lfs \in BOOLEAN /\ calm = FALSE
  /\ part = [f \in File |-> <<>>] /\ dest = [f \in File |-> None]
  /\ pc = "idle" /\ file = "weights" /\ existing = 0 /\ resume_from = 0
  /\ serving = 1 /\ total = 0 /\ done = 0 /\ buffered = <<>>
  /\ result = "none"
  /\ transferred = 0 /\ received = 0 /\ rejected = FALSE /\ lengthless = {}

-----------------------------------------------------------------------------
(* download_file: the request.                                             *)

\* Mutant of Download: the range starts one block too far.
DownloadBehindNext(f) ==
  /\ pc' = "request"
  /\ file' = f
  /\ existing' = Len(part[f])
  /\ resume_from' = IF part[f] = <<>> THEN 0 ELSE Len(part[f]) + 1
  /\ serving' = version /\ total' = 0 /\ done' = 0 /\ buffered' = <<>>
  /\ transferred' = 0 /\ received' = 0 /\ rejected' = FALSE

\* download_file is entered for f.
Download(f) ==
  /\ pc' = "request"
  /\ file' = f
  /\ existing' = Len(part[f]) /\ resume_from' = Len(part[f])
  /\ serving' = version /\ total' = 0 /\ done' = 0 /\ buffered' = <<>>
  /\ transferred' = 0 /\ received' = 0 /\ rejected' = FALSE

\* Mutant of Run: weights that are there are not fetched again.
RunUnlessPresent ==
  /\ pc = "idle" /\ dest["weights"] = None
  /\ Download("weights")
  /\ result' = "none"
  /\ UNCHANGED <<world, disk, lengthless>>

Run ==
  /\ pc = "idle"
  /\ Download("weights")
  /\ result' = "none"
  /\ UNCHANGED <<world, disk, lengthless>>

\* The run ends; download_file's locals die.
Exit(res) ==
  /\ pc' = "idle"
  /\ result' = res
  /\ file' = "weights" /\ existing' = 0 /\ resume_from' = 0
  /\ serving' = 1 /\ total' = 0 /\ done' = 0 /\ buffered' = <<>>

\* download_file returns an error. Of the weights it ends the run, of the
\* tokenizer it is a warning.
DownloadError ==
  /\ Exit(IF file = "weights" THEN "error" ELSE result)
  /\ UNCHANGED <<world, history>>

\* Mutant of Opened: the file is created anew, whatever the offset.
OpenedAnew(from) == <<>>

\* The body begins: what is on disk before the first block of it.
Opened(from) == IF from > 0 THEN part[file] ELSE <<>>

\* 200 to a request for all, 206 to one for the rest. Only a server that
\* misbehaves sends no length.
Respond ==
  /\ pc = "request"
  /\ resume_from < Size(file, version)
  /\ serving' = version
  /\ \E known \in BOOLEAN :
       /\ calm => known
       /\ total' = IF known THEN Size(file, version) ELSE 0
       /\ lengthless' = IF known THEN lengthless ELSE lengthless \cup {file}
  /\ done' = resume_from
  /\ part' = [part EXCEPT ![file] = Opened(resume_from)]
  /\ pc' = "body"
  /\ UNCHANGED <<world, dest, file, existing, resume_from, buffered, result,
                 transferred, received, rejected>>

\* 200 to a request for the rest: the .part is removed and all is asked for.
RangeRejected ==
  /\ pc = "request" /\ resume_from > 0 /\ ~calm
  /\ part' = [part EXCEPT ![file] = <<>>]
  /\ resume_from' = 0
  /\ rejected' = TRUE
  /\ UNCHANGED <<world, dest, pc, file, existing, serving, total, done, buffered,
                 result, transferred, received, lengthless>>

\* 416: there is nothing behind the offset. Any other failure of the request
\* is one error as well.
RangeUnsatisfiable ==
  /\ pc = "request" /\ resume_from >= Size(file, version)
  /\ DownloadError
  /\ UNCHANGED disk

RequestFails ==
  /\ pc = "request" /\ ~calm
  /\ DownloadError
  /\ UNCHANGED disk

-----------------------------------------------------------------------------
(* download_file: the body.                                                *)

\* A block is read and written, through a buffer that may be flushed.
Read ==
  /\ pc = "body" /\ done < Size(file, serving)
  /\ done' = done + 1
  /\ received' = received + 1
  /\ LET written == Append(buffered, <<serving, done + 1>>)
     IN \/ buffered' = written /\ UNCHANGED part
        \/ buffered' = <<>> /\ part' = [part EXCEPT ![file] = @ \o written]
  /\ UNCHANGED <<world, dest, pc, file, existing, resume_from, serving, total, result,
                 transferred, rejected, lengthless>>

\* Dropping the writer flushes it.
Flush == part' = [part EXCEPT ![file] = @ \o buffered]

\* Mutant of Accepted: any body that ends is complete.
AcceptedAnyLength == TRUE

Accepted == total = 0 \/ done = total

\* The body ends where it should, or the connection is closed early.
BodyEnds ==
  /\ pc = "body"
  /\ done = Size(file, serving) \/ ~calm
  /\ Accepted
  /\ pc' = "sync"
  /\ UNCHANGED <<world, disk, call, result, history>>

\* Reading fails, or the body ended too early. Behind the promised length there
\* is nothing left to read that could fail.
BodyFails ==
  /\ pc = "body" /\ ~calm
  /\ total = 0 \/ done < total
  /\ Flush /\ UNCHANGED dest
  /\ DownloadError

Sync ==
  /\ pc = "sync"
  /\ Flush
  /\ buffered' = <<>>
  /\ pc' = "rename"
  /\ UNCHANGED <<world, dest, file, existing, resume_from, serving, total, done, result, history>>

\* Mutant of Transferred: the whole file is counted.
TransferredAll == done

Transferred == done - existing

\* The .part becomes the file and download_file returns. A build with
\* overflow checks panics if the difference is negative.
Rename ==
  /\ pc = "rename"
  /\ dest' = [dest EXCEPT ![file] = part[file]]
  /\ part' = [part EXCEPT ![file] = <<>>]
  /\ transferred' = Transferred
  /\ \/ /\ pc' = "verify"
        /\ UNCHANGED <<call, result>>
     \/ /\ Transferred < 0
        /\ Exit("none")
  /\ UNCHANGED <<world, received, rejected, lengthless>>

-----------------------------------------------------------------------------
(* bin/fetch after a download.                                             *)

\* The tokenizer is next, unless it is there or was not asked for.
GoOn(res) ==
  /\ result' = res
  /\ UNCHANGED <<world, disk, lengthless>>
  /\ \/ dest["tokenizer"] = None /\ Download("tokenizer")
     \/ Exit(res) /\ UNCHANGED <<transferred, received, rejected>>

\* The hash of the weights is compared with the published one.
HashMatches ==
  /\ pc = "verify" /\ file = "weights" /\ lfs
  /\ dest[file] = Whole(file, version)
  /\ GoOn("saved")

HashMismatch ==
  /\ pc = "verify" /\ file = "weights" /\ lfs
  /\ dest[file] # Whole(file, version)
  /\ dest' = [dest EXCEPT ![file] = None]
  /\ Exit("error")
  /\ UNCHANGED <<world, part, history>>

NoPointer ==
  /\ pc = "verify" /\ file = "weights" /\ ~lfs
  /\ GoOn("unverified")

PointerFails ==
  /\ pc = "verify" /\ file = "weights" /\ ~calm
  /\ Exit("error")
  /\ UNCHANGED <<world, disk, history>>

TokenizerFetched ==
  /\ pc = "verify" /\ file = "tokenizer"
  /\ Exit(result)
  /\ UNCHANGED <<world, disk, history>>

-----------------------------------------------------------------------------
(* The world.                                                              *)

\* The process dies; what BufWriter holds is lost.
Crash ==
  /\ pc # "idle" /\ ~calm
  /\ Exit("none")
  /\ UNCHANGED <<world, disk, history>>

Publish ==
  /\ ~calm
  /\ \E v \in Version : v > version /\ version' = v
  /\ UNCHANGED <<lfs, calm, disk, pc, call, result, history>>

CalmDown ==
  /\ ~calm /\ calm' = TRUE
  /\ UNCHANGED <<version, lfs, disk, pc, call, result, history>>

Step ==
  \/ Respond \/ RangeRejected \/ RangeUnsatisfiable \/ RequestFails
  \/ Read \/ BodyEnds \/ BodyFails \/ Sync \/ Rename
  \/ HashMatches \/ HashMismatch \/ NoPointer \/ PointerFails \/ TokenizerFetched

Next == Run \/ Step \/ Crash \/ Publish \/ CalmDown

Spec == Init /\ [][Next]_vars

\* A run that did not end well is repeated.
Retry == Run /\ result \in {"none", "error"}

FairSpec == Spec /\ WF_vars(Step) /\ WF_vars(Retry)

-----------------------------------------------------------------------------
(* Properties.                                                             *)

\* Every variable keeps its type, the offset asked for is the length found or
\* zero, and a .part never outgrows the largest version of its file, however
\* often a download was resumed.
TypeOK ==
  /\ version \in Version /\ serving \in Version /\ lfs \in BOOLEAN /\ calm \in BOOLEAN
  /\ part \in [File -> Seq(Block)]
  /\ dest \in [File -> Seq(Block) \cup {None}]
  /\ pc \in {"idle", "request", "body", "sync", "rename", "verify"}
  /\ file \in File
  /\ existing \in Nat /\ resume_from \in {0, existing} /\ total \in Nat /\ done \in Nat
  /\ buffered \in Seq(Block)
  /\ result \in {"none", "error", "saved", "unverified"}
  /\ transferred \in Int /\ received \in Nat /\ rejected \in BOOLEAN
  /\ lengthless \subseteq File
  /\ \A f \in File : \E v \in Version : Len(part[f]) <= Size(f, v)

InOrder(blocks) == \A i \in DOMAIN blocks : blocks[i][2] = i

\* Through crashes, resumes and restarts no block is skipped, repeated or put
\* in a wrong place: what is on disk is a front piece, and while a body is read
\* the file is as long as the writer believes.
InPlace ==
  /\ \A f \in File : InOrder(part[f]) /\ (dest[f] # None => InOrder(dest[f]))
  /\ pc \in {"body", "sync", "rename"} =>
       /\ InOrder(part[file] \o buffered)
       /\ done = Len(part[file]) + Len(buffered)

\* A file is never published in part: unless a body came without a length, it
\* is as long as the version its end was taken from, and so it is that version
\* unless a resumed download put two versions together.
DestWhole ==
  \A f \in File \ lengthless :
    dest[f] # None =>
      /\ dest[f] # <<>>
      /\ LET v == dest[f][Len(dest[f])][1]
         IN /\ Len(dest[f]) = Size(f, v)
            /\ (\A i \in DOMAIN dest[f] : dest[f][i][1] = v) => dest[f] = Whole(f, v)

\* "Returns the number of bytes transferred this call": it does unless the
\* server ignored a range, which the subtraction of the old length forgets.
TransferCounted ==
  pc = "verify" /\ ~rejected => transferred = received

\* The file is one of the published versions.
Usable(f) == \E v \in Version : dest[f] = Whole(f, v)

\* A complete .part, left by a crash before the rename.
Stuck == Len(part["weights"]) >= Size("weights", version)

\* Once nothing goes wrong any more, repeated runs end with whole weights,
\* whatever the earlier ones left behind, with the one exception of Stuck.
Repaired == lfs /\ <>calm => <>[](Usable("weights") \/ Stuck)

\* "Stale/unsatisfiable partial: drop it and restart cleanly": without the
\* exception. The code breaks this: the branch matches only a server that
\* ignored the range, and one that refuses it answers 416.
Recovers == lfs /\ <>calm => <>[]Usable("weights")
=============================================================================
