---------------------------- MODULE JournalFile ----------------------------
(***************************************************************************)
(* The append-only journal of one recording session (sigan/src/journal.cpp *)
(* and journal.hpp) as operators on one value, shared by the state        *)
(* machines that own a journal.                                            *)
(*                                                                         *)
(* A record passes through three places: the journal's own buffer (buf_),  *)
(* the C library's FILE buffer (stdio) and the file.  A flush moves        *)
(* everything to the file; when the disk refuses, a prefix of it gets      *)
(* there, perhaps followed by half a record (Torn), and what the C library *)
(* keeps of the rest depends on the library: glibc keeps what it accepted  *)
(* and writes it with the next flush, others drop it.  A record the file   *)
(* holds half of, and whose other half is still kept, counts as kept.      *)
(***************************************************************************)
EXTENDS Naturals, Sequences, SequencesExt

CONSTANTS
  BufCapacity,  \* journal.cpp kBufCapacity, counted in records
  DiskFails     \* whether the disk may refuse a flush

ASSUME JournalFileAssumption ==
  /\ BufCapacity \in Nat \ {0}
  /\ DiskFails \in BOOLEAN

Frame(s)     == [tag |-> "Frame", seq |-> s]
StrokeEnd(s) == [tag |-> "StrokeEnd", seq |-> s]
Note         == [tag |-> "Note", seq |-> 0]
Torn         == [tag |-> "Torn", seq |-> 0]

Record  == [tag : {"Frame", "StrokeEnd", "Note", "Torn"}, seq : Nat]
Journal == [buf : Seq(Record), stdio : Seq(Record), file : Seq(Record),
            failed : BOOLEAN]

\* Journal::create truncates the file and leaves a header in it.
NewJournal == [buf |-> <<>>, stdio |-> <<>>, file |-> <<>>, failed |-> FALSE]

-----------------------------------------------------------------------------
(* Writing.  An outcome is the journal after the call and the bool the call *)
(* returned.                                                                *)

Pending(j) == j.stdio \o j.buf

Flushed(j) ==
  [buf |-> <<>>, stdio |-> <<>>, file |-> j.file \o Pending(j),
   failed |-> j.failed]

\* Mutant: the refusal is not remembered.
RefusedAndForgotten(j, n, k, half) ==
  [buf |-> <<>>, stdio |-> SubSeq(Pending(j), n + 1, k),
   file |-> j.file \o SubSeq(Pending(j), 1, n) \o half, failed |-> j.failed]

\* Mutant: the buffer is not emptied, and is written again with the next flush.
RefusedAndRepeated(j, n, k, half) ==
  [buf |-> j.buf, stdio |-> SubSeq(Pending(j), n + 1, k),
   file |-> j.file \o SubSeq(Pending(j), 1, n) \o half, failed |-> TRUE]

\* fwrite came up short or fflush failed: n records reached the file, the
\* library kept those up to k, the rest is gone with bufLen_ = 0.
RefusedAt(j, n, k, half) ==
  [buf    |-> <<>>,
   stdio  |-> SubSeq(Pending(j), n + 1, k),
   file   |-> j.file \o SubSeq(Pending(j), 1, n) \o half,
   failed |-> TRUE]

RefusedFlushes(j) ==
  {RefusedAt(j, n, k, <<>>) : n \in 0..(Len(Pending(j)) - 1),
                              k \in 0..Len(Pending(j))}
    \cup {RefusedAt(j, n, n, <<Torn>>) : n \in 0..(Len(Pending(j)) - 1)}

FlushOutcomes(j) ==
  {[journal |-> Flushed(j), ok |-> TRUE]}
    \cup {[journal |-> r, ok |-> FALSE] :
            r \in {x \in RefusedFlushes(j) : DiskFails}}

Buffered(j, r) ==
  [buf |-> Append(j.buf, r), stdio |-> j.stdio, file |-> j.file,
   failed |-> j.failed]

\* writeRecord: a full buffer is flushed first, and when that fails the
\* record is not taken.
WriteOutcomes(j, r) ==
  IF Len(j.buf) < BufCapacity
    THEN {[journal |-> Buffered(j, r), ok |-> TRUE]}
    ELSE {IF o.ok THEN [o EXCEPT !.journal = Buffered(@, r)] ELSE o :
            o \in FlushOutcomes(j)}

\* Mutant: a stroke end waits in the buffer like a frame.
StrokeEndUnflushed(j, s) == WriteOutcomes(j, StrokeEnd(s))

\* markStrokeEnd: writeRecord(StrokeEnd) && flush().
StrokeEndOutcomes(j, s) ==
  UNION {IF o.ok THEN FlushOutcomes(o.journal) ELSE {o} :
           o \in WriteOutcomes(j, StrokeEnd(s))}

\* What the file may hold when the process dies at some point of a flush of
\* j, the point before it included: buf_ and the FILE buffer die with it.
FilesAtDeath(j) ==
  {j.file \o SubSeq(Pending(j), 1, n) : n \in 0..Len(Pending(j))}
    \cup {j.file \o SubSeq(Pending(j), 1, n) \o <<Torn>> :
            n \in {m \in 0..Len(Pending(j)) : m < Len(Pending(j))}}

-----------------------------------------------------------------------------
(* Reading.                                                                 *)

IsFrame(r) == r.tag = "Frame"
IsEnd(r)   == r.tag = "StrokeEnd"

\* Journal::scan stops at the first record whose CRC does not match.
ReadableTo(file) ==
  LET torn == {i \in 1..Len(file) : file[i] = Torn}
  IN  IF torn = {} THEN Len(file) ELSE Min(torn) - 1

\* The numbers in `wanted` of the frames among the first n records.
FrameSeqs(file, n, wanted) ==
  LET upTo[i \in 0..n] ==
        IF i = 0 THEN <<>>
        ELSE IF IsFrame(file[i]) /\ file[i].seq \in wanted THEN Append(upTo[i - 1], file[i].seq)
        ELSE upTo[i - 1]
  IN  upTo[n]

\* JournalScan::frames.
ScanFrames(file) == FrameSeqs(file, ReadableTo(file), Nat)

\* Mutant: recovery hands out every frame it can read.
RecoveredUncut(file) == ScanFrames(file)

\* recoverJournal: the frames up to the last stroke end, completeCount.
Recovered(file) ==
  FrameSeqs(file, SelectLastInSubSeq(file, 1, ReadableTo(file), IsEnd), Nat)

\* Mutant: the last frame already sent is read again.
FramesFrom(file, after) == FrameSeqs(file, ReadableTo(file), {s \in Nat : s >= after})

\* Journal::framesAfter, once its flush has succeeded.
FramesAfter(file, after) == FrameSeqs(file, ReadableTo(file), {s \in Nat : s > after})
=============================================================================
