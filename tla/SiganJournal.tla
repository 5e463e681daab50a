---------------------------- MODULE SiganJournal ----------------------------
(***************************************************************************)
(* One recording session's journal driven by its publisher                 *)
(* (sigan/src/publisher.cpp publish / endStroke / pump, which number the   *)
(* frames and ignore what the journal returns), until the program closes   *)
(* it, is killed, or loses power.                                          *)
(*                                                                         *)
(* journal and seq are the program's; strokeEnds, accepted and acked are   *)
(* history: where strokes were ended, every record the journal took, and   *)
(* how many of them it had taken when it last confirmed a stroke end with  *)
(* failed() still false, which is what SiganRecorder::checkJournal sees.   *)
(***************************************************************************)
EXTENDS JournalFile

CONSTANTS
  MaxSeq,     \* bound: frames drawn in one session
  MaxNotes,   \* bound: notes written (one per handshake in the code)
  Ends        \* how the session may end: a subset of Endings

Endings == {"closed", "killed", "powerOff"}

ASSUME SiganJournalAssumption ==
  /\ MaxSeq \in Nat
  /\ MaxNotes \in Nat
  /\ Ends \subseteq Endings

VARIABLES journal, seq, strokeEnds, accepted, acked, notes, phase

vars == <<journal, seq, strokeEnds, accepted, acked, notes, phase>>

Init ==
  /\ journal = NewJournal
  /\ seq = 0
  /\ strokeEnds = {}
  /\ accepted = <<>>
  /\ acked = 0
  /\ notes = 0
  /\ phase = "open"

-----------------------------------------------------------------------------

\* publish: the number is used up whether or not the journal took the frame.
AppendFrame ==
  /\ phase = "open"
  /\ seq < MaxSeq
  /\ seq' = seq + 1
  /\ \E o \in WriteOutcomes(journal, Frame(seq + 1)) :
       /\ journal' = o.journal
       /\ accepted' = IF o.ok THEN Append(accepted, Frame(seq + 1)) ELSE accepted
  /\ UNCHANGED <<strokeEnds, acked, notes, phase>>

\* Mutant: the stroke counts as confirmed whatever the journal returned.
MarkStrokeEndUnasked ==
  /\ phase = "open"
  /\ seq > 0
  /\ seq \notin strokeEnds
  /\ strokeEnds' = strokeEnds \cup {seq}
  /\ \E o \in StrokeEndOutcomes(journal, seq) :
       /\ journal' = o.journal
       /\ accepted' = IF o.ok THEN Append(accepted, StrokeEnd(seq)) ELSE accepted
       /\ acked' = Len(accepted) + 1
  /\ UNCHANGED <<seq, notes, phase>>

\* endStroke: ends a stroke of at least one point.
MarkStrokeEnd ==
  /\ phase = "open"
  /\ seq > 0
  /\ seq \notin strokeEnds
  /\ strokeEnds' = strokeEnds \cup {seq}
  /\ \E o \in StrokeEndOutcomes(journal, seq) :
       /\ journal' = o.journal
       /\ accepted' = IF o.ok THEN Append(accepted, StrokeEnd(seq)) ELSE accepted
       /\ acked' = IF o.ok /\ ~o.journal.failed THEN Len(accepted') ELSE acked
  /\ UNCHANGED <<seq, notes, phase>>

\* The note pump() leaves after a handshake, answered or not.
AppendNote ==
  /\ phase = "open"
  /\ notes < MaxNotes
  /\ notes' = notes + 1
  /\ \E o \in WriteOutcomes(journal, Note) :
       /\ journal' = o.journal
       /\ accepted' = IF o.ok THEN Append(accepted, Note) ELSE accepted
  /\ UNCHANGED <<seq, strokeEnds, acked, phase>>

\* framesAfter flushes before it reads the file.
Flush ==
  /\ phase = "open"
  /\ \E o \in FlushOutcomes(journal) : journal' = o.journal
  /\ UNCHANGED <<seq, strokeEnds, accepted, acked, notes, phase>>

-----------------------------------------------------------------------------

\* The file is all that is left of the journal.
End(file, failed, how) ==
  /\ how \in Ends
  /\ journal' = [NewJournal EXCEPT !.file = file, !.failed = failed]
  /\ phase' = how
  /\ UNCHANGED <<seq, accepted, acked, notes>>

\* ~Journal: flush, then fclose, which tries once more what stdio still holds.
Close ==
  /\ phase = "open"
  /\ \E o \in FlushOutcomes(journal) : \E f \in FilesAtDeath(o.journal) :
       End(f, o.journal.failed, "closed")
  /\ UNCHANGED strokeEnds

\* The process dies between two calls or in the middle of one.
Kill ==
  /\ phase = "open"
  /\ \E f \in FilesAtDeath(journal) : End(f, journal.failed, "killed")
  /\ UNCHANGED strokeEnds

KillInStrokeEnd ==
  /\ phase = "open"
  /\ seq > 0
  /\ seq \notin strokeEnds
  /\ strokeEnds' = strokeEnds \cup {seq}
  /\ \E o \in WriteOutcomes(journal, StrokeEnd(seq)) :
       \E f \in FilesAtDeath(o.journal) : End(f, o.journal.failed, "killed")

\* Nothing is ever fsynced: the disk holds some prefix of the file.
PowerCut ==
  /\ phase = "open"
  /\ \E n \in 0..Len(journal.file) :
       End(SubSeq(journal.file, 1, n), journal.failed, "powerOff")
  /\ UNCHANGED strokeEnds

Next ==
  \/ AppendFrame \/ MarkStrokeEnd \/ AppendNote \/ Flush
  \/ Close \/ Kill \/ KillInStrokeEnd \/ PowerCut

Spec == Init /\ [][Next]_vars

-----------------------------------------------------------------------------

TypeOK ==
  /\ journal \in Journal
  /\ seq \in Nat
  /\ strokeEnds \subseteq Nat
  /\ accepted \in Seq(Record)
  /\ acked \in 0..Len(accepted)
  /\ notes \in Nat
  /\ phase \in {"open"} \cup Endings

\* While failed() is false nothing has been lost: the file followed by the
\* buffer is exactly what was handed over.  SiganRecorder trusts this flag and
\* nothing else when it decides whether drawing may go on.
HonestFailure ==
  phase = "open" /\ ~journal.failed =>
    journal.stdio = <<>> /\ journal.file \o journal.buf = accepted

\* A stroke end the recorder saw confirmed stays on file, with everything
\* before it, through every later disk failure, close or kill.
AckedStaysOnFile ==
  phase # "powerOff" =>
    /\ acked <= Len(journal.file)
    /\ \A i \in 1..acked : journal.file[i] = accepted[i]

\* Refused flushes may lose frames but what is read back is in drawing order
\* and nothing is read twice, although stdio may write late.
ReadInOrder ==
  LET f == ScanFrames(journal.file) IN
    /\ \A i \in 1..Len(f) : f[i] \in 1..seq
    /\ \A i \in 1..(Len(f) - 1) : f[i] < f[i + 1]

Ledger == INSTANCE StrokeLedger WITH
            points    <- seq,
            ends      <- strokeEnds,
            recovered <- Recovered(journal.file),
            alive     <- phase = "open",
            broken    <- journal.failed

\* As long as failed() is false the journal keeps the promise of StrokeLedger:
\* recovery returns whole strokes, and all that were confirmed unless the power
\* went, at whatever point the program ends.
KeepsLedger == Ledger!Spec
=============================================================================
