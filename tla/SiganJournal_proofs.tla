------------------------ MODULE SiganJournal_proofs ------------------------
(***************************************************************************)
(* HonestFailure and AckedStaysOnFile for every buffer size, every number  *)
(* of frames and notes, and every way a flush may be refused.  The two are *)
(* inductive together with the types: a stroke end is confirmed only while *)
(* failed() is false, and then the file is everything that was accepted;   *)
(* afterwards both only grow.                                              *)
(***************************************************************************)
EXTENDS SiganJournal, JournalFile_proofs, TLAPS

(* The inductive invariant.                                                 *)

IInv == TypeOK /\ HonestFailure /\ AckedStaysOnFile

\* A call that took some records and confirmed nothing.
LEMMA StepKeeps ==
  ASSUME IInv, phase = "open", phase' = "open", acked' = acked,
         NEW taken \in Seq(Record),
         Advances(journal, journal', taken),
         accepted' = accepted \o taken
  PROVE  /\ journal' \in Journal /\ accepted' \in Seq(Record)
         /\ acked' \in 0..Len(accepted')
         /\ HonestFailure' /\ AckedStaysOnFile'
<1>1. /\ journal \in Journal /\ journal' \in Journal
      /\ accepted \in Seq(Record) /\ acked \in 0..Len(accepted)
      /\ journal.file \in Seq(Record) /\ journal'.file \in Seq(Record)
  BY JournalFields DEF IInv, TypeOK, Advances
<1>2. accepted' \in Seq(Record) /\ Begins(accepted, accepted')
  BY <1>1, ConcatBegins
<1>3. acked' \in 0..Len(accepted')
  BY <1>1, <1>2 DEF Begins
<1>4. HonestFailure'
  <2>1. ~journal'.failed => ~journal.failed
    BY DEF Advances
  <2>2. ~journal'.failed => journal.stdio = <<>>
                            /\ journal.file \o journal.buf = accepted
    BY <2>1 DEF IInv, HonestFailure
  <2>3. ~journal'.failed => journal'.stdio = <<>>
                            /\ journal'.file \o journal'.buf = accepted \o taken
    BY <2>2 DEF Advances
  <2> QED BY <2>3 DEF HonestFailure
<1>5. AckedStaysOnFile'
  <2>1. /\ Begins(journal.file, journal'.file)
        /\ acked <= Len(journal.file)
        /\ \A i \in 1..acked : journal.file[i] = accepted[i]
    BY DEF IInv, AckedStaysOnFile, Advances
  <2>2. /\ acked \in Nat /\ Len(journal.file) \in Nat /\ Len(journal'.file) \in Nat
        /\ Len(accepted) \in Nat /\ acked <= Len(accepted)
    BY <1>1
  <2>3. acked <= Len(journal'.file)
    BY <2>1, <2>2 DEF Begins
  <2>4. ASSUME NEW i \in 1..acked PROVE journal'.file[i] = accepted'[i]
    BY <1>2, <2>1, <2>2 DEF Begins
  <2> QED BY <2>3, <2>4 DEF AckedStaysOnFile
<1> QED BY <1>1, <1>2, <1>3, <1>4, <1>5

\* The session is over and the file has at most grown.
LEMMA EndKeeps ==
  ASSUME IInv, phase = "open", NEW f \in Seq(Record), NEW failed \in BOOLEAN,
         NEW how, End(f, failed, how), strokeEnds' \subseteq Nat,
         how = "powerOff" \/ Begins(journal.file, f)
  PROVE  IInv'
<1>1. journal' = [buf |-> <<>>, stdio |-> <<>>, file |-> f, failed |-> failed]
  BY DEF End, NewJournal
<1>2. journal' \in Journal /\ journal'.file = f
  BY <1>1 DEF Journal
<1>3. phase' = how /\ how \in Endings
  BY SiganJournalAssumption DEF End
<1>4. TypeOK'
  BY <1>2, <1>3 DEF IInv, TypeOK, End
<1>5. HonestFailure'
  BY <1>3 DEF HonestFailure, Endings
<1>6. AckedStaysOnFile'
  <2>1. /\ journal.file \in Seq(Record) /\ accepted' = accepted
        /\ acked' = acked /\ acked \in Nat
    BY JournalFields DEF IInv, TypeOK, End
  <2> QED BY <1>2, <1>3, <2>1 DEF IInv, AckedStaysOnFile, Begins
<1> QED BY <1>4, <1>5, <1>6 DEF IInv

\* The invariant holds of a new journal.
LEMMA InitIInv == Init => IInv
<1> SUFFICES ASSUME Init PROVE IInv
  OBVIOUS
<1>1. journal = [buf |-> <<>>, stdio |-> <<>>, file |-> <<>>, failed |-> FALSE]
  BY DEF Init, NewJournal
<1>2. journal \in Journal /\ journal.stdio = <<>> /\ journal.file = <<>>
      /\ journal.buf = <<>>
  BY <1>1 DEF Journal
<1>3. accepted = <<>> /\ acked = 0 /\ Len(<<>>) = 0
  BY DEF Init
<1>4. TypeOK
  BY <1>2, <1>3 DEF Init, TypeOK
<1>5. HonestFailure
  BY <1>2, <1>3 DEF HonestFailure
<1>6. AckedStaysOnFile
  BY <1>2, <1>3 DEF AckedStaysOnFile
<1> QED BY <1>4, <1>5, <1>6 DEF IInv

\* endStroke: when the call is confirmed, file and accepted are equal.
LEMMA MarkStrokeEndKeeps == IInv /\ MarkStrokeEnd => IInv'
<1> SUFFICES ASSUME IInv, MarkStrokeEnd PROVE IInv'
  OBVIOUS
<1>1. /\ journal \in Journal /\ seq \in Nat /\ accepted \in Seq(Record)
      /\ acked \in Nat /\ strokeEnds \subseteq Nat
  BY DEF IInv, TypeOK
<1>2. PICK o \in StrokeEndOutcomes(journal, seq) :
        /\ journal' = o.journal
        /\ accepted' = IF o.ok THEN Append(accepted, StrokeEnd(seq)) ELSE accepted
        /\ acked' = IF o.ok /\ ~o.journal.failed THEN Len(accepted') ELSE acked
  BY DEF MarkStrokeEnd
<1>3. /\ o.ok \in BOOLEAN /\ journal' \in Journal
      /\ Begins(journal.file, journal'.file)
      /\ o.ok => /\ Advances(journal, journal', <<StrokeEnd(seq)>>)
                 /\ journal'.buf = <<>>
      /\ ~o.ok => journal'.failed
  BY <1>1, <1>2, StrokeEndAdvances
<1>4. PICK e \in Record : e = StrokeEnd(seq)
  BY <1>1, RecordTypes
<1>5. /\ strokeEnds' \subseteq Nat /\ seq' = seq /\ notes' = notes
      /\ phase = "open" /\ phase' = "open"
  BY <1>1 DEF MarkStrokeEnd, IInv, TypeOK
<1>6. accepted' \in Seq(Record) /\ Begins(accepted, accepted')
  <2>1. Append(accepted, e) \in Seq(Record) /\ Begins(accepted, Append(accepted, e))
    BY <1>1, AppendProperties DEF Begins
  <2>2. Begins(accepted, accepted)
    BY <1>1 DEF Begins
  <2> QED BY <1>1, <1>2, <1>3, <1>4, <2>1, <2>2
<1>7. CASE o.ok /\ ~journal'.failed
  <2>1. Advances(journal, journal', <<e>>) /\ journal'.buf = <<>>
    BY <1>3, <1>4, <1>7
  <2>2. ~journal.failed
    BY <1>7, <2>1 DEF Advances
  <2>3. journal.stdio = <<>> /\ journal.file \o journal.buf = accepted
    BY <1>5, <2>2 DEF IInv, HonestFailure
  <2>4. journal'.stdio = <<>> /\ journal'.file \o journal'.buf = accepted \o <<e>>
    BY <1>7, <2>1, <2>3 DEF Advances
  <2>5. accepted \o <<e>> = accepted'
    BY <1>1, <1>2, <1>4, <1>7, AppendIsConcat
  <2>6. journal'.file = accepted'
    <3>1. journal'.file \in Seq(Record)
      BY <1>3, JournalFields
    <3> QED BY <2>1, <2>4, <2>5, <3>1, ConcatEmptySeq
  <2>7. acked' = Len(accepted')
    BY <1>2, <1>7
  <2>8. TypeOK'
    BY <1>1, <1>3, <1>5, <1>6, <2>7 DEF IInv, TypeOK
  <2>9. HonestFailure'
    BY <2>4, <2>5 DEF HonestFailure
  <2>10. AckedStaysOnFile'
    BY <1>6, <2>6, <2>7 DEF AckedStaysOnFile
  <2> QED BY <2>8, <2>9, <2>10 DEF IInv
<1>8. CASE ~(o.ok /\ ~journal'.failed)
  <2>1. acked' = acked /\ journal'.failed
    BY <1>2, <1>3, <1>8
  <2>2. /\ acked <= Len(journal.file) /\ acked <= Len(accepted)
        /\ \A i \in 1..acked : journal.file[i] = accepted[i]
    BY <1>5 DEF IInv, AckedStaysOnFile, TypeOK
  <2>3. /\ Len(journal.file) \in Nat /\ Len(journal'.file) \in Nat
        /\ Len(accepted) \in Nat /\ Len(accepted') \in Nat
    BY <1>1, <1>3, <1>6, JournalFields
  <2>4. acked <= Len(journal'.file) /\ acked <= Len(accepted')
    BY <1>1, <1>3, <1>6, <2>2, <2>3 DEF Begins
  <2>5. ASSUME NEW i \in 1..acked PROVE journal'.file[i] = accepted'[i]
    BY <1>1, <1>3, <1>6, <2>2, <2>3 DEF Begins
  <2>6. TypeOK'
    BY <1>1, <1>3, <1>5, <1>6, <2>1, <2>3, <2>4 DEF IInv, TypeOK
  <2>7. HonestFailure'
    BY <2>1 DEF HonestFailure
  <2>8. AckedStaysOnFile'
    BY <2>1, <2>4, <2>5 DEF AckedStaysOnFile
  <2> QED BY <2>6, <2>7, <2>8 DEF IInv
<1> QED BY <1>7, <1>8

\* publish and the handshake notes: one record, and no confirmation.
LEMMA WriteKeeps ==
  ASSUME IInv, phase = "open", phase' = "open", acked' = acked,
         NEW r \in Record, NEW o \in WriteOutcomes(journal, r),
         journal' = o.journal,
         accepted' = IF o.ok THEN Append(accepted, r) ELSE accepted
  PROVE  /\ journal' \in Journal /\ accepted' \in Seq(Record)
         /\ acked' \in 0..Len(accepted')
         /\ HonestFailure' /\ AckedStaysOnFile'
<1>1. journal \in Journal /\ accepted \in Seq(Record)
  BY DEF IInv, TypeOK
<1>2. PICK taken \in Seq(Record) : taken = Taken(o, r)
  BY SingletonSeq, EmptySeq DEF Taken
<1>3. Advances(journal, journal', taken) /\ o.ok \in BOOLEAN
  BY <1>1, <1>2, WriteAdvances
<1>4. accepted' = accepted \o taken
  BY <1>1, <1>2, <1>3, AppendIsConcat, ConcatEmptySeq DEF Taken
<1> QED BY <1>3, <1>4, StepKeeps

\* Every step keeps the invariant.
LEMMA NextIInv == IInv /\ [Next]_vars => IInv'
<1> SUFFICES ASSUME IInv, [Next]_vars PROVE IInv'
  OBVIOUS
<1>0. /\ journal \in Journal /\ seq \in Nat /\ accepted \in Seq(Record)
      /\ notes \in Nat /\ strokeEnds \subseteq Nat
  BY DEF IInv, TypeOK
<1>1. CASE AppendFrame
  <2>1. PICK r \in Record : r = Frame(seq + 1)
    BY <1>0, RecordTypes
  <2>2. PICK o \in WriteOutcomes(journal, r) :
          /\ journal' = o.journal
          /\ accepted' = IF o.ok THEN Append(accepted, r) ELSE accepted
    BY <1>1, <2>1 DEF AppendFrame
  <2>3. /\ phase = "open" /\ phase' = "open" /\ acked' = acked
        /\ seq' = seq + 1 /\ notes' = notes /\ strokeEnds' = strokeEnds
    BY <1>1 DEF AppendFrame
  <2>4. /\ journal' \in Journal /\ accepted' \in Seq(Record)
        /\ acked' \in 0..Len(accepted')
        /\ HonestFailure' /\ AckedStaysOnFile'
    BY <2>2, <2>3, WriteKeeps
  <2> QED BY <1>0, <2>3, <2>4 DEF IInv, TypeOK
<1>2. CASE MarkStrokeEnd
  BY <1>2, MarkStrokeEndKeeps
<1>3. CASE AppendNote
  <2>1. PICK r \in Record : r = Note
    BY RecordTypes
  <2>2. PICK o \in WriteOutcomes(journal, r) :
          /\ journal' = o.journal
          /\ accepted' = IF o.ok THEN Append(accepted, r) ELSE accepted
    BY <1>3, <2>1 DEF AppendNote
  <2>3. /\ phase = "open" /\ phase' = "open" /\ acked' = acked
        /\ seq' = seq /\ notes' = notes + 1 /\ strokeEnds' = strokeEnds
    BY <1>3 DEF AppendNote
  <2>4. /\ journal' \in Journal /\ accepted' \in Seq(Record)
        /\ acked' \in 0..Len(accepted')
        /\ HonestFailure' /\ AckedStaysOnFile'
    BY <2>2, <2>3, WriteKeeps
  <2> QED BY <1>0, <2>3, <2>4 DEF IInv, TypeOK
<1>4. CASE Flush
  <2>1. PICK o \in FlushOutcomes(journal) : journal' = o.journal
    BY <1>4 DEF Flush
  <2>2. /\ phase = "open" /\ phase' = "open" /\ acked' = acked
        /\ seq' = seq /\ notes' = notes /\ strokeEnds' = strokeEnds
        /\ accepted' = accepted
    BY <1>4 DEF Flush
  <2>3. Advances(journal, journal', <<>>)
    BY <1>0, <2>1, FlushAdvances
  <2>4. accepted' = accepted \o <<>> /\ <<>> \in Seq(Record)
    BY <1>0, <2>2, ConcatEmptySeq, EmptySeq
  <2>5. /\ journal' \in Journal /\ accepted' \in Seq(Record)
        /\ acked' \in 0..Len(accepted')
        /\ HonestFailure' /\ AckedStaysOnFile'
    BY <2>2, <2>3, <2>4, StepKeeps
  <2> QED BY <1>0, <2>2, <2>5 DEF IInv, TypeOK
<1>5. CASE Close
  <2>1. PICK o \in FlushOutcomes(journal) :
          \E f \in FilesAtDeath(o.journal) : End(f, o.journal.failed, "closed")
    BY <1>5 DEF Close
  <2>2. o.journal \in Journal /\ Begins(journal.file, o.journal.file)
    BY <1>0, <2>1, FlushAdvances DEF Advances
  <2>3. PICK f \in FilesAtDeath(o.journal) : End(f, o.journal.failed, "closed")
    BY <2>1
  <2>4. f \in Seq(Record) /\ Begins(o.journal.file, f)
    BY <2>2, DeathBegins
  <2>5. Begins(journal.file, f) /\ o.journal.failed \in BOOLEAN
    BY <1>0, <2>2, <2>4, JournalFields, BeginsTransitive
  <2>6. phase = "open" /\ strokeEnds' \subseteq Nat
    BY <1>0, <1>5 DEF Close
  <2> QED BY <2>3, <2>4, <2>5, <2>6, EndKeeps
<1>6. CASE Kill
  <2>1. PICK f \in FilesAtDeath(journal) : End(f, journal.failed, "killed")
    BY <1>6 DEF Kill
  <2>2. f \in Seq(Record) /\ Begins(journal.file, f) /\ journal.failed \in BOOLEAN
    BY <1>0, <2>1, DeathBegins, JournalFields
  <2>3. phase = "open" /\ strokeEnds' \subseteq Nat
    BY <1>0, <1>6 DEF Kill
  <2> QED BY <2>1, <2>2, <2>3, EndKeeps
<1>7. CASE KillInStrokeEnd
  <2>1. PICK r \in Record : r = StrokeEnd(seq)
    BY <1>0, RecordTypes
  <2>2. PICK o \in WriteOutcomes(journal, r) :
          \E f \in FilesAtDeath(o.journal) : End(f, o.journal.failed, "killed")
    BY <1>7, <2>1 DEF KillInStrokeEnd
  <2>3. o.journal \in Journal /\ Begins(journal.file, o.journal.file)
    BY <1>0, <2>2, WriteAdvances DEF Advances
  <2>4. PICK f \in FilesAtDeath(o.journal) : End(f, o.journal.failed, "killed")
    BY <2>2
  <2>5. f \in Seq(Record) /\ Begins(o.journal.file, f)
    BY <2>3, DeathBegins
  <2>6. Begins(journal.file, f) /\ o.journal.failed \in BOOLEAN
    BY <1>0, <2>3, <2>5, JournalFields, BeginsTransitive
  <2>7. phase = "open" /\ strokeEnds' \subseteq Nat
    BY <1>0, <1>7 DEF KillInStrokeEnd
  <2> QED BY <2>4, <2>5, <2>6, <2>7, EndKeeps
<1>8. CASE PowerCut
  <2>1. PICK n \in 0..Len(journal.file) :
          End(SubSeq(journal.file, 1, n), journal.failed, "powerOff")
    BY <1>8 DEF PowerCut
  <2>2. journal.file \in Seq(Record) /\ journal.failed \in BOOLEAN
    BY <1>0, JournalFields
  <2>3. /\ 1 \in Int /\ n \in Int
        /\ \A i \in 1..n : journal.file[i] \in Record
    BY <2>1, <2>2, ElementOfSeq
  <2>4. SubSeq(journal.file, 1, n) \in Seq(Record)
    BY <2>3, SubSeqProperties
  <2>5. phase = "open" /\ strokeEnds' \subseteq Nat
    BY <1>0, <1>8 DEF PowerCut
  <2> QED BY <2>1, <2>2, <2>4, <2>5, EndKeeps
<1>9. CASE UNCHANGED vars
  BY <1>9 DEF vars, IInv, TypeOK, HonestFailure, AckedStaysOnFile
<1> QED BY <1>1, <1>2, <1>3, <1>4, <1>5, <1>6, <1>7, <1>8, <1>9 DEF Next

-----------------------------------------------------------------------------

\* Every variable keeps its type in every reachable state of a session.
THEOREM TypeCorrect == Spec => []TypeOK
<1>1. IInv => TypeOK
  BY DEF IInv
<1> QED BY <1>1, InitIInv, NextIInv, PTL DEF Spec

\* failed() false means nothing handed to the journal is missing
\* (SiganRecorder::checkJournal relies on it).
THEOREM FailureIsHonest == Spec => []HonestFailure
<1>1. IInv => HonestFailure
  BY DEF IInv
<1> QED BY <1>1, InitIInv, NextIInv, PTL DEF Spec

\* A confirmed stroke end outlives disk failures, close and kill
\* (docs/03 5.4 without the power cut).
THEOREM AckedSurvives == Spec => []AckedStaysOnFile
<1>1. IInv => AckedStaysOnFile
  BY DEF IInv
<1> QED BY <1>1, InitIInv, NextIInv, PTL DEF Spec

-----------------------------------------------------------------------------
(* The order of what is read back.  ReadInOrder looks at the file only; what *)
(* makes it hold is that file, stdio and buffer together never leave the     *)
(* order, so that whatever a later flush adds comes behind.                  *)

InOrder == FramesAscend(AllOf(journal), seq)

\* A dead journal is its file.
LEMMA EndOrdered ==
  ASSUME NEW f \in Seq(Record), NEW failed, NEW how, End(f, failed, how), FramesAscend(f, seq)
  PROVE  InOrder'
<1>1. journal' = [buf |-> <<>>, stdio |-> <<>>, file |-> f, failed |-> failed] /\ seq' = seq
  BY DEF End, NewJournal
<1>2. AllOf(journal') = f \o (<<>> \o <<>>)
  BY <1>1 DEF AllOf, Pending
<1>3. <<>> \o <<>> = <<>> /\ f \o <<>> = f
  BY ConcatEmptySeq, EmptySeq
<1> QED BY <1>1, <1>2, <1>3 DEF InOrder

\* A new journal holds no frame.
LEMMA InitOrdered == Init => InOrder
<1> SUFFICES ASSUME Init PROVE InOrder
  OBVIOUS
<1>1. journal = [buf |-> <<>>, stdio |-> <<>>, file |-> <<>>, failed |-> FALSE]
  BY DEF Init, NewJournal
<1>2. AllOf(journal) = <<>> \o (<<>> \o <<>>)
  BY <1>1 DEF AllOf, Pending
<1>3. <<>> \o <<>> = <<>> /\ Len(<<>>) = 0
  BY ConcatEmptySeq, EmptySeq
<1> QED BY <1>2, <1>3 DEF InOrder, FramesAscend

\* Every step keeps all that a journal has in order.
LEMMA NextOrdered == IInv /\ InOrder /\ [Next]_vars => InOrder'
<1> SUFFICES ASSUME IInv, InOrder, [Next]_vars PROVE InOrder'
  OBVIOUS
<1>0. journal \in Journal /\ seq \in Nat /\ FramesAscend(AllOf(journal), seq)
  BY DEF IInv, TypeOK, InOrder
<1>1. CASE AppendFrame
  <2>1. PICK r \in Record : r = Frame(seq + 1)
    BY <1>0, RecordTypes
  <2>2. PICK o \in WriteOutcomes(journal, r) : journal' = o.journal
    BY <1>1, <2>1 DEF AppendFrame
  <2>3. PICK m \in Nat : m = seq + 1 /\ seq' = m
    BY <1>0, <1>1 DEF AppendFrame
  <2>4. FramesAscend(AllOf(o.journal), m)
    BY <1>0, <2>1, <2>3, WriteOrdered
  <2> QED BY <2>2, <2>3, <2>4 DEF InOrder
<1>2. CASE MarkStrokeEnd
  <2>1. PICK o \in StrokeEndOutcomes(journal, seq) : journal' = o.journal
    BY <1>2 DEF MarkStrokeEnd
  <2>2. FramesAscend(AllOf(o.journal), seq)
    BY <1>0, StrokeEndOrdered
  <2> QED BY <1>2, <2>1, <2>2 DEF InOrder, MarkStrokeEnd
<1>3. CASE AppendNote
  <2>1. PICK r \in Record : r = Note
    BY RecordTypes
  <2>2. PICK o \in WriteOutcomes(journal, r) : journal' = o.journal
    BY <1>3, <2>1 DEF AppendNote
  <2>3. ~IsFrame(r)
    BY <2>1 DEF IsFrame, Note
  <2>4. FramesAscend(AllOf(o.journal), seq)
    BY <1>0, <2>3, WriteOrdered
  <2> QED BY <1>3, <2>2, <2>4 DEF InOrder, AppendNote
<1>4. CASE Flush
  <2>1. PICK o \in FlushOutcomes(journal) : journal' = o.journal
    BY <1>4 DEF Flush
  <2>2. FramesAscend(AllOf(o.journal), seq)
    BY <1>0, FlushOrdered
  <2> QED BY <1>4, <2>1, <2>2 DEF InOrder, Flush
<1>5. CASE Close
  <2>1. PICK o \in FlushOutcomes(journal) :
          \E f \in FilesAtDeath(o.journal) : End(f, o.journal.failed, "closed")
    BY <1>5 DEF Close
  <2>2. o.journal \in Journal /\ FramesAscend(AllOf(o.journal), seq)
    BY <1>0, FlushOrdered
  <2>3. PICK f \in FilesAtDeath(o.journal) : End(f, o.journal.failed, "closed")
    BY <2>1
  <2>4. f \in Seq(Record) /\ FramesAscend(f, seq)
    BY <2>2, DeathOrdered
  <2> QED BY <2>3, <2>4, EndOrdered
<1>6. CASE Kill
  <2>1. PICK f \in FilesAtDeath(journal) : End(f, journal.failed, "killed")
    BY <1>6 DEF Kill
  <2>2. f \in Seq(Record) /\ FramesAscend(f, seq)
    BY <1>0, DeathOrdered
  <2> QED BY <2>1, <2>2, EndOrdered
<1>7. CASE KillInStrokeEnd
  <2>1. PICK r \in Record : r = StrokeEnd(seq)
    BY <1>0, RecordTypes
  <2>2. PICK o \in WriteOutcomes(journal, r) :
          \E f \in FilesAtDeath(o.journal) : End(f, o.journal.failed, "killed")
    BY <1>7, <2>1 DEF KillInStrokeEnd
  <2>3. ~IsFrame(r)
    BY <2>1 DEF IsFrame, StrokeEnd
  <2>4. o.journal \in Journal /\ FramesAscend(AllOf(o.journal), seq)
    BY <1>0, <2>3, WriteOrdered
  <2>5. PICK f \in FilesAtDeath(o.journal) : End(f, o.journal.failed, "killed")
    BY <2>2
  <2>6. f \in Seq(Record) /\ FramesAscend(f, seq)
    BY <2>4, DeathOrdered
  <2> QED BY <2>5, <2>6, EndOrdered
<1>8. CASE PowerCut
  <2>1. PICK n \in 0..Len(journal.file) :
          End(SubSeq(journal.file, 1, n), journal.failed, "powerOff")
    BY <1>8 DEF PowerCut
  <2>2. PICK f \in Seq(Record) : f = journal.file
    BY <1>0, JournalFields
  <2>3. FramesAscend(f, seq)
    BY <1>0, <2>2, FileOrdered
  <2>4. PICK g : g = SubSeq(f, 1, n)
    OBVIOUS
  <2>5. n \in 0..Len(f)
    BY <2>1, <2>2
  <2>6. g \in Seq(Record) /\ FramesAscend(g, seq)
    BY <2>3, <2>4, <2>5, CutOrdered
  <2> QED BY <2>1, <2>2, <2>4, <2>6, EndOrdered
<1>9. CASE UNCHANGED vars
  BY <1>9 DEF vars, InOrder
<1> QED BY <1>1, <1>2, <1>3, <1>4, <1>5, <1>6, <1>7, <1>8, <1>9 DEF Next

\* What is read of a file in order is in order.
LEMMA OrderIsRead == IInv /\ InOrder => ReadInOrder
<1> SUFFICES ASSUME IInv, InOrder PROVE ReadInOrder
  OBVIOUS
<1>1. journal \in Journal /\ seq \in Nat /\ FramesAscend(AllOf(journal), seq)
  BY DEF IInv, TypeOK, InOrder
<1>2. PICK file \in Seq(Record) : file = journal.file
  BY <1>1, JournalFields
<1>3. FramesAscend(file, seq)
  BY <1>1, <1>2, FileOrdered
<1>4. PICK f : f = ScanFrames(file)
  OBVIOUS
<1>5. /\ f \in Seq(Nat)
      /\ \A i \in 1..Len(f) : f[i] \in 1..seq
      /\ \A i, k \in 1..Len(f) : i < k => f[i] < f[k]
  BY <1>3, <1>4, ScanInOrder
<1>6. \A i \in 1..(Len(f) - 1) : f[i] < f[i + 1]
  <2>1. PICK l \in Nat : l = Len(f)
    BY <1>5, LenProperties
  <2>2. \A i \in 1..(l - 1) : i \in 1..l /\ i + 1 \in 1..l /\ i < i + 1
    BY <2>1
  <2> QED BY <1>5, <2>1, <2>2
<1> QED BY <1>2, <1>4, <1>5, <1>6 DEF ReadInOrder

\* What Journal::scan reads back are numbers the session gave out, each at most
\* once and in drawing order, whatever the disk refused and however the session
\* ended (a refused flush may leave the C library holding records that the next
\* one writes).
THEOREM FramesReadInOrder == Spec => []ReadInOrder
<1>1. Spec => [](IInv /\ InOrder)
  BY InitIInv, NextIInv, InitOrdered, NextOrdered, PTL DEF Spec
<1> QED BY <1>1, OrderIsRead, PTL

-----------------------------------------------------------------------------
(* The refinement.  A step that leaves failed() down is a step of the ledger *)
(* because until then nothing of the session is missing and every stroke end *)
(* is on file, from which recovery reads the numbers 1, 2, ... up to it.     *)

LInv == phase = "open" /\ ~journal.failed => Sound(journal, seq, strokeEnds)

\* The flag is never taken back, and while it is down nothing is lost.
LEMMA NextSound == IInv /\ LInv /\ [Next]_vars => LInv'
<1> SUFFICES ASSUME IInv, LInv, [Next]_vars, phase' = "open", ~journal'.failed
             PROVE  Sound(journal', seq', strokeEnds')
  BY DEF LInv
<1>0. journal \in Journal /\ seq \in Nat /\ strokeEnds \subseteq Nat
  BY DEF IInv, TypeOK
<1>1. CASE AppendFrame
  <2>1. PICK r \in Record : r = Frame(seq + 1)
    BY <1>0, RecordTypes
  <2>2. PICK o \in WriteOutcomes(journal, r) : journal' = o.journal
    BY <1>1, <2>1 DEF AppendFrame
  <2>3. PICK m \in Nat : m = seq + 1 /\ seq' = m /\ phase = "open" /\ strokeEnds' = strokeEnds
    BY <1>0, <1>1 DEF AppendFrame
  <2>4. ~journal.failed
    BY <1>0, <2>2, WriteAdvances DEF Advances
  <2>5. Follows(r, seq, m) /\ ~IsEnd(r)
    BY <1>0, <2>1, <2>3, Tags DEF Follows
  <2>6. Sound(journal, seq, strokeEnds)
    BY <2>3, <2>4 DEF LInv
  <2>7. Sound(o.journal, m, strokeEnds)
    BY <1>0, <2>2, <2>5, <2>6, WriteSound
  <2> QED BY <2>2, <2>3, <2>7
<1>2. CASE MarkStrokeEnd
  <2>1. PICK o \in StrokeEndOutcomes(journal, seq) : journal' = o.journal
    BY <1>2 DEF MarkStrokeEnd
  <2>2. phase = "open" /\ seq' = seq /\ strokeEnds' = strokeEnds \cup {seq}
    BY <1>2 DEF MarkStrokeEnd
  <2>3. ~journal.failed
    BY <1>0, <2>1, StrokeEndNeverClears
  <2>4. Sound(journal, seq, strokeEnds)
    BY <2>2, <2>3 DEF LInv
  <2>5. Sound(o.journal, seq, strokeEnds \cup {seq})
    BY <1>0, <2>1, <2>4, StrokeEndSound
  <2> QED BY <2>1, <2>2, <2>5
<1>3. CASE AppendNote
  <2>1. PICK r \in Record : r = Note
    BY RecordTypes
  <2>2. PICK o \in WriteOutcomes(journal, r) : journal' = o.journal
    BY <1>3, <2>1 DEF AppendNote
  <2>3. phase = "open" /\ seq' = seq /\ strokeEnds' = strokeEnds
    BY <1>3 DEF AppendNote
  <2>4. ~journal.failed
    BY <1>0, <2>2, WriteAdvances DEF Advances
  <2>5. Follows(r, seq, seq) /\ ~IsEnd(r)
    BY <2>1, Tags DEF Follows
  <2>6. Sound(journal, seq, strokeEnds)
    BY <2>3, <2>4 DEF LInv
  <2>7. Sound(o.journal, seq, strokeEnds)
    BY <1>0, <2>2, <2>5, <2>6, WriteSound
  <2> QED BY <2>2, <2>3, <2>7
<1>4. CASE Flush
  <2>1. PICK o \in FlushOutcomes(journal) : journal' = o.journal
    BY <1>4 DEF Flush
  <2>2. phase = "open" /\ seq' = seq /\ strokeEnds' = strokeEnds
    BY <1>4 DEF Flush
  <2>3. ~journal.failed
    BY <1>0, <2>1, FlushAdvances DEF Advances
  <2>4. Sound(journal, seq, strokeEnds)
    BY <2>2, <2>3 DEF LInv
  <2>5. Sound(o.journal, seq, strokeEnds)
    BY <1>0, <2>1, <2>4, FlushSound
  <2> QED BY <2>1, <2>2, <2>5
<1>5. CASE Close \/ Kill \/ KillInStrokeEnd \/ PowerCut
  <2>1. phase' \in Ends
    BY <1>5 DEF Close, Kill, KillInStrokeEnd, PowerCut, End
  <2> QED BY <2>1, SiganJournalAssumption DEF Endings
<1>6. CASE UNCHANGED vars
  BY <1>6 DEF vars, LInv
<1> QED BY <1>1, <1>2, <1>3, <1>4, <1>5, <1>6 DEF Next

\* A new journal recovers to an empty ledger.
LEMMA InitLedger == Init => LInv /\ Ledger!Init
<1> SUFFICES ASSUME Init PROVE LInv /\ Ledger!Init
  OBVIOUS
<1>1. journal = NewJournal /\ seq = 0 /\ strokeEnds = {} /\ phase = "open"
  BY DEF Init
<1>2. Sound(journal, 0, strokeEnds) /\ Recovered(journal.file) = <<>>
  BY <1>1, NewSound
<1>3. journal.failed = FALSE
  BY <1>1 DEF NewJournal
<1> QED BY <1>1, <1>2, <1>3 DEF LInv, Ledger!Init

\* What an ending leaves of the journal.
LEMMA EndIs ==
  ASSUME NEW f, NEW failed, NEW how, End(f, failed, how)
  PROVE  /\ journal'.file = f /\ journal'.failed = failed
         /\ (phase' = "open") = FALSE /\ seq' = seq
<1>1. journal' = [buf |-> <<>>, stdio |-> <<>>, file |-> f, failed |-> failed] /\ seq' = seq
  BY DEF End, NewJournal
<1>2. phase' \in Endings
  BY SiganJournalAssumption DEF End
<1> QED BY <1>1, <1>2 DEF Endings

\* Every step is one of the ledger's, or changes nothing the ledger shows.
LEMMA NextLedger == IInv /\ LInv /\ [Next]_vars => [Ledger!Next]_(Ledger!vars)
<1> SUFFICES ASSUME IInv, LInv, [Next]_vars PROVE Ledger!Next \/ UNCHANGED Ledger!vars
  OBVIOUS
<1>0. /\ journal \in Journal /\ seq \in Nat /\ strokeEnds \subseteq Nat
      /\ journal.failed \in BOOLEAN
  BY JournalFields DEF IInv, TypeOK
<1>1. CASE UNCHANGED vars
  <2>1. UNCHANGED Ledger!vars
    BY <1>1 DEF vars, Ledger!vars, Ledger!ledger
  <2> QED BY <2>1
<1>2. CASE journal'.failed
  BY <1>2 DEF Ledger!Next
<1>3. CASE Next /\ ~journal'.failed
  <2> SUFFICES ASSUME phase = "open", ~journal.failed, Sound(journal, seq, strokeEnds)
               PROVE  \/ Ledger!Point \/ Ledger!Seal \/ Ledger!Stop \/ Ledger!PowerLoss
                      \/ UNCHANGED <<seq, strokeEnds, Recovered(journal.file), phase>>
    <3>1. phase = "open"
      BY <1>3 DEF Next, AppendFrame, MarkStrokeEnd, AppendNote, Flush, Close, Kill, KillInStrokeEnd, PowerCut
    <3>2. ~journal.failed
      <4>1. CASE AppendFrame
        <5>1. PICK r \in Record : r = Frame(seq + 1)
          BY <1>0, RecordTypes
        <5>2. PICK o \in WriteOutcomes(journal, r) : journal' = o.journal
          BY <4>1, <5>1 DEF AppendFrame
        <5> QED BY <1>0, <1>3, <5>2, WriteAdvances DEF Advances
      <4>2. CASE MarkStrokeEnd
        BY <1>0, <1>3, <4>2, StrokeEndNeverClears DEF MarkStrokeEnd
      <4>3. CASE AppendNote
        <5>1. PICK r \in Record : r = Note
          BY RecordTypes
        <5>2. PICK o \in WriteOutcomes(journal, r) : journal' = o.journal
          BY <4>3, <5>1 DEF AppendNote
        <5> QED BY <1>0, <1>3, <5>2, WriteAdvances DEF Advances
      <4>4. CASE Flush
        BY <1>0, <1>3, <4>4, FlushAdvances DEF Flush, Advances
      <4>5. CASE Close
        <5>1. PICK o \in FlushOutcomes(journal) : \E f : End(f, o.journal.failed, "closed")
          BY <4>5 DEF Close
        <5>2. PICK x : x = o.journal.failed
          OBVIOUS
        <5>3. PICK f : End(f, x, "closed")
          BY <5>1, <5>2
        <5>4. journal'.failed = x
          BY <5>3, EndIs
        <5> QED BY <1>0, <1>3, <5>1, <5>2, <5>4, FlushAdvances DEF Advances
      <4>6. CASE Kill
        <5>1. PICK f : End(f, journal.failed, "killed")
          BY <4>6 DEF Kill
        <5> QED BY <1>3, <5>1, EndIs
      <4>7. CASE KillInStrokeEnd
        <5>1. PICK r \in Record : r = StrokeEnd(seq)
          BY <1>0, RecordTypes
        <5>2. PICK o \in WriteOutcomes(journal, r) : \E f : End(f, o.journal.failed, "killed")
          BY <4>7, <5>1 DEF KillInStrokeEnd
        <5>3. PICK x : x = o.journal.failed
          OBVIOUS
        <5>4. PICK f : End(f, x, "killed")
          BY <5>2, <5>3
        <5>5. journal'.failed = x
          BY <5>4, EndIs
        <5> QED BY <1>0, <1>3, <5>2, <5>3, <5>5, WriteAdvances DEF Advances
      <4>8. CASE PowerCut
        <5>1. PICK f : End(f, journal.failed, "powerOff")
          BY <4>8 DEF PowerCut
        <5> QED BY <1>3, <5>1, EndIs
      <4> QED BY <1>3, <4>1, <4>2, <4>3, <4>4, <4>5, <4>6, <4>7, <4>8 DEF Next
    <3>3. Sound(journal, seq, strokeEnds)
      BY <3>1, <3>2 DEF LInv
    <3>4. journal'.failed = journal.failed
      <4>1. journal'.failed \in BOOLEAN
        BY NextIInv, JournalFields DEF IInv, TypeOK
      <4> QED BY <1>0, <1>3, <3>2, <4>1
    <3> QED BY <3>1, <3>2, <3>3, <3>4 DEF Ledger!Next, Ledger!Kept, Ledger!vars, Ledger!ledger
  <2>1. CASE AppendFrame
    <3>1. PICK r \in Record : r = Frame(seq + 1)
      BY <1>0, RecordTypes
    <3>2. PICK o \in WriteOutcomes(journal, r) : journal' = o.journal
      BY <2>1, <3>1 DEF AppendFrame
    <3>3. PICK m \in Nat : m = seq + 1 /\ seq' = m
      BY <1>0, <2>1 DEF AppendFrame
    <3>4. Follows(r, seq, m) /\ ~IsEnd(r)
      BY <1>0, <3>1, <3>3, Tags DEF Follows
    <3>5. Recovered(journal'.file) = Recovered(journal.file)
      BY <1>0, <1>3, <3>2, <3>4, WriteSound
    <3> QED BY <2>1, <3>3, <3>5 DEF AppendFrame, Ledger!Point
  <2>2. CASE MarkStrokeEnd
    <3>1. PICK o \in StrokeEndOutcomes(journal, seq) : journal' = o.journal
      BY <2>2 DEF MarkStrokeEnd
    <3>2. Recovered(journal'.file) = [i \in 1..seq |-> i]
      BY <1>0, <1>3, <3>1, StrokeEndSound
    <3> QED BY <2>2, <3>2 DEF MarkStrokeEnd, Ledger!Seal, Ledger!UpTo
  <2>3. CASE AppendNote
    <3>1. PICK r \in Record : r = Note
      BY RecordTypes
    <3>2. PICK o \in WriteOutcomes(journal, r) : journal' = o.journal
      BY <2>3, <3>1 DEF AppendNote
    <3>3. Follows(r, seq, seq) /\ ~IsEnd(r)
      BY <3>1, Tags DEF Follows
    <3>4. Recovered(journal'.file) = Recovered(journal.file)
      BY <1>0, <1>3, <3>2, <3>3, WriteSound
    <3> QED BY <2>3, <3>4 DEF AppendNote
  <2>4. CASE Flush
    <3>1. PICK o \in FlushOutcomes(journal) : journal' = o.journal
      BY <2>4 DEF Flush
    <3>2. Recovered(journal'.file) = Recovered(journal.file)
      BY <1>0, <1>3, <3>1, FlushSound
    <3> QED BY <2>4, <3>2 DEF Flush
  <2>5. CASE Close
    <3>1. PICK o \in FlushOutcomes(journal) :
            \E f \in FilesAtDeath(o.journal) : End(f, o.journal.failed, "closed")
      BY <2>5 DEF Close
    <3>2. PICK f \in FilesAtDeath(o.journal) : End(f, o.journal.failed, "closed")
      BY <3>1
    <3>3. journal'.file = f /\ ~o.journal.failed /\ (phase' = "open") = FALSE /\ seq' = seq
      BY <1>3, <3>2, EndIs
    <3>4. /\ o.journal \in Journal /\ Sound(o.journal, seq, strokeEnds)
          /\ Recovered(o.journal.file) = Recovered(journal.file)
      BY <1>0, <3>1, <3>3, FlushSound
    <3>5. Recovered(f) = Recovered(o.journal.file)
      BY <1>0, <3>2, <3>4, DeathSound
    <3> QED BY <2>5, <3>3, <3>4, <3>5 DEF Close, Ledger!Stop
  <2>6. CASE Kill
    <3>1. PICK f \in FilesAtDeath(journal) : End(f, journal.failed, "killed")
      BY <2>6 DEF Kill
    <3>2. journal'.file = f /\ (phase' = "open") = FALSE /\ seq' = seq
      BY <3>1, EndIs
    <3>3. Recovered(f) = Recovered(journal.file)
      BY <1>0, <3>1, DeathSound
    <3> QED BY <2>6, <3>2, <3>3 DEF Kill, Ledger!Stop
  <2>7. CASE KillInStrokeEnd
    <3>1. PICK r \in Record : r = StrokeEnd(seq)
      BY <1>0, RecordTypes
    <3>2. PICK o \in WriteOutcomes(journal, r) :
            \E f \in FilesAtDeath(o.journal) : End(f, o.journal.failed, "killed")
      BY <2>7, <3>1 DEF KillInStrokeEnd
    <3>3. PICK f \in FilesAtDeath(o.journal) : End(f, o.journal.failed, "killed")
      BY <3>2
    <3>4. journal'.file = f /\ ~o.journal.failed /\ (phase' = "open") = FALSE /\ seq' = seq
      BY <1>3, <3>3, EndIs
    <3>5. Recovered(f) = Recovered(journal.file) \/ Recovered(f) = [i \in 1..seq |-> i]
      BY <1>0, <3>1, <3>2, <3>3, <3>4, DeathInStrokeEnd
    <3> QED BY <2>7, <3>4, <3>5 DEF KillInStrokeEnd, Ledger!Stop, Ledger!UpTo
  <2>8. CASE PowerCut
    <3>1. PICK n \in 0..Len(journal.file) :
            End(SubSeq(journal.file, 1, n), journal.failed, "powerOff")
      BY <2>8 DEF PowerCut
    <3>2. PICK f, g : f = journal.file /\ g = SubSeq(f, 1, n)
      OBVIOUS
    <3>3. journal'.file = g /\ (phase' = "open") = FALSE /\ seq' = seq
      BY <3>1, <3>2, EndIs
    <3>4. PICK s \in strokeEnds \cup {0}, t \in strokeEnds \cup {0} :
            /\ s \in Nat /\ t \in Nat /\ s <= t
            /\ Recovered(g) = [i \in 1..s |-> i]
            /\ Recovered(f) = [i \in 1..t |-> i]
      <4>1. n \in 0..Len(f) /\ f = journal.file /\ g = SubSeq(f, 1, n)
        BY <3>1, <3>2
      <4>2. RecoversLess(g, f, strokeEnds)
        BY <1>0, <4>1, CutSound
      <4> QED BY <4>2 DEF RecoversLess
    <3>5. Len(Recovered(f)) = t
      BY <3>4
    <3>6. s \in strokeEnds \cup {0} /\ s <= Len(Recovered(journal.file)) /\ Recovered(journal'.file) = [i \in 1..s |-> i]
      BY <3>2, <3>3, <3>4, <3>5
    <3> QED BY <2>8, <3>3, <3>6 DEF PowerCut, Ledger!PowerLoss, Ledger!UpTo
  <2> QED BY <1>3, <2>1, <2>2, <2>3, <2>4, <2>5, <2>6, <2>7, <2>8 DEF Next
<1> QED BY <1>1, <1>2, <1>3

\* As long as failed() is false the journal keeps what it promises the person who
\* draws (journal.hpp, docs/03 5.4): however the program ends, recovery returns
\* whole strokes, and all the finished ones unless the power went.
THEOREM PromiseKept == Spec => KeepsLedger
<1>1. Spec => [](IInv /\ LInv)
  BY InitIInv, NextIInv, InitLedger, NextSound, PTL DEF Spec
<1>2. Init => Ledger!Init
  BY InitLedger
<1>3. IInv /\ LInv /\ [Next]_vars => [Ledger!Next]_(Ledger!vars)
  BY NextLedger
<1> QED BY <1>1, <1>2, <1>3, PTL DEF Spec, KeepsLedger, Ledger!Spec
=============================================================================
