--------------------------- MODULE SiganPublisher ---------------------------
(***************************************************************************)
(* The evidence publisher (sigan/src/publisher.cpp), the pipe it writes to *)
(* (sigan/src/pipe_sink.cpp) and, as an external party, the Sigan process  *)
(* that reads the other end, may stop and may start again.                 *)
(*                                                                         *)
(* One thread draws and pumps; Sigan runs beside it.  publish, endStroke   *)
(* and the two halves of pump are one action each, and resendBacklog is    *)
(* one action per write, so that Sigan reads, or dies, between two writes. *)
(* The backlog's flush and scan happen before the first write, as in the   *)
(* code: what framesAfter returned is used however long the writes take.   *)
(***************************************************************************)
EXTENDS JournalFile, FiniteSets

CONSTANTS
  MaxSeq,           \* bound: frames drawn
  MaxStops,         \* bound: how often Sigan stops
  PipeFrames,       \* whole frames the pipe holds before a write comes up short
  PeerAnswers,      \* what Sigan may do in a handshake
  PumpedWhenIdle    \* whether anyone calls pump() after SiganRecorder::open

\* resume: answers with the first frame it misses; plain: answers and asks for
\* nothing; silent: no answer within the time limit.
Answers == {"resume", "plain", "silent"}

ASSUME SiganPublisherAssumption ==
  /\ MaxSeq \in Nat
  /\ MaxStops \in Nat
  /\ PipeFrames \in Nat \ {0}
  /\ PeerAnswers \subseteq Answers
  /\ PumpedWhenIdle \in BOOLEAN

VARIABLES
  journal,    \* journal_, the record everything enters first
  seq,        \* seq_, and stats_.published, which moves with it
  sentSeq,    \* sentSeq_
  sent,       \* stats_.sent
  spooled,    \* stats_.spooled
  ended,      \* seq at the last endStroke
  backlog,    \* resendBacklog: the frames still to write
  pc,         \* "opening", "idle" or "resend"
  sink,       \* the connection as Mari's end knows it, and the bytes in it
  peerUp,     \* whether a Sigan process is listening
  stops,      \* how often it has stopped
  have        \* the frames it has read and keeps, across its restarts

publisher == <<journal, seq, sentSeq, sent, spooled, ended, backlog, pc>>
peer      == <<peerUp, stops, have>>
vars      == <<publisher, sink, peer>>

-----------------------------------------------------------------------------
(* PipeSink.  link is "none" when not connected and "dead" when Sigan's end *)
(* is gone and Mari has not noticed.  wire holds the frames handed to the   *)
(* pipe and not yet read; partial says that the last of them is not         *)
(* complete, its rest being in residual_.                                   *)

Sink == [link : {"none", "live", "dead"}, wire : Seq(Nat), partial : BOOLEAN]

Closed  == [link |-> "none", wire |-> <<>>, partial |-> FALSE]
Fresh   == [Closed EXCEPT !.link = "live"]
Connected(k) == k.link # "none"
HasRoom(k)   == Len(k.wire) <= PipeFrames

\* drainResidual and PipeSink::pump: only pending bytes make Mari touch the
\* pipe, so a dead link without any goes unnoticed.
Drained(k) ==
  IF k.link = "dead" /\ k.partial THEN Closed
  ELSE IF k.link = "live" /\ HasRoom(k) THEN [k EXCEPT !.partial = FALSE]
  ELSE k

\* PipeSink::write of frame s.  A frame of which the pipe takes a part, or
\* nothing, is kept in residual_ and reported as taken.
Written(k, s) ==
  LET d == Drained(k) IN
    CASE d.link = "none" -> [sink |-> d, status |-> "Disconnected"]
      [] d.link = "dead" -> [sink |-> Closed, status |-> "Disconnected"]
      [] d.link = "live" /\ d.partial -> [sink |-> d, status |-> "WouldBlock"]
      [] OTHER -> [sink |-> [d EXCEPT !.wire = Append(@, s),
                                      !.partial = Len(d.wire) >= PipeFrames],
                   status |-> "Ok"]

-----------------------------------------------------------------------------

\* SiganPublisher::open has made the journal; SiganRecorder::open pumps once.
Init ==
  /\ journal = NewJournal
  /\ seq = 0 /\ sentSeq = 0 /\ sent = 0 /\ spooled = 0 /\ ended = 0
  /\ backlog = <<>>
  /\ pc = "opening"
  /\ sink = Closed
  /\ peerUp \in BOOLEAN
  /\ stops = 0
  /\ have = {}

InOrder(s) == Connected(sink) /\ sentSeq + 1 = s

\* publish: journal first, then the pipe unless older frames are waiting.
Publish ==
  LET s == seq + 1
      w == Written(sink, s)
      taken == InOrder(s) /\ w.status = "Ok"
  IN
  /\ pc = "idle"
  /\ seq < MaxSeq
  /\ seq' = s
  /\ \E o \in WriteOutcomes(journal, Frame(s)) : journal' = o.journal
  /\ sink' = IF InOrder(s) THEN w.sink ELSE sink
  /\ sentSeq' = IF taken THEN s ELSE sentSeq
  /\ sent' = IF taken THEN sent + 1 ELSE sent
  /\ spooled' = s - sentSeq'
  /\ UNCHANGED <<ended, backlog, pc, peer>>

EndStroke ==
  /\ pc = "idle"
  /\ ended < seq
  /\ ended' = seq
  /\ \E o \in StrokeEndOutcomes(journal, seq) : journal' = o.journal
  /\ sink' = Drained(sink)
  /\ UNCHANGED <<seq, sentSeq, sent, spooled, backlog, pc, peer>>

-----------------------------------------------------------------------------
(* pump.                                                                    *)

MayPump == pc = "opening" \/ (pc = "idle" /\ PumpedWhenIdle)

\* The start of resendBacklog on journal j: nothing to do, a flush that fails
\* (the error goes to the caller, spooled stays as it was), or a list to write.
StartResend(j) ==
  IF ~Connected(sink') \/ sentSeq' >= seq
    THEN journal' = j /\ backlog' = <<>> /\ pc' = "idle"
    ELSE \E o \in FlushOutcomes(j) :
           /\ journal' = o.journal
           /\ IF o.ok
                THEN /\ backlog' = FramesAfter(o.journal.file, sentSeq')
                     /\ pc' = "resend"
                ELSE backlog' = <<>> /\ pc' = "idle"

\* Mutant: an idle pump only drains the pipe.
PumpOnlyDrains ==
  /\ MayPump
  /\ Connected(sink)
  /\ sink' = Drained(sink)
  /\ pc' = "idle"
  /\ UNCHANGED <<journal, seq, sentSeq, sent, spooled, ended, backlog, peer>>

PumpConnected ==
  /\ MayPump
  /\ Connected(sink)
  /\ sink' = Drained(sink)
  /\ UNCHANGED <<seq, sentSeq, sent, spooled, ended, peer>>
  /\ StartResend(journal)

\* The first number missing from what Sigan keeps.
NextWanted == CHOOSE n \in 1..(MaxSeq + 1) :
                n \notin have /\ \A m \in 1..(n - 1) : m \in have

\* Mutant: the number of the wanted frame is taken for a count.
ResumeFromNext(wanted) == IF wanted < sentSeq THEN wanted ELSE sentSeq

\* resumeFromSeq only ever takes sentSeq_ back.
ResumeFrom(wanted) == IF wanted - 1 < sentSeq THEN wanted - 1 ELSE sentSeq

\* connect, handshake and the note about it.
PumpConnect ==
  /\ MayPump
  /\ ~Connected(sink)
  /\ peerUp
  /\ sink' = Fresh
  /\ \E answer \in PeerAnswers :
       sentSeq' = IF answer = "resume" THEN ResumeFrom(NextWanted) ELSE sentSeq
  /\ \E o \in WriteOutcomes(journal, Note) : StartResend(o.journal)
  /\ UNCHANGED <<seq, sent, spooled, ended, peer>>

\* Sigan goes away while Mari waits for its answer.
PumpLosesPeer ==
  /\ MayPump
  /\ ~Connected(sink)
  /\ peerUp
  /\ stops < MaxStops
  /\ stops' = stops + 1
  /\ peerUp' = FALSE
  /\ \E left \in {"none", "dead"} : sink' = [Closed EXCEPT !.link = left]
  /\ UNCHANGED <<seq, sentSeq, sent, spooled, ended, have>>
  /\ \E o \in WriteOutcomes(journal, Note) : StartResend(o.journal)

\* connect fails while Sigan is down: only the first time is a step.
OpenOffline ==
  /\ pc = "opening"
  /\ ~peerUp
  /\ pc' = "idle"
  /\ UNCHANGED <<journal, seq, sentSeq, sent, spooled, ended, backlog, sink, peer>>

Resend ==
  LET w == Written(sink, Head(backlog)) IN
  /\ pc = "resend"
  /\ backlog # <<>>
  /\ sink' = w.sink
  /\ IF w.status = "Ok"
       THEN /\ sentSeq' = Head(backlog)
            /\ sent' = sent + 1
            /\ backlog' = Tail(backlog)
       ELSE UNCHANGED <<sentSeq, sent>> /\ backlog' = <<>>
  /\ UNCHANGED <<journal, seq, spooled, ended, pc, peer>>

EndResend ==
  /\ pc = "resend"
  /\ backlog = <<>>
  /\ spooled' = seq - sentSeq
  /\ pc' = "idle"
  /\ UNCHANGED <<journal, seq, sentSeq, sent, ended, backlog, sink, peer>>

-----------------------------------------------------------------------------
(* Sigan, external: it reads whole frames and keeps them; stopping loses    *)
(* what is still in the pipe.                                               *)

PeerReads ==
  /\ sink.link = "live"
  /\ sink.wire # <<>>
  /\ Len(sink.wire) > 1 \/ ~sink.partial
  /\ have' = have \cup {Head(sink.wire)}
  /\ sink' = [sink EXCEPT !.wire = Tail(@)]
  /\ UNCHANGED <<publisher, peerUp, stops>>

PeerStops ==
  /\ peerUp
  /\ stops < MaxStops
  /\ stops' = stops + 1
  /\ peerUp' = FALSE
  /\ sink' = IF sink.link = "live" THEN [sink EXCEPT !.link = "dead", !.wire = <<>>]
                                   ELSE sink
  /\ UNCHANGED <<publisher, have>>

PeerStarts ==
  /\ ~peerUp
  /\ peerUp' = TRUE
  /\ UNCHANGED <<publisher, sink, stops, have>>

Pump == PumpConnected \/ PumpConnect \/ PumpLosesPeer \/ OpenOffline

Next ==
  \/ Publish \/ EndStroke
  \/ PumpConnected \/ PumpConnect \/ PumpLosesPeer \/ OpenOffline
  \/ Resend \/ EndResend
  \/ PeerReads \/ PeerStops \/ PeerStarts

Spec == Init /\ [][Next]_vars

\* A call that has begun runs on; Sigan is started again (its updater does) and
\* reads.  Nothing is assumed of whoever draws and calls pump.
FairSpec ==
  /\ Spec
  /\ WF_vars(Resend \/ EndResend)
  /\ WF_vars(PeerStarts)
  /\ WF_vars(PeerReads)

-----------------------------------------------------------------------------

TypeOK ==
  /\ journal \in Journal
  /\ seq \in Nat /\ sentSeq \in 0..seq /\ sent \in Nat /\ spooled \in Nat
  /\ ended \in 0..seq
  /\ backlog \in Seq(Nat)
  /\ pc \in {"opening", "idle", "resend"}
  /\ sink \in Sink
  /\ peerUp \in BOOLEAN /\ stops \in Nat
  /\ have \subseteq Nat

\* What is in the pipe runs on without a gap and ends with the frame counted
\* as sent last, so nothing overtakes the backlog (publisher.cpp:98) and the
\* rest of a frame is never followed by another's.  Where the journal lost
\* frames there are gaps, but within one connection nothing goes back in time.
WireInOrder ==
  sink.link = "live" /\ sink.wire # <<>> =>
    /\ Last(sink.wire) = sentSeq
    /\ \A i \in 1..(Len(sink.wire) - 1) :
         /\ sink.wire[i] < sink.wire[i + 1]
         /\ ~journal.failed => sink.wire[i + 1] = sink.wire[i] + 1

\* What pump is writing picks up where the pipe stands and reaches the newest
\* frame, although the list was read before Sigan moved on.
BacklogIsWhole ==
  ~journal.failed /\ pc = "resend" /\ backlog # <<>> =>
    backlog = [i \in 1..(seq - sentSeq) |-> sentSeq + i]

\* Between calls the published count of frames not yet handed over is exact;
\* a backlog that could not be read leaves it stale, and the journal failed.
SpooledIsBacklog ==
  ~journal.failed /\ pc = "idle" => spooled = seq - sentSeq

\* Nothing is overtaken, skipped or forgotten between the journal and the pipe.
NothingOvertakes == TypeOK /\ WireInOrder /\ BacklogIsWhole /\ SpooledIsBacklog

Stream == INSTANCE EvidenceStream WITH drawn <- seq, received <- have,
                                       broken <- journal.failed

\* publisher.cpp:161, repeats are fine and holes are not: towards a Sigan that
\* asks for the first frame it misses, the publisher implements EvidenceStream.
\* publish ignores what appendFrame returned; that a hole never goes unnoticed
\* rests on failed() not forgetting.
ImplementsStream == Stream!Spec

\* Where pump is called again and again, as sigan_recorder.hpp:66 asks for, a
\* frame that had to wait is handed to the pipe in the end, or the journal says
\* why not.  The program calls pump once, in SiganRecorder::open.
BacklogDrains ==
  WF_vars(Pump) => (sentSeq < seq ~> sentSeq = seq \/ journal.failed)
=============================================================================
