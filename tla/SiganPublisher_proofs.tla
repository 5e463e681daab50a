------------------------- MODULE SiganPublisher_proofs -------------------------
(***************************************************************************)
(* Theorems about SiganPublisher for every pipe, journal buffer and Sigan, *)
(* however often it stops: nothing overtakes what waits in the journal,    *)
(* and towards a Sigan that asks for what it misses no frame is left out   *)
(* unnoticed.                                                              *)
(***************************************************************************)
EXTENDS SiganPublisher, JournalFile_proofs

-----------------------------------------------------------------------------
(* The wire.                                                                *)

\* The frames w on the wire end with `last`, go up and, unless some are lost,
\* leave none out.
Ending(w, last, lost) ==
  w # <<>> =>
    /\ w[Len(w)] = last
    /\ \A i \in 1..(Len(w) - 1) : w[i] < w[i + 1] /\ (~lost => w[i + 1] = w[i] + 1)

\* A frame behind the others.
LEMMA EndingAppended ==
  ASSUME NEW w \in Seq(Nat), NEW last \in Nat, NEW lost, Ending(w, last, lost), NEW s \in Nat, last < s,
         ~lost => s = last + 1, NEW v, v = Append(w, s)
  PROVE  v \in Seq(Nat) /\ Ending(v, s, lost)
<1>1. PICK l \in Nat : l = Len(w)
  BY LenProperties
<1>2. v \in Seq(Nat) /\ Len(v) = l + 1 /\ (\A i \in 1..l : v[i] = w[i]) /\ v[l + 1] = s
  BY <1>1, Appended
<1>3. ASSUME NEW i \in 1..l PROVE v[i] < v[i + 1] /\ (~lost => v[i + 1] = v[i] + 1)
  <2>1. w # <<>>
    BY <1>1, EmptySeq
  <2>2. w[l] = last /\ \A k \in 1..(l - 1) : w[k] < w[k + 1] /\ (~lost => w[k + 1] = w[k] + 1)
    BY <1>1, <2>1 DEF Ending
  <2>3. CASE i = l
    BY <1>2, <2>2, <2>3
  <2>4. CASE i # l
    <3>1. i \in 1..(l - 1) /\ i + 1 \in 1..l
      BY <2>4
    <3> QED BY <1>2, <2>2, <3>1
  <2> QED BY <2>3, <2>4
<1>4. (l + 1) - 1 = l
  OBVIOUS
<1> QED BY <1>2, <1>3, <1>4 DEF Ending

\* Without the first.
LEMMA EndingTail ==
  ASSUME NEW w \in Seq(Nat), w # <<>>, NEW last, NEW lost, Ending(w, last, lost), NEW v, v = Tail(w)
  PROVE  v \in Seq(Nat) /\ Len(v) = Len(w) - 1 /\ Ending(v, last, lost)
<1>1. PICK l \in Nat : l = Len(w)
  BY LenProperties
<1>2. v \in Seq(Nat) /\ Len(v) = l - 1 /\ l >= 1 /\ \A i \in 1..(l - 1) : v[i] = w[i + 1]
  BY <1>1, Shortened
<1>3. w[l] = last /\ \A k \in 1..(l - 1) : w[k] < w[k + 1] /\ (~lost => w[k + 1] = w[k] + 1)
  BY <1>1 DEF Ending
<1>4. CASE l = 1
  <2>1. v = <<>>
    BY <1>2, <1>4, EmptySeq
  <2> QED BY <1>1, <1>2, <2>1 DEF Ending
<1>5. CASE l # 1
  <2>1. PICK n \in Nat : n = l - 1 /\ n + 1 = l /\ n \in 1..(l - 1)
    BY <1>2, <1>5
  <2>2. v[n] = last
    BY <1>2, <1>3, <2>1
  <2>3. ASSUME NEW i \in 1..(n - 1) PROVE v[i] < v[i + 1] /\ (~lost => v[i + 1] = v[i] + 1)
    <3>1. i \in 1..(l - 1) /\ i + 1 \in 1..(l - 1)
      BY <2>1
    <3> QED BY <1>2, <1>3, <3>1
  <2> QED BY <1>1, <1>2, <2>1, <2>2, <2>3 DEF Ending
<1> QED BY <1>4, <1>5

\* Of nothing on the wire there is nothing to say.
LEMMA EndingEmpty ==
  ASSUME NEW w, w = <<>>, NEW last, NEW lost
  PROVE  Ending(w, last, lost)
BY DEF Ending

\* What may be lost later includes what may be lost now.
LEMMA EndingLost ==
  ASSUME NEW w, NEW last, NEW lost, Ending(w, last, lost), NEW more, lost => more
  PROVE  Ending(w, last, more)
BY DEF Ending

-----------------------------------------------------------------------------
(* The pipe.                                                                *)

\* Only a live connection has frames in it.
Sunk(k) == k \in Sink /\ (k.link # "live" => k.wire = <<>>)

\* The parts of a connection.
LEMMA SinkFields ==
  ASSUME NEW k, Sunk(k)
  PROVE  /\ k.link \in {"none", "live", "dead"} /\ k.wire \in Seq(Nat) /\ k.partial \in BOOLEAN
         /\ k = [link |-> k.link, wire |-> k.wire, partial |-> k.partial]
BY DEF Sunk, Sink

\* A connection that is made, lost or noticed to be gone holds nothing.
LEMMA EmptySinks ==
  /\ Sunk(Closed) /\ Closed.link = "none" /\ Closed.wire = <<>>
  /\ Sunk(Fresh) /\ Fresh.link = "live" /\ Fresh.wire = <<>>
  /\ \A left \in {"none", "dead"} :
       Sunk([Closed EXCEPT !.link = left]) /\ [Closed EXCEPT !.link = left].link = left
<1>1. <<>> \in Seq(Nat)
  OBVIOUS
<1> QED BY <1>1 DEF Sunk, Sink, Closed, Fresh

\* drainResidual revives no connection and changes no order.
LEMMA DrainedIs ==
  ASSUME NEW k, Sunk(k), NEW d, d = Drained(k)
  PROVE  Sunk(d) /\ (d.link = "live" => k.link = "live" /\ d.wire = k.wire)
<1>1. k \in Sink /\ (k.link # "live" => k.wire = <<>>)
  BY DEF Sunk
<1>2. CASE d = Closed
  BY <1>2, EmptySinks
<1>3. CASE d = k
  BY <1>3
<1>4. CASE k.link = "live" /\ d = [k EXCEPT !.partial = FALSE]
  BY <1>1, <1>4 DEF Sunk, Sink
<1> QED BY <1>2, <1>3, <1>4 DEF Drained

\* A frame reported as taken is the last in a live pipe; any other write leaves
\* the order as it was.
HandedOver(k, s, w) ==
  /\ Sunk(w.sink)
  /\ w.sink.link = "live" => k.link = "live"
  /\ w.status = "Ok" => w.sink.link = "live" /\ w.sink.wire = Append(k.wire, s)
  /\ w.status # "Ok" /\ w.sink.link = "live" => w.sink.wire = k.wire

\* PipeSink::write does so.
LEMMA WrittenIs ==
  ASSUME NEW k, Sunk(k), NEW s \in Nat, NEW w, w = Written(k, s)
  PROVE  HandedOver(k, s, w)
<1>1. PICK d : d = Drained(k)
  OBVIOUS
<1>2. Sunk(d) /\ (d.link = "live" => k.link = "live" /\ d.wire = k.wire)
  BY <1>1, DrainedIs
<1>3. /\ d.link \in {"none", "live", "dead"} /\ d.wire \in Seq(Nat) /\ d.partial \in BOOLEAN
      /\ d = [link |-> d.link, wire |-> d.wire, partial |-> d.partial]
  BY <1>2, SinkFields
<1>4. CASE d.link = "none"
  <2>1. w = [sink |-> d, status |-> "Disconnected"]
    BY <1>1, <1>4 DEF Written
  <2> QED BY <1>2, <1>4, <2>1 DEF HandedOver
<1>5. CASE d.link = "dead"
  <2>1. w = [sink |-> Closed, status |-> "Disconnected"]
    BY <1>1, <1>5 DEF Written
  <2> QED BY <2>1, EmptySinks DEF HandedOver
<1>6. CASE d.link = "live" /\ d.partial
  <2>1. w = [sink |-> d, status |-> "WouldBlock"]
    BY <1>1, <1>6 DEF Written
  <2> QED BY <1>2, <1>6, <2>1 DEF HandedOver
<1>7. CASE d.link = "live" /\ ~d.partial
  <2>2. PICK e : e = [d EXCEPT !.wire = Append(d.wire, s), !.partial = Len(d.wire) >= PipeFrames]
    OBVIOUS
  <2>3. w = [sink |-> e, status |-> "Ok"]
    BY <1>1, <1>7, <2>2 DEF Written
  <2>4. Append(d.wire, s) \in Seq(Nat)
    BY <1>3
  <2>5. PICK v \in Seq(Nat) : v = Append(d.wire, s)
    BY <2>4
  <2>6. (Len(d.wire) >= PipeFrames) \in BOOLEAN
    OBVIOUS
  <2>7. e = [link |-> "live", wire |-> v, partial |-> Len(d.wire) >= PipeFrames]
    BY <1>3, <1>7, <2>2, <2>5
  <2>8. e.link = "live" /\ e.wire = v /\ e \in Sink
    BY <2>6, <2>7, Zenon DEF Sink
  <2> QED BY <1>2, <1>7, <2>3, <2>5, <2>8 DEF Sunk, HandedOver
<1> QED BY <1>3, <1>4, <1>5, <1>6, <1>7

\* The frames in connection k are among the first n, and end with `last`.
Piped(k, last, lost, n) ==
  /\ Sunk(k)
  /\ \A i \in 1..Len(k.wire) : k.wire[i] \in 1..n
  /\ Ending(k.wire, last, lost)

\* An empty connection.
LEMMA EmptyPiped ==
  ASSUME NEW k, Sunk(k), k.wire = <<>>, NEW last, NEW lost, NEW n
  PROVE  Piped(k, last, lost, n)
BY EndingEmpty DEF Piped

\* A connection whose pipe is as before, or gone.
LEMMA PipedStill ==
  ASSUME NEW k, NEW last, NEW lost, NEW n \in Nat, Piped(k, last, lost, n),
         NEW l, Sunk(l), l.link = "live" => l.wire = k.wire,
         NEW more, lost => more, NEW m \in Nat, n <= m
  PROVE  Piped(l, last, more, m)
<1>1. CASE l.link # "live"
  BY <1>1, EmptyPiped DEF Sunk
<1>2. CASE l.link = "live"
  <2>1. Ending(l.wire, last, more)
    BY <1>2, EndingLost DEF Piped
  <2>2. \A i \in 1..Len(l.wire) : l.wire[i] \in 1..m
    <3> SUFFICES ASSUME NEW i \in 1..Len(l.wire) PROVE l.wire[i] \in 1..m
      OBVIOUS
    <3>1. l.wire[i] \in 1..n
      BY <1>2 DEF Piped
    <3> QED BY <3>1
  <2> QED BY <2>1, <2>2 DEF Piped
<1> QED BY <1>1, <1>2

\* A frame handed over behind the others.
LEMMA PipedMore ==
  ASSUME NEW k, NEW last \in Nat, NEW lost, NEW n \in Nat, Piped(k, last, lost, n),
         NEW s \in 1..n, last < s, ~lost => s = last + 1,
         NEW l, Sunk(l), l.wire = Append(k.wire, s)
  PROVE  Piped(l, s, lost, n)
<1>1. k.wire \in Seq(Nat)
  BY SinkFields DEF Piped
<1>2. PICK w, v : w = k.wire /\ v = l.wire
  OBVIOUS
<1>3. w \in Seq(Nat) /\ Ending(w, last, lost) /\ v = Append(w, s) /\ s \in Nat
  BY <1>1, <1>2 DEF Piped
<1>4. Ending(v, s, lost)
  BY <1>3, EndingAppended
<1>5. PICK c \in Nat : c = Len(w)
  BY <1>3, LenProperties
<1>6. Len(v) = c + 1 /\ (\A i \in 1..c : v[i] = w[i]) /\ v[c + 1] = s
  BY <1>3, <1>5, Appended
<1>7. \A i \in 1..c : w[i] \in 1..n
  BY <1>2, <1>5 DEF Piped
<1>8. \A i \in 1..Len(v) : v[i] \in 1..n
  BY <1>6, <1>7
<1> QED BY <1>2, <1>4, <1>8 DEF Piped

-----------------------------------------------------------------------------
(* The backlog.                                                             *)

\* Frames b to be written after frame `last` of n: in order, and all of them
\* unless some are lost.
Waits(b, last, n, lost) ==
  /\ b \in Seq(Nat)
  /\ \A i \in 1..Len(b) : b[i] \in (last + 1)..n
  /\ \A i, k \in 1..Len(b) : i < k => b[i] < b[k]
  /\ ~lost /\ b # <<>> => b = [i \in 1..(n - last) |-> last + i]

\* Nothing to write.
LEMMA WaitsNone ==
  ASSUME NEW b, b = <<>>, NEW last, NEW n, NEW lost
  PROVE  Waits(b, last, n, lost)
<1>1. b \in Seq(Nat) /\ Len(b) = 0
  OBVIOUS
<1> QED BY <1>1 DEF Waits

\* The first frame to write follows what was sent, and so does the rest.
LEMMA WaitsTail ==
  ASSUME NEW b, b # <<>>, NEW last \in Nat, NEW n \in Nat, NEW lost, Waits(b, last, n, lost),
         NEW s, s = Head(b), NEW v, v = Tail(b)
  PROVE  s \in Nat /\ last < s /\ s <= n /\ (~lost => s = last + 1) /\ Waits(v, s, n, lost)
<1>1. /\ b \in Seq(Nat) /\ \A i \in 1..Len(b) : b[i] \in (last + 1)..n
      /\ \A i, k \in 1..Len(b) : i < k => b[i] < b[k]
  BY DEF Waits
<1>2. PICK l \in Nat : l = Len(b)
  BY <1>1, LenProperties
<1>3. /\ v \in Seq(Nat) /\ Len(v) = l - 1 /\ l >= 1
      /\ (\A i \in 1..(l - 1) : v[i] = b[i + 1]) /\ s = b[1]
  BY <1>1, <1>2, Shortened
<1>4. s \in (last + 1)..n
  BY <1>1, <1>2, <1>3
<1>5. ASSUME NEW i \in 1..(l - 1) PROVE v[i] \in (s + 1)..n
  <2>1. i + 1 \in 1..l /\ 1 \in 1..l /\ 1 < i + 1
    BY <1>2, <1>3
  <2>2. b[1] < b[i + 1] /\ b[i + 1] \in (last + 1)..n
    BY <1>1, <1>2, <2>1
  <2>3. PICK x \in Nat : x = b[i + 1]
    BY <2>2
  <2> QED BY <1>3, <1>4, <2>2, <2>3
<1>6. ASSUME NEW i \in 1..(l - 1), NEW k \in 1..(l - 1), i < k PROVE v[i] < v[k]
  <2>1. i + 1 \in 1..l /\ k + 1 \in 1..l /\ i + 1 < k + 1
    BY <1>2, <1>6
  <2> QED BY <1>1, <1>2, <1>3, <2>1
<1>7. ASSUME ~lost PROVE s = last + 1 /\ v = [i \in 1..(n - s) |-> s + i]
  <2>1. b = [i \in 1..(n - last) |-> last + i]
    BY <1>7 DEF Waits
  <2>2. DOMAIN b = 1..l /\ DOMAIN b = 1..(n - last)
    BY <1>1, <1>2, <2>1
  <2>3. 1 \in 1..(n - last) /\ l \in 1..(n - last)
    BY <1>2, <1>3, <2>2
  <2>4. PICK d : d = n - last
    OBVIOUS
  <2>5. d \in Int /\ l <= d /\ d <= l
    <3>1. d \in 1..l
      BY <2>2, <2>3, <2>4
    <3> QED BY <2>3, <2>4, <3>1
  <2>6. l = n - last
    BY <1>2, <2>4, <2>5
  <2>7. s = last + 1
    BY <1>3, <2>1, <2>3
  <2>8. n - s = l - 1
    BY <2>6, <2>7
  <2>9. DOMAIN v = 1..(n - s)
    BY <1>3, <2>8
  <2>10. ASSUME NEW i \in 1..(n - s) PROVE v[i] = s + i
    <3>1. i + 1 \in 1..(n - last) /\ i \in 1..(l - 1)
      BY <2>6, <2>8
    <3>2. v[i] = last + (i + 1)
      BY <1>3, <2>1, <3>1
    <3>3. PICK c \in Nat : c = i
      BY <3>1
    <3>4. last + (c + 1) = (last + 1) + c
      OBVIOUS
    <3> QED BY <2>7, <3>2, <3>3, <3>4
  <2>11. PICK r : r = 1..(n - s)
    OBVIOUS
  <2>12. v = [i \in r |-> v[i]]
    <3>1. v \in Seq(Nat)
      BY <1>3
    <3>2. v = [i \in 1..Len(v) |-> v[i]]
      BY <3>1, ElementByElement
    <3>3. 1..Len(v) = r
      BY <1>3, <2>8, <2>11
    <3> QED BY <3>2, <3>3
  <2>13. v = [i \in r |-> s + i]
    BY <2>10, <2>11, <2>12
  <2> QED BY <2>7, <2>11, <2>13
<1> QED BY <1>3, <1>4, <1>5, <1>6, <1>7 DEF Waits

-----------------------------------------------------------------------------
(* The journal.                                                             *)

\* The journal holds the n frames in order, and unless it failed all of them.
Kept(j, n) == Held(j, n) /\ FramesAscend(AllOf(j), n)

\* A new journal.
LEMMA NewKept == Kept(NewJournal, 0) /\ NewJournal.failed = FALSE
<1>1. NewJournal \in Journal /\ Sound(NewJournal, 0, Nat)
  BY NewSound
<1>2. FramesAscend(AllOf(NewJournal), 0)
  BY <1>1 DEF Sound, Whole
<1> QED BY <1>1, <1>2 DEF Kept, Held, NewJournal

\* publish, and pump's notes.
LEMMA WrittenKept ==
  ASSUME NEW n \in Nat, NEW j, Kept(j, n), NEW r, NEW m \in Nat,
         (r = Note /\ m = n) \/ (r = Frame(n + 1) /\ m = n + 1),
         NEW o \in WriteOutcomes(j, r)
  PROVE  Kept(o.journal, m) /\ (j.failed => o.journal.failed) /\ o.journal.failed \in BOOLEAN
<1>1. r \in Record /\ ~IsEnd(r) /\ Follows(r, n, m) /\ ((~IsFrame(r) /\ m = n) \/ (r = Frame(n + 1) /\ m = n + 1))
  BY RecordTypes, Tags DEF Follows
<1>2. Held(o.journal, m) /\ (~o.journal.failed => ~j.failed)
  BY <1>1, WrittenHeld DEF Kept
<1>3. j \in Journal
  BY DEF Kept, Held
<1>4. FramesAscend(AllOf(o.journal), m)
  BY <1>1, <1>3, WriteOrdered DEF Kept
<1>5. o.journal.failed \in BOOLEAN
  BY <1>2, JournalFields DEF Held
<1> QED BY <1>2, <1>4, <1>5 DEF Kept

\* endStroke.
LEMMA StrokeEndKept ==
  ASSUME NEW n \in Nat, NEW j, Kept(j, n), NEW o \in StrokeEndOutcomes(j, n)
  PROVE  Kept(o.journal, n) /\ (j.failed => o.journal.failed) /\ o.journal.failed \in BOOLEAN
<1>1. Held(o.journal, n) /\ (~o.journal.failed => ~j.failed)
  BY StrokeEndSealed DEF Kept, Sealed
<1>2. j \in Journal
  BY DEF Kept, Held
<1>3. FramesAscend(AllOf(o.journal), n)
  BY <1>2, StrokeEndOrdered DEF Kept
<1>4. o.journal.failed \in BOOLEAN
  BY <1>1, JournalFields DEF Held
<1> QED BY <1>1, <1>3, <1>4 DEF Kept

\* The flush before a resend; what is then read from the file follows frame a,
\* and reaches the newest unless the journal failed.
LEMMA FlushedKept ==
  ASSUME NEW n \in Nat, NEW j, Kept(j, n), NEW o \in FlushOutcomes(j), NEW a \in 0..n,
         NEW b, b = FramesAfter(o.journal.file, a)
  PROVE  /\ Kept(o.journal, n) /\ (j.failed => o.journal.failed) /\ o.journal.failed \in BOOLEAN
         /\ ~o.ok => o.journal.failed
         /\ Waits(b, a, n, o.journal.failed)
<1>1. /\ Held(o.journal, n) /\ (~o.journal.failed => ~j.failed /\ o.journal.file = AllOf(o.journal))
      /\ ~o.ok => o.journal.failed
  BY FlushedHeld DEF Kept
<1>2. j \in Journal /\ o.journal \in Journal
  BY <1>1 DEF Kept, Held
<1>3. FramesAscend(AllOf(o.journal), n)
  BY <1>2, FlushOrdered DEF Kept
<1>4. FramesAscend(o.journal.file, n) /\ o.journal.file \in Seq(Record) /\ o.journal.failed \in BOOLEAN
  BY <1>2, <1>3, FileOrdered, JournalFields
<1>5. PICK f \in Seq(Record) : f = o.journal.file
  BY <1>4
<1>6. FramesAscend(f, n) /\ b = FramesAfter(f, a) /\ a \in Nat
  BY <1>4, <1>5
<1>7. /\ b \in Seq(Nat)
      /\ \A i \in 1..Len(b) : b[i] \in 1..n /\ a < b[i]
      /\ \A i, k \in 1..Len(b) : i < k => b[i] < b[k]
  BY <1>6, FramesAfterOrdered
<1>8. \A i \in 1..Len(b) : b[i] \in (a + 1)..n
  BY <1>6, <1>7
<1>9. ASSUME ~o.journal.failed PROVE b = [i \in 1..(n - a) |-> a + i]
  <2>1. Whole(f, n)
    BY <1>1, <1>5, <1>9 DEF Held, Sound
  <2> QED BY <1>6, <2>1, FramesAfterWhole
<1>10. Waits(b, a, n, o.journal.failed)
  BY <1>7, <1>8, <1>9 DEF Waits
<1> QED BY <1>1, <1>3, <1>4, <1>10 DEF Kept

-----------------------------------------------------------------------------
(* The inductive invariant.                                                 *)

IInv ==
  /\ TypeOK
  /\ seq <= MaxSeq /\ have \subseteq 1..seq
  /\ pc = "opening" => seq = 0 /\ spooled = 0
  /\ pc # "resend" => backlog = <<>>
  /\ Kept(journal, seq)
  /\ Piped(sink, sentSeq, journal.failed, seq)
  /\ Waits(backlog, sentSeq, seq, journal.failed)
  /\ SpooledIsBacklog

\* What connection k delivers next is no later than frame h + 1.
Reaches(k, last, h) ==
  k.link = "live" => IF k.wire = <<>> THEN last <= h ELSE k.wire[1] <= h + 1

\* Sigan holds the frames up to some number, and gets the one after it, if it
\* gets any that is new.
Gapless ==
  ~journal.failed => \E h \in 0..seq : have = 1..h /\ Reaches(sink, sentSeq, h)

-----------------------------------------------------------------------------
(* The steps of the publisher.                                              *)

\* The start of resendBacklog, after sentSeq_ was set to a: what is to be written
\* follows a, and there is nothing to write only where nothing waits, where
\* there is no connection, or where the journal failed.
LEMMA StartResendIs ==
  ASSUME seq \in Nat, NEW j, Kept(j, seq), NEW a \in 0..seq, sentSeq' = a, StartResend(j)
  PROVE  /\ Kept(journal', seq) /\ (j.failed => journal'.failed) /\ journal'.failed \in BOOLEAN
         /\ Waits(backlog', a, seq, journal'.failed)
         /\ pc' \in {"idle", "resend"}
         /\ pc' = "idle" => /\ backlog' = <<>>
                            /\ ~Connected(sink') \/ a >= seq \/ journal'.failed
<1>1. CASE ~Connected(sink') \/ a >= seq
  <2>1. journal' = j /\ backlog' = <<>> /\ pc' = "idle"
    BY <1>1 DEF StartResend
  <2>2. j.failed \in BOOLEAN
    BY JournalFields DEF Kept, Held
  <2> QED BY <1>1, <2>1, <2>2, WaitsNone
<1>2. CASE ~(~Connected(sink') \/ a >= seq)
  <2>1. PICK o \in FlushOutcomes(j) :
          /\ journal' = o.journal
          /\ IF o.ok THEN backlog' = FramesAfter(o.journal.file, a) /\ pc' = "resend"
                     ELSE backlog' = <<>> /\ pc' = "idle"
    BY <1>2 DEF StartResend
  <2>2. PICK b : b = FramesAfter(o.journal.file, a)
    OBVIOUS
  <2>3. /\ Kept(o.journal, seq) /\ (j.failed => o.journal.failed) /\ o.journal.failed \in BOOLEAN
        /\ ~o.ok => o.journal.failed
        /\ Waits(b, a, seq, o.journal.failed)
    BY <2>2, FlushedKept
  <2>4. CASE o.ok
    BY <2>1, <2>2, <2>3, <2>4
  <2>5. CASE ~o.ok
    BY <2>1, <2>3, <2>5, WaitsNone
  <2> QED BY <2>4, <2>5
<1> QED BY <1>1, <1>2

\* The kinds of the parts.
LEMMA Kinds ==
  ASSUME NEW j, NEW n, Kept(j, n), NEW k, NEW last, NEW lost, Piped(k, last, lost, n),
         NEW b, Waits(b, last, n, lost)
  PROVE  j \in Journal /\ k \in Sink /\ b \in Seq(Nat)
BY DEF Kept, Held, Piped, Sunk, Waits

\* What the invariant says of the parts the steps use.
LEMMA Apart ==
  ASSUME IInv
  PROVE  /\ seq \in Nat /\ sentSeq \in 0..seq /\ sentSeq \in Nat /\ sent \in Nat /\ spooled \in Nat
         /\ ended \in 0..seq
         /\ peerUp \in BOOLEAN /\ stops \in Nat /\ journal.failed \in BOOLEAN
         /\ Kept(journal, seq) /\ Piped(sink, sentSeq, journal.failed, seq) /\ Sunk(sink)
         /\ Waits(backlog, sentSeq, seq, journal.failed)
         /\ seq <= MaxSeq /\ have \subseteq 1..seq /\ MaxSeq \in Nat
<1>1. journal.failed \in BOOLEAN
  BY JournalFields DEF IInv, TypeOK
<1> QED BY <1>1, SiganPublisherAssumption DEF IInv, TypeOK, Piped

\* Initially everything is empty.
LEMMA InitIInv == Init => IInv
<1> SUFFICES ASSUME Init PROVE IInv
  OBVIOUS
<1>1. Kept(journal, seq) /\ journal.failed = FALSE
  BY NewKept DEF Init
<1>2. Piped(sink, sentSeq, journal.failed, seq)
  BY EmptySinks, EmptyPiped DEF Init
<1>3. Waits(backlog, sentSeq, seq, journal.failed)
  BY WaitsNone DEF Init
<1>4. SpooledIsBacklog
  BY DEF Init, SpooledIsBacklog
<1>5. 0 <= MaxSeq /\ have \subseteq 1..seq
  BY SiganPublisherAssumption DEF Init
<1>6. journal \in Journal /\ sink \in Sink /\ backlog \in Seq(Nat)
  BY <1>1, <1>2, <1>3, Kinds
<1> QED BY <1>1, <1>2, <1>3, <1>4, <1>5, <1>6 DEF Init, IInv, TypeOK

\* publish.
LEMMA PublishStep == IInv /\ Publish => IInv'
<1> SUFFICES ASSUME IInv, Publish PROVE IInv'
  OBVIOUS
<1>1. /\ seq \in Nat /\ sentSeq \in 0..seq /\ sentSeq \in Nat /\ sent \in Nat /\ journal.failed \in BOOLEAN
      /\ Kept(journal, seq) /\ Piped(sink, sentSeq, journal.failed, seq) /\ Sunk(sink)
      /\ ended \in 0..seq /\ have \subseteq 1..seq
  BY Apart
<1>2. pc = "idle" /\ pc' = "idle" /\ seq' = seq + 1 /\ seq < MaxSeq
  BY DEF Publish
<1>3. Kept(journal', seq + 1) /\ (journal.failed => journal'.failed)
  <2>1. PICK o \in WriteOutcomes(journal, Frame(seq + 1)) : journal' = o.journal
    BY DEF Publish
  <2>2. PICK r : r = Frame(seq + 1)
    OBVIOUS
  <2>3. PICK m \in Nat : m = seq + 1
    BY <1>1
  <2> QED BY <1>1, <2>1, <2>2, <2>3, WrittenKept
<1>4. Waits(backlog', sentSeq', seq + 1, journal'.failed) /\ backlog' = <<>>
  <2>1. backlog' = <<>>
    BY <1>2 DEF Publish, IInv
  <2> QED BY <2>1, WaitsNone
<1>5. PICK w : w = Written(sink, seq + 1)
  OBVIOUS
<1>6. /\ Sunk(w.sink)
      /\ w.sink.link = "live" => sink.link = "live"
      /\ w.status = "Ok" => w.sink.link = "live" /\ w.sink.wire = Append(sink.wire, seq + 1)
      /\ w.status # "Ok" /\ w.sink.link = "live" => w.sink.wire = sink.wire
  <2>1. PICK s \in Nat : s = seq + 1
    BY <1>1
  <2>2. w = Written(sink, s)
    BY <1>5, <2>1
  <2>3. HandedOver(sink, s, w)
    BY <1>1, <2>2, WrittenIs
  <2> QED BY <2>1, <2>3 DEF HandedOver
<1>7. sentSeq' \in 0..(seq + 1) /\ sent' \in Nat /\ Piped(sink', sentSeq', journal'.failed, seq + 1)
  <2>1. CASE InOrder(seq + 1) /\ w.status = "Ok"
    <3>1. sentSeq' = seq + 1 /\ sentSeq = seq /\ sink' = w.sink /\ sent' = sent + 1
      BY <1>1, <1>5, <2>1 DEF Publish, InOrder
    <3>2. seq + 1 \in Nat /\ seq <= seq + 1 /\ seq + 1 \in 1..(seq + 1) /\ seq < seq + 1
      BY <1>1
    <3>3. Piped(sink, sentSeq, journal'.failed, seq + 1)
      BY <1>1, <1>3, <3>2, PipedStill
    <3>4. Piped(w.sink, seq + 1, journal'.failed, seq + 1)
      BY <1>1, <1>6, <2>1, <3>1, <3>2, <3>3, PipedMore
    <3> QED BY <1>1, <3>1, <3>2, <3>4
  <2>2. CASE ~(InOrder(seq + 1) /\ w.status = "Ok")
    <3>1. sentSeq' = sentSeq /\ sent' = sent
      BY <1>5, <2>2 DEF Publish
    <3>2. sink' = sink \/ (sink' = w.sink /\ w.status # "Ok")
      BY <1>5, <2>2 DEF Publish
    <3>3. Sunk(sink') /\ (sink'.link = "live" => sink'.wire = sink.wire)
      BY <1>1, <1>6, <3>2
    <3>4. seq + 1 \in Nat /\ seq <= seq + 1
      BY <1>1
    <3>5. Piped(sink', sentSeq, journal'.failed, seq + 1)
      BY <1>1, <1>3, <3>3, <3>4, PipedStill
    <3> QED BY <1>1, <3>1, <3>5
  <2> QED BY <2>1, <2>2
<1>8. spooled' = (seq + 1) - sentSeq'
  BY DEF Publish
<1>9. UNCHANGED <<ended, peerUp, stops, have>>
  BY DEF Publish, peer
<1>10. journal' \in Journal /\ sink' \in Sink /\ backlog' \in Seq(Nat)
  BY <1>3, <1>4, <1>7, Kinds
<1>11. /\ seq' \in Nat /\ sentSeq' \in 0..seq' /\ spooled' \in Nat /\ ended' \in 0..seq'
       /\ seq' <= MaxSeq /\ have' \subseteq 1..seq' /\ have' \subseteq Nat
  <2>1. seq' \in Nat /\ sentSeq' \in 0..seq' /\ seq' <= MaxSeq
    BY <1>1, <1>2, <1>7, SiganPublisherAssumption
  <2>2. spooled' \in Nat
    <3>1. PICK a \in Nat : a = sentSeq' /\ a <= seq + 1
      BY <1>1, <1>7
    <3>2. PICK b \in Nat : b = seq + 1
      BY <1>1
    <3>3. b - a \in Nat
      BY <3>1, <3>2
    <3> QED BY <1>8, <3>1, <3>2, <3>3
  <2>3. 0..seq \subseteq 0..seq' /\ 1..seq \subseteq 1..seq' /\ 1..seq' \subseteq Nat
    BY <1>1, <1>2
  <2> QED BY <1>1, <1>9, <2>1, <2>2, <2>3
<1>12. peerUp' \in BOOLEAN /\ stops' \in Nat
  BY <1>9 DEF IInv, TypeOK
<1>13. TypeOK'
  BY <1>2, <1>7, <1>10, <1>11, <1>12 DEF TypeOK
<1>14. SpooledIsBacklog'
  BY <1>2, <1>8 DEF SpooledIsBacklog
<1> QED BY <1>2, <1>3, <1>4, <1>7, <1>11, <1>13, <1>14 DEF IInv

\* endStroke.
LEMMA EndStrokeStep == IInv /\ EndStroke => IInv'
<1> SUFFICES ASSUME IInv, EndStroke PROVE IInv'
  OBVIOUS
<1>1. /\ seq \in Nat /\ sentSeq \in 0..seq /\ sentSeq \in Nat /\ journal.failed \in BOOLEAN
      /\ Kept(journal, seq) /\ Piped(sink, sentSeq, journal.failed, seq) /\ Sunk(sink)
  BY Apart
<1>2. /\ pc = "idle" /\ ended' = seq /\ sink' = Drained(sink)
      /\ UNCHANGED <<seq, sentSeq, sent, spooled, backlog, pc, peerUp, stops, have>>
  BY DEF EndStroke, peer
<1>3. Kept(journal', seq) /\ (journal.failed => journal'.failed)
  <2>1. PICK o \in StrokeEndOutcomes(journal, seq) : journal' = o.journal
    BY DEF EndStroke
  <2> QED BY <1>1, <2>1, StrokeEndKept
<1>4. Piped(sink', sentSeq, journal'.failed, seq)
  <2>1. Sunk(sink') /\ (sink'.link = "live" => sink'.wire = sink.wire)
    BY <1>1, <1>2, DrainedIs
  <2>2. seq <= seq
    BY <1>1
  <2> QED BY <1>1, <1>3, <2>1, <2>2, PipedStill
<1>5. backlog = <<>> /\ Waits(backlog, sentSeq, seq, journal'.failed)
  <2>1. backlog = <<>>
    BY <1>2 DEF IInv
  <2> QED BY <2>1, WaitsNone
<1>6. journal' \in Journal /\ sink' \in Sink
  BY <1>3, <1>4, <1>5, Kinds
<1>7. TypeOK'
  BY <1>1, <1>2, <1>6 DEF IInv, TypeOK
<1>8. SpooledIsBacklog'
  BY <1>2, <1>3 DEF IInv, SpooledIsBacklog
<1> QED BY <1>2, <1>3, <1>4, <1>5, <1>7, <1>8 DEF IInv

\* How a pump ends that took sentSeq_ to a and left journal j, when resendBacklog
\* starts on it.
LEMMA PumpEnds ==
  ASSUME IInv, MayPump, NEW j, Kept(j, seq), journal.failed => j.failed,
         NEW a \in 0..sentSeq, sentSeq' = a, Piped(sink', a, j.failed, seq), ~Connected(sink') => a = sentSeq,
         StartResend(j), UNCHANGED <<seq, sent, spooled, ended, have>>, peerUp' \in BOOLEAN, stops' \in Nat
  PROVE  IInv'
<1>1. /\ seq \in Nat /\ sentSeq \in 0..seq /\ sentSeq \in Nat /\ journal.failed \in BOOLEAN
  BY Apart
<1>2. a \in 0..seq /\ a <= sentSeq /\ sentSeq <= seq
  BY <1>1
<1>3. /\ Kept(journal', seq) /\ (j.failed => journal'.failed) /\ journal'.failed \in BOOLEAN
      /\ Waits(backlog', a, seq, journal'.failed)
      /\ pc' \in {"idle", "resend"}
      /\ pc' = "idle" => /\ backlog' = <<>>
                         /\ ~Connected(sink') \/ a >= seq \/ journal'.failed
  BY <1>1, <1>2, StartResendIs
<1>4. Piped(sink', a, journal'.failed, seq)
  <2>1. Sunk(sink') /\ seq <= seq
    BY <1>1 DEF Piped
  <2> QED BY <1>1, <1>3, <2>1, PipedStill
<1>5. journal' \in Journal /\ sink' \in Sink /\ backlog' \in Seq(Nat)
  BY <1>3, <1>4, Kinds
<1>6. TypeOK'
  BY <1>1, <1>2, <1>3, <1>5 DEF IInv, TypeOK
<1>7. SpooledIsBacklog'
  <2> SUFFICES ASSUME ~journal'.failed, pc' = "idle" PROVE spooled = seq - a
    BY DEF SpooledIsBacklog
  <2>1. a = sentSeq
    BY <1>1, <1>2, <1>3
  <2>2. ~journal.failed
    BY <1>3
  <2>3. CASE pc = "idle"
    BY <2>1, <2>2, <2>3 DEF IInv, SpooledIsBacklog
  <2>4. CASE pc = "opening"
    <3>1. seq = 0 /\ spooled = 0
      BY <2>4 DEF IInv
    <3>2. a = 0
      BY <1>2, <3>1
    <3> QED BY <3>1, <3>2
  <2> QED BY <2>3, <2>4 DEF MayPump
<1>8. (pc' = "opening" => seq' = 0 /\ spooled' = 0) /\ (pc' # "resend" => backlog' = <<>>)
  BY <1>3
<1> QED BY <1>3, <1>4, <1>6, <1>7, <1>8 DEF IInv

\* A pump while connected.
LEMMA PumpConnectedStep == IInv /\ PumpConnected => IInv'
<1> SUFFICES ASSUME IInv, PumpConnected PROVE IInv'
  OBVIOUS
<1>1. /\ seq \in Nat /\ sentSeq \in Nat /\ journal.failed \in BOOLEAN /\ peerUp \in BOOLEAN /\ stops \in Nat
      /\ Kept(journal, seq) /\ Piped(sink, sentSeq, journal.failed, seq) /\ Sunk(sink)
  BY Apart
<1>2. Piped(sink', sentSeq, journal.failed, seq)
  <2>1. Sunk(sink') /\ (sink'.link = "live" => sink'.wire = sink.wire) /\ seq <= seq
    BY <1>1, DrainedIs DEF PumpConnected
  <2> QED BY <1>1, <2>1, PipedStill
<1>3. MayPump /\ StartResend(journal) /\ UNCHANGED <<seq, sentSeq, sent, spooled, ended, peerUp, stops, have>>
  BY DEF PumpConnected, peer
<1>4. sentSeq \in 0..sentSeq
  BY <1>1
<1> QED BY <1>1, <1>2, <1>3, <1>4, PumpEnds

\* The frame a resuming Sigan asks for is the first it does not hold.
LEMMA WantedIs ==
  ASSUME IInv, NEW w, w = NextWanted
  PROVE  w \in Nat /\ w >= 1 /\ w \notin have /\ \A m \in 1..(w - 1) : m \in have
<1>1. seq \in Nat /\ seq <= MaxSeq /\ have \subseteq 1..seq /\ MaxSeq \in Nat
  BY Apart
<1>2. PICK T : T = {n \in 1..(MaxSeq + 1) : n \notin have}
  OBVIOUS
<1>3. MaxSeq + 1 \in T
  BY <1>1, <1>2
<1>4. T \subseteq Nat
  BY <1>2
<1>5. PICK x \in T : \A y \in T : x <= y
  BY <1>3, <1>4, LeastNumber
<1>6. x \in 1..(MaxSeq + 1) /\ x \notin have
  BY <1>2, <1>5
<1>7. ASSUME NEW m \in 1..(x - 1) PROVE m \in have
  <2>1. m \in 1..(MaxSeq + 1) /\ ~(x <= m)
    BY <1>1, <1>6
  <2> QED BY <1>2, <1>5, <2>1
<1>8. /\ w \in 1..(MaxSeq + 1) /\ w \notin have /\ \A m \in 1..(w - 1) : m \in have
  BY <1>6, <1>7 DEF NextWanted
<1> QED BY <1>8

\* resumeFromSeq takes sentSeq_ to the frame before the wanted one, or leaves it.
LEMMA ResumedIs ==
  ASSUME IInv, NEW a, NEW answer, a = IF answer = "resume" THEN ResumeFrom(NextWanted) ELSE sentSeq
  PROVE  a \in 0..sentSeq /\ (answer = "resume" => a < NextWanted)
<1>1. sentSeq \in Nat
  BY Apart
<1>2. PICK w : w = NextWanted
  OBVIOUS
<1>3. w \in Nat /\ w >= 1
  BY <1>2, WantedIs
<1>4. CASE answer = "resume"
  <2>1. a = IF w - 1 < sentSeq THEN w - 1 ELSE sentSeq
    BY <1>2, <1>4 DEF ResumeFrom
  <2> QED BY <1>1, <1>2, <1>3, <2>1
<1>5. CASE answer # "resume"
  BY <1>1, <1>5
<1> QED BY <1>4, <1>5

\* A pump that connects.
LEMMA PumpConnectStep == IInv /\ PumpConnect => IInv'
<1> SUFFICES ASSUME IInv, PumpConnect PROVE IInv'
  OBVIOUS
<1>1. /\ seq \in Nat /\ sentSeq \in Nat /\ stops \in Nat /\ peerUp \in BOOLEAN
      /\ Kept(journal, seq)
  BY Apart
<1>2. MayPump /\ sink' = Fresh /\ UNCHANGED <<seq, sent, spooled, ended, peerUp, stops, have>>
  BY DEF PumpConnect, peer
<1>3. sentSeq' \in 0..sentSeq
  <2>1. PICK answer \in PeerAnswers : sentSeq' = IF answer = "resume" THEN ResumeFrom(NextWanted) ELSE sentSeq
    BY DEF PumpConnect
  <2> QED BY <2>1, ResumedIs
<1>4. PICK o \in WriteOutcomes(journal, Note) : StartResend(o.journal)
  BY DEF PumpConnect
<1>5. PICK r : r = Note
  OBVIOUS
<1>6. Kept(o.journal, seq) /\ (journal.failed => o.journal.failed)
  BY <1>1, <1>4, <1>5, WrittenKept
<1>7. Piped(sink', sentSeq', o.journal.failed, seq) /\ Connected(sink')
  BY <1>2, EmptySinks, EmptyPiped DEF Connected
<1> QED BY <1>1, <1>2, <1>3, <1>4, <1>6, <1>7, PumpEnds

\* A pump that loses Sigan in the handshake.
LEMMA PumpLosesPeerStep == IInv /\ PumpLosesPeer => IInv'
<1> SUFFICES ASSUME IInv, PumpLosesPeer PROVE IInv'
  OBVIOUS
<1>1. seq \in Nat /\ sentSeq \in Nat /\ stops \in Nat /\ Kept(journal, seq)
  BY Apart
<1>2. MayPump /\ UNCHANGED <<seq, sentSeq, sent, spooled, ended, have>> /\ peerUp' = FALSE /\ stops' = stops + 1
  BY DEF PumpLosesPeer
<1>3. PICK o \in WriteOutcomes(journal, Note) : StartResend(o.journal)
  BY DEF PumpLosesPeer
<1>4. PICK r : r = Note
  OBVIOUS
<1>5. Kept(o.journal, seq) /\ (journal.failed => o.journal.failed)
  BY <1>1, <1>3, <1>4, WrittenKept
<1>6. Sunk(sink') /\ sink'.link # "live"
  <2>1. PICK left \in {"none", "dead"} : sink' = [Closed EXCEPT !.link = left]
    BY DEF PumpLosesPeer
  <2> QED BY <2>1, EmptySinks
<1>7. Piped(sink', sentSeq, o.journal.failed, seq)
  BY <1>6, EmptyPiped DEF Sunk
<1>8. sentSeq \in 0..sentSeq /\ stops' \in Nat
  BY <1>1, <1>2
<1>9. peerUp' \in BOOLEAN
  BY <1>2, Zenon
<1> QED BY <1>2, <1>3, <1>5, <1>7, <1>8, <1>9, PumpEnds

\* A pump that finds no Sigan.
LEMMA OpenOfflineStep == IInv /\ OpenOffline => IInv'
<1> SUFFICES ASSUME IInv, OpenOffline PROVE IInv'
  OBVIOUS
<1>1. /\ pc = "opening" /\ pc' = "idle"
      /\ UNCHANGED <<journal, seq, sentSeq, sent, spooled, ended, backlog, sink, peerUp, stops, have>>
  BY DEF OpenOffline, peer
<1>2. seq = 0 /\ spooled = 0 /\ sentSeq = 0
  BY <1>1 DEF IInv, TypeOK
<1>3. SpooledIsBacklog'
  BY <1>1, <1>2 DEF SpooledIsBacklog
<1>4. TypeOK'
  BY <1>1 DEF IInv, TypeOK
<1> QED BY <1>1, <1>3, <1>4 DEF IInv

\* One write of resendBacklog.
LEMMA ResendStep == IInv /\ Resend => IInv'
<1> SUFFICES ASSUME IInv, Resend PROVE IInv'
  OBVIOUS
<1>1. /\ seq \in Nat /\ sentSeq \in 0..seq /\ sentSeq \in Nat /\ sent \in Nat /\ journal.failed \in BOOLEAN
      /\ Kept(journal, seq) /\ Piped(sink, sentSeq, journal.failed, seq) /\ Sunk(sink)
      /\ Waits(backlog, sentSeq, seq, journal.failed)
  BY Apart
<1>2. /\ pc = "resend" /\ backlog # <<>>
      /\ UNCHANGED <<journal, seq, spooled, ended, pc, peerUp, stops, have>>
  BY DEF Resend, peer
<1>3. PICK s, v : s = Head(backlog) /\ v = Tail(backlog)
  OBVIOUS
<1>4. s \in Nat /\ sentSeq < s /\ s <= seq /\ (~journal.failed => s = sentSeq + 1)
      /\ Waits(v, s, seq, journal.failed)
  BY <1>1, <1>2, <1>3, WaitsTail
<1>5. PICK w : w = Written(sink, s)
  OBVIOUS
<1>6. HandedOver(sink, s, w)
  BY <1>1, <1>4, <1>5, WrittenIs
<1>7. sink' = w.sink
  BY <1>3, <1>5 DEF Resend
<1>8. /\ sentSeq' \in 0..seq /\ sent' \in Nat
      /\ Piped(sink', sentSeq', journal.failed, seq) /\ Waits(backlog', sentSeq', seq, journal.failed)
  <2>1. CASE w.status = "Ok"
    <3>1. sentSeq' = s /\ sent' = sent + 1 /\ backlog' = v
      BY <1>3, <1>5, <2>1 DEF Resend
    <3>2. s \in 1..seq /\ s \in 0..seq
      BY <1>1, <1>4
    <3>3. Sunk(w.sink) /\ w.sink.wire = Append(sink.wire, s)
      BY <1>6, <2>1 DEF HandedOver
    <3>4. Piped(w.sink, s, journal.failed, seq)
      BY <1>1, <1>4, <3>2, <3>3, PipedMore
    <3> QED BY <1>1, <1>4, <1>7, <3>1, <3>2, <3>4
  <2>2. CASE w.status # "Ok"
    <3>1. sentSeq' = sentSeq /\ sent' = sent /\ backlog' = <<>>
      BY <1>3, <1>5, <2>2 DEF Resend
    <3>2. Sunk(w.sink) /\ (w.sink.link = "live" => w.sink.wire = sink.wire) /\ seq <= seq
      BY <1>1, <1>6, <2>2 DEF HandedOver
    <3>3. Piped(w.sink, sentSeq, journal.failed, seq)
      BY <1>1, <3>2, PipedStill
    <3> QED BY <1>1, <1>7, <3>1, <3>3, WaitsNone
  <2> QED BY <2>1, <2>2
<1>9. sink' \in Sink /\ backlog' \in Seq(Nat)
  BY <1>1, <1>8, Kinds
<1>10. TypeOK'
  BY <1>1, <1>2, <1>8, <1>9 DEF IInv, TypeOK
<1>11. SpooledIsBacklog'
  BY <1>2 DEF SpooledIsBacklog
<1> QED BY <1>1, <1>2, <1>8, <1>10, <1>11 DEF IInv

\* The end of resendBacklog.
LEMMA EndResendStep == IInv /\ EndResend => IInv'
<1> SUFFICES ASSUME IInv, EndResend PROVE IInv'
  OBVIOUS
<1>1. /\ backlog = <<>> /\ pc' = "idle" /\ spooled' = seq - sentSeq
      /\ UNCHANGED <<journal, seq, sentSeq, sent, ended, backlog, sink, peerUp, stops, have>>
  BY DEF EndResend, peer
<1>2. spooled' \in Nat
  <2>1. seq \in Nat /\ sentSeq \in 0..seq
    BY Apart
  <2> QED BY <1>1, <2>1
<1>3. TypeOK'
  BY <1>1, <1>2 DEF IInv, TypeOK
<1>4. SpooledIsBacklog'
  BY <1>1 DEF SpooledIsBacklog
<1> QED BY <1>1, <1>3, <1>4 DEF IInv

\* Sigan reads a frame.
LEMMA PeerReadsStep == IInv /\ PeerReads => IInv'
<1> SUFFICES ASSUME IInv, PeerReads PROVE IInv'
  OBVIOUS
<1>1. /\ seq \in Nat /\ Kept(journal, seq) /\ Piped(sink, sentSeq, journal.failed, seq) /\ Sunk(sink)
      /\ Waits(backlog, sentSeq, seq, journal.failed) /\ have \subseteq 1..seq
  BY Apart
<1>2. UNCHANGED <<journal, seq, sentSeq, sent, spooled, ended, backlog, pc, peerUp, stops>>
  BY DEF PeerReads, publisher
<1>3. PICK w, v : w = sink.wire /\ v = Tail(w)
  OBVIOUS
<1>4. w \in Seq(Nat) /\ w # <<>> /\ sink.link = "live"
  BY <1>1, <1>3, SinkFields DEF PeerReads
<1>5. sink' = [link |-> "live", wire |-> v, partial |-> sink.partial] /\ sink.partial \in BOOLEAN
  <2>1. sink' = [sink EXCEPT !.wire = v]
    BY <1>3 DEF PeerReads
  <2>2. sink \in Sink
    BY <1>1 DEF Sunk
  <2> QED BY <1>4, <2>1, <2>2 DEF Sink
<1>6. (\A i \in 1..Len(w) : w[i] \in 1..seq) /\ Ending(w, sentSeq, journal.failed)
  BY <1>1, <1>3 DEF Piped
<1>7. PICK l \in Nat : l = Len(w)
  BY <1>4, LenProperties
<1>8. /\ v \in Seq(Nat) /\ Len(v) = l - 1 /\ l >= 1
      /\ (\A i \in 1..(l - 1) : v[i] = w[i + 1]) /\ Head(w) = w[1]
  BY <1>3, <1>4, <1>7, Shortened
<1>9. Ending(v, sentSeq, journal.failed)
  BY <1>3, <1>4, <1>6, EndingTail
<1>10. Piped(sink', sentSeq, journal.failed, seq)
  <2>1. Sunk(sink') /\ sink'.wire = v
    BY <1>5, <1>8 DEF Sunk, Sink
  <2>2. ASSUME NEW i \in 1..(l - 1) PROVE v[i] \in 1..seq
    <3>1. i + 1 \in 1..l
      BY <1>7
    <3> QED BY <1>6, <1>7, <1>8, <3>1
  <2> QED BY <1>8, <1>9, <2>1, <2>2 DEF Piped
<1>11. have' \subseteq 1..seq /\ have' \subseteq Nat
  <2>1. Head(w) \in 1..seq
    BY <1>6, <1>7, <1>8
  <2> QED BY <1>1, <1>3, <2>1 DEF PeerReads
<1>12. sink' \in Sink
  BY <1>10 DEF Piped, Sunk
<1>13. TypeOK'
  BY <1>2, <1>11, <1>12 DEF IInv, TypeOK
<1>14. SpooledIsBacklog'
  BY <1>2 DEF IInv, SpooledIsBacklog
<1> QED BY <1>1, <1>2, <1>10, <1>11, <1>13, <1>14 DEF IInv

\* Sigan stops.
LEMMA PeerStopsStep == IInv /\ PeerStops => IInv'
<1> SUFFICES ASSUME IInv, PeerStops PROVE IInv'
  OBVIOUS
<1>1. UNCHANGED <<journal, seq, sentSeq, sent, spooled, ended, backlog, pc, have>>
  BY DEF PeerStops, publisher
<1>2. Piped(sink, sentSeq, journal.failed, seq) /\ Sunk(sink) /\ stops \in Nat
  BY Apart
<1>3. Piped(sink', sentSeq, journal.failed, seq)
  <2>1. CASE sink.link = "live"
    <3>1. <<>> \in Seq(Nat)
      OBVIOUS
    <3>2. sink' = [link |-> "dead", wire |-> <<>>, partial |-> sink.partial] /\ sink.partial \in BOOLEAN
      <4>1. sink' = [sink EXCEPT !.link = "dead", !.wire = <<>>]
        BY <2>1 DEF PeerStops
      <4>2. sink \in Sink
        BY <1>2 DEF Sunk
      <4> QED BY <4>1, <4>2 DEF Sink
    <3>3. Sunk(sink') /\ sink'.wire = <<>>
      BY <3>1, <3>2 DEF Sunk, Sink
    <3> QED BY <3>3, EmptyPiped
  <2>2. CASE sink.link # "live"
    BY <1>2, <2>2 DEF PeerStops
  <2> QED BY <2>1, <2>2
<1>4. sink' \in Sink
  BY <1>3 DEF Piped, Sunk
<1>5. stops' \in Nat
  BY <1>2 DEF PeerStops
<1>6. peerUp' \in BOOLEAN
  BY Zenon DEF PeerStops
<1>7. TypeOK'
  BY <1>1, <1>4, <1>5, <1>6 DEF IInv, TypeOK
<1>8. SpooledIsBacklog'
  BY <1>1 DEF IInv, SpooledIsBacklog
<1> QED BY <1>1, <1>3, <1>7, <1>8 DEF IInv

\* Sigan starts.
LEMMA PeerStartsStep == IInv /\ PeerStarts => IInv'
<1> SUFFICES ASSUME IInv, PeerStarts PROVE IInv'
  OBVIOUS
<1>1. UNCHANGED <<journal, seq, sentSeq, sent, spooled, ended, backlog, pc, sink, stops, have>>
  BY DEF PeerStarts, publisher
<1>2. peerUp' \in BOOLEAN
  BY Zenon DEF PeerStarts
<1>3. TypeOK'
  BY <1>1, <1>2 DEF IInv, TypeOK
<1>4. SpooledIsBacklog'
  BY <1>1 DEF IInv, SpooledIsBacklog
<1> QED BY <1>1, <1>3, <1>4 DEF IInv

\* Every step keeps the invariant.
LEMMA NextIInv == IInv /\ [Next]_vars => IInv'
<1> SUFFICES ASSUME IInv, [Next]_vars PROVE IInv'
  OBVIOUS
<1>1. CASE UNCHANGED vars
  BY <1>1 DEF vars, publisher, peer, IInv, TypeOK, SpooledIsBacklog
<1>2. CASE Publish
  BY <1>2, PublishStep
<1>3. CASE EndStroke
  BY <1>3, EndStrokeStep
<1>4. CASE PumpConnected
  BY <1>4, PumpConnectedStep
<1>5. CASE PumpConnect
  BY <1>5, PumpConnectStep
<1>6. CASE PumpLosesPeer
  BY <1>6, PumpLosesPeerStep
<1>7. CASE OpenOffline
  BY <1>7, OpenOfflineStep
<1>8. CASE Resend
  BY <1>8, ResendStep
<1>9. CASE EndResend
  BY <1>9, EndResendStep
<1>10. CASE PeerReads
  BY <1>10, PeerReadsStep
<1>11. CASE PeerStops
  BY <1>11, PeerStopsStep
<1>12. CASE PeerStarts
  BY <1>12, PeerStartsStep
<1> QED BY <1>1, <1>2, <1>3, <1>4, <1>5, <1>6, <1>7, <1>8, <1>9, <1>10, <1>11, <1>12 DEF Next

\* From the start on.
LEMMA Invariance == Spec => []IInv
<1>1. Init => IInv
  BY InitIInv
<1>2. IInv /\ [Next]_vars => IInv'
  BY NextIInv
<1> QED BY <1>1, <1>2, PTL DEF Spec

-----------------------------------------------------------------------------
(* What follows.                                                            *)

\* Every variable of the publisher, the pipe and Sigan stays of its type.
THEOREM TypeCorrect == Spec => []TypeOK
<1>1. IInv => TypeOK
  BY DEF IInv
<1> QED BY <1>1, Invariance, PTL

\* Nothing overtakes what waits (publisher.cpp:98): whatever the disk, the pipe
\* and Sigan do, the frames in the pipe run on without a gap and end with the
\* one counted as sent last, what pump writes continues them up to the newest
\* frame, and the count of frames that wait is exact between calls.
THEOREM NothingIsOvertaken == Spec => []NothingOvertakes
<1>1. IInv => NothingOvertakes
  <2> SUFFICES ASSUME IInv PROVE NothingOvertakes
    OBVIOUS
  <2>1. Piped(sink, sentSeq, journal.failed, seq) /\ Sunk(sink) /\ Waits(backlog, sentSeq, seq, journal.failed)
    BY Apart
  <2>2. WireInOrder
    <3>1. PICK w : w = sink.wire
      OBVIOUS
    <3>2. w \in Seq(Nat) /\ Ending(w, sentSeq, journal.failed)
      BY <2>1, <3>1, SinkFields DEF Piped
    <3>3. w # <<>> => /\ Last(w) = sentSeq
                      /\ \A i \in 1..(Len(w) - 1) :
                           w[i] < w[i + 1] /\ (~journal.failed => w[i + 1] = w[i] + 1)
      BY <3>2 DEF Ending, Last
    <3> QED BY <3>1, <3>3 DEF WireInOrder
  <2>3. BacklogIsWhole
    BY <2>1 DEF BacklogIsWhole, Waits
  <2> QED BY <2>2, <2>3 DEF IInv, NothingOvertakes
<1> QED BY <1>1, Invariance, PTL

-----------------------------------------------------------------------------
(* The evidence stream.                                                     *)

\* A connection that delivers what another did.
LEMMA ReachesStill ==
  ASSUME NEW k, NEW last, NEW h, Reaches(k, last, h),
         NEW l, l.link = "live" => k.link = "live" /\ l.wire = k.wire
  PROVE  Reaches(l, last, h)
BY DEF Reaches

\* The next frame is handed over.
LEMMA ReachesMore ==
  ASSUME NEW k, Sunk(k), k.link = "live", NEW last \in Nat, NEW h \in Nat, Reaches(k, last, h),
         NEW s, s = last + 1, NEW l, l.wire = Append(k.wire, s)
  PROVE  Reaches(l, s, h)
<1>0. k.wire \in Seq(Nat)
  BY SinkFields
<1>1. PICK w, v : w = k.wire /\ v = l.wire /\ w \in Seq(Nat)
  BY <1>0
<1>2. s \in Nat /\ v = Append(w, s)
  BY <1>1
<1>3. PICK c \in Nat : c = Len(w)
  BY <1>1, LenProperties
<1>4. v \in Seq(Nat) /\ Len(v) = c + 1 /\ (\A i \in 1..c : v[i] = w[i]) /\ v[c + 1] = s
  BY <1>1, <1>2, <1>3, Appended
<1>5. v # <<>>
  <2>1. Len(v) # 0
    BY <1>4
  <2> QED BY <1>4, <2>1, EmptySeq
<1>6. v[1] <= h + 1
  <2>1. CASE w = <<>>
    <3>1. last <= h
      BY <1>1, <2>1 DEF Reaches
    <3>2. c = 0
      BY <1>3, <2>1
    <3>3. v[1] = s
      BY <1>4, <3>2
    <3> QED BY <3>1, <3>3
  <2>2. CASE w # <<>>
    <3>1. w[1] <= h + 1
      BY <1>1, <2>2 DEF Reaches
    <3>2. c # 0
      BY <1>1, <1>3, <2>2, EmptySeq
    <3>3. v[1] = w[1]
      BY <1>4, <3>2
    <3> QED BY <3>1, <3>3
  <2> QED BY <2>1, <2>2
<1> QED BY <1>1, <1>5, <1>6 DEF Reaches

\* A journal that failed says so ever after.
LEMMA FailureStays == IInv /\ [Next]_vars => (journal.failed => journal'.failed)
<1> SUFFICES ASSUME IInv, [Next]_vars PROVE journal.failed => journal'.failed
  OBVIOUS
<1>1. seq \in Nat /\ sentSeq \in 0..seq /\ Kept(journal, seq)
  BY Apart
<1>2. CASE UNCHANGED journal
  BY <1>2
<1>3. CASE Publish
  <2>1. PICK o \in WriteOutcomes(journal, Frame(seq + 1)) : journal' = o.journal
    BY <1>3 DEF Publish
  <2>2. PICK r : r = Frame(seq + 1)
    OBVIOUS
  <2>3. PICK m \in Nat : m = seq + 1
    BY <1>1
  <2> QED BY <1>1, <2>1, <2>2, <2>3, WrittenKept
<1>4. CASE EndStroke
  <2>1. PICK o \in StrokeEndOutcomes(journal, seq) : journal' = o.journal
    BY <1>4 DEF EndStroke
  <2> QED BY <1>1, <2>1, StrokeEndKept
<1>5. ASSUME NEW j, Kept(j, seq), journal.failed => j.failed, sentSeq' \in 0..seq, StartResend(j)
      PROVE  journal.failed => journal'.failed
  <2>1. PICK a \in 0..seq : sentSeq' = a
    BY <1>5
  <2> QED BY <1>1, <1>5, <2>1, StartResendIs
<1>6. CASE PumpConnected
  BY <1>1, <1>5, <1>6 DEF PumpConnected
<1>7. ASSUME NEW o \in WriteOutcomes(journal, Note), StartResend(o.journal), sentSeq' \in 0..seq
      PROVE  journal.failed => journal'.failed
  <2>1. PICK r : r = Note
    OBVIOUS
  <2>2. Kept(o.journal, seq) /\ (journal.failed => o.journal.failed)
    BY <1>1, <1>7, <2>1, WrittenKept
  <2> QED BY <1>5, <1>7, <2>2
<1>8. CASE PumpConnect
  <2>1. PICK answer \in PeerAnswers : sentSeq' = IF answer = "resume" THEN ResumeFrom(NextWanted) ELSE sentSeq
    BY <1>8 DEF PumpConnect
  <2>2. sentSeq' \in 0..sentSeq
    BY <2>1, ResumedIs
  <2>3. sentSeq' \in 0..seq
    BY <1>1, <2>2
  <2> QED BY <1>7, <1>8, <2>3 DEF PumpConnect
<1>9. CASE PumpLosesPeer
  BY <1>1, <1>7, <1>9 DEF PumpLosesPeer
<1>10. CASE OpenOffline \/ Resend \/ EndResend \/ PeerReads \/ PeerStops \/ PeerStarts
  BY <1>10 DEF OpenOffline, Resend, EndResend, PeerReads, PeerStops, PeerStarts, publisher
<1> QED BY <1>2, <1>3, <1>4, <1>6, <1>8, <1>9, <1>10 DEF Next, vars, publisher

-----------------------------------------------------------------------------
(* Towards a Sigan that always asks for the first frame it misses.          *)

\* Initially Sigan holds none of no frames.
LEMMA InitGapless == Init => Gapless
<1> SUFFICES ASSUME Init PROVE Gapless
  OBVIOUS
<1>1. seq = 0 /\ sentSeq = 0 /\ have = {} /\ sink = Closed
  BY DEF Init
<1>2. Reaches(sink, sentSeq, 0)
  BY <1>1, EmptySinks DEF Reaches
<1>3. 0 \in 0..seq /\ have = 1..0
  BY <1>1
<1> QED BY <1>2, <1>3 DEF Gapless

\* Where Sigan holds the frames up to h, the first it misses is no later than h + 1.
LEMMA WantedNext ==
  ASSUME IInv, NEW h \in Nat, have = 1..h, NEW w, w = NextWanted
  PROVE  w \in Nat /\ w <= h + 1
<1>1. w \in Nat /\ w >= 1 /\ \A m \in 1..(w - 1) : m \in have
  BY WantedIs
<1>2. h + 1 \notin have /\ h + 1 \in Nat /\ h + 1 >= 1
  OBVIOUS
<1>3. ~(h + 1 \in 1..(w - 1))
  BY <1>1, <1>2
<1> QED BY <1>1, <1>2, <1>3

\* What Sigan reads is known to it, or is the frame it misses.
LEMMA ReadsNext ==
  ASSUME IInv, PeerReads, ~journal.failed, NEW h \in 0..seq, have = 1..h, Reaches(sink, sentSeq, h)
  PROVE  \E g \in 0..seq : /\ have' = 1..g /\ Reaches(sink', sentSeq, g)
                           /\ g = h \/ g = h + 1
<1>1. seq \in Nat /\ Piped(sink, sentSeq, journal.failed, seq) /\ Sunk(sink) /\ h \in Nat
  BY Apart
<1>2. PICK w : w = sink.wire
  OBVIOUS
<1>3. w \in Seq(Nat) /\ w # <<>> /\ sink.link = "live"
  BY <1>1, <1>2, SinkFields DEF PeerReads
<1>4. (\A i \in 1..Len(w) : w[i] \in 1..seq) /\ Ending(w, sentSeq, FALSE)
  BY <1>1, <1>2 DEF Piped, Ending
<1>5. PICK l \in Nat : l = Len(w)
  BY <1>3, LenProperties
<1>6. PICK v : v = Tail(w)
  OBVIOUS
<1>7. /\ v \in Seq(Nat) /\ Len(v) = l - 1 /\ l >= 1
      /\ (\A i \in 1..(l - 1) : v[i] = w[i + 1]) /\ Head(w) = w[1]
  BY <1>3, <1>5, <1>6, Shortened
<1>8. PICK x \in Nat : x = w[1] /\ x \in 1..seq
  <2>1. 1 \in 1..Len(w)
    BY <1>5, <1>7
  <2>2. w[1] \in 1..seq
    BY <1>4, <2>1
  <2> QED BY <2>2
<1>9. x <= h + 1
  BY <1>2, <1>3, <1>8 DEF Reaches
<1>10. have' = have \cup {x}
  BY <1>2, <1>7, <1>8 DEF PeerReads
<1>11. sink'.wire = v
  <2>1. sink' = [sink EXCEPT !.wire = v]
    BY <1>2, <1>6 DEF PeerReads
  <2>2. sink \in Sink
    BY <1>1 DEF Sunk
  <2> QED BY <2>1, <2>2 DEF Sink
<1>12. PICK g \in 0..seq : have' = 1..g /\ x <= g /\ (g = h \/ g = h + 1)
  <2>1. CASE x <= h
    <3>1. 1..h \cup {x} = 1..h
      BY <1>1, <1>8, <2>1
    <3> QED BY <1>10, <2>1, <3>1
  <2>2. CASE ~(x <= h)
    <3>1. x = h + 1
      BY <1>1, <1>8, <1>9, <2>2
    <3>2. 1..h \cup {x} = 1..(h + 1)
      BY <1>1, <3>1
    <3> QED BY <1>1, <1>8, <1>10, <3>1, <3>2
  <2> QED BY <2>1, <2>2
<1>13. Reaches(sink', sentSeq, g)
  <2>1. CASE v = <<>>
    <3>1. l = 1
      BY <1>7, <2>1
    <3>2. sentSeq = x
      BY <1>3, <1>4, <1>5, <1>8, <3>1 DEF Ending
    <3> QED BY <1>11, <1>12, <2>1, <3>2 DEF Reaches
  <2>2. CASE v # <<>>
    <3>1. l - 1 # 0
      BY <1>7, <2>2, EmptySeq
    <3>2. 1 \in 1..(l - 1) /\ 1 + 1 = 2
      BY <1>5, <1>7, <3>1
    <3>3. v[1] = w[2] /\ w[2] = x + 1
      BY <1>3, <1>4, <1>5, <1>7, <1>8, <3>2 DEF Ending
    <3>4. x + 1 <= g + 1
      BY <1>8, <1>12
    <3> QED BY <1>11, <2>2, <3>3, <3>4 DEF Reaches
  <2> QED BY <2>1, <2>2
<1> QED BY <1>12, <1>13

\* Every step keeps the frames Sigan holds without a hole.
LEMMA NextGapless ==
  ASSUME PeerAnswers \subseteq {"resume"}
  PROVE  IInv /\ Gapless /\ [Next]_vars => Gapless'
<1> SUFFICES ASSUME IInv, Gapless, [Next]_vars, ~journal'.failed
             PROVE  \E h \in 0..seq' : have' = 1..h /\ Reaches(sink', sentSeq', h)
  BY DEF Gapless
<1>1. ~journal.failed
  BY FailureStays
<1>2. PICK h \in 0..seq : have = 1..h /\ Reaches(sink, sentSeq, h)
  BY <1>1 DEF Gapless
<1>3. /\ seq \in Nat /\ sentSeq \in 0..seq /\ sentSeq \in Nat /\ Sunk(sink) /\ h \in Nat
      /\ Waits(backlog, sentSeq, seq, journal.failed)
  BY Apart
<1>4. CASE UNCHANGED <<seq, sentSeq, sink, have>>
  BY <1>2, <1>4
<1>5. CASE Publish
  <2>1. seq' = seq + 1 /\ have' = have
    BY <1>5 DEF Publish, peer
  <2>2. h \in 0..seq'
    BY <1>3, <2>1
  <2>3. PICK s \in Nat : s = seq + 1
    BY <1>3
  <2>4. PICK w : w = Written(sink, s)
    OBVIOUS
  <2>5. HandedOver(sink, s, w)
    BY <1>3, <2>4, WrittenIs
  <2>6. CASE InOrder(s) /\ w.status = "Ok"
    <3>1. sentSeq' = s /\ s = sentSeq + 1 /\ sink' = w.sink
      BY <1>5, <2>3, <2>4, <2>6 DEF Publish, InOrder
    <3>2. sink.link = "live" /\ w.sink.wire = Append(sink.wire, s)
      BY <2>5, <2>6 DEF HandedOver
    <3>3. Reaches(w.sink, s, h)
      BY <1>2, <1>3, <3>1, <3>2, ReachesMore
    <3> QED BY <1>2, <2>1, <2>2, <3>1, <3>3
  <2>7. CASE ~(InOrder(s) /\ w.status = "Ok")
    <3>1. sentSeq' = sentSeq
      BY <1>5, <2>3, <2>4, <2>7 DEF Publish
    <3>2. sink' = sink \/ (sink' = w.sink /\ w.status # "Ok")
      BY <1>5, <2>3, <2>4, <2>7 DEF Publish
    <3>3. sink'.link = "live" => sink.link = "live" /\ sink'.wire = sink.wire
      BY <2>5, <3>2 DEF HandedOver
    <3>4. Reaches(sink', sentSeq, h)
      BY <1>2, <3>3, ReachesStill
    <3> QED BY <1>2, <2>1, <2>2, <3>1, <3>4
  <2> QED BY <2>6, <2>7
<1>6. CASE EndStroke \/ PumpConnected
  <2>1. sink' = Drained(sink) /\ UNCHANGED <<seq, sentSeq, have>>
    BY <1>6 DEF EndStroke, PumpConnected, peer
  <2>2. sink'.link = "live" => sink.link = "live" /\ sink'.wire = sink.wire
    BY <1>3, <2>1, DrainedIs
  <2>3. Reaches(sink', sentSeq, h)
    BY <1>2, <2>2, ReachesStill
  <2> QED BY <1>2, <2>1, <2>3
<1>7. CASE PumpConnect
  <2>1. sink' = Fresh /\ UNCHANGED <<seq, have>>
    BY <1>7 DEF PumpConnect, peer
  <2>2. PICK answer \in PeerAnswers : sentSeq' = IF answer = "resume" THEN ResumeFrom(NextWanted) ELSE sentSeq
    BY <1>7 DEF PumpConnect
  <2>3. answer = "resume"
    BY <2>2
  <2>4. sentSeq' \in 0..sentSeq /\ sentSeq' < NextWanted
    BY <2>2, <2>3, ResumedIs
  <2>5. PICK w : w = NextWanted
    OBVIOUS
  <2>6. w \in Nat /\ w <= h + 1
    BY <1>2, <1>3, <2>5, WantedNext
  <2>7. sentSeq' <= h
    BY <1>3, <2>4, <2>5, <2>6
  <2>8. Reaches(sink', sentSeq', h)
    BY <2>1, <2>7, EmptySinks DEF Reaches
  <2> QED BY <1>2, <2>1, <2>8
<1>8. CASE PumpLosesPeer
  <2>1. UNCHANGED <<seq, sentSeq, have>>
    BY <1>8 DEF PumpLosesPeer
  <2>2. PICK left \in {"none", "dead"} : sink' = [Closed EXCEPT !.link = left]
    BY <1>8 DEF PumpLosesPeer
  <2>3. sink'.link # "live"
    BY <2>2, EmptySinks
  <2>4. Reaches(sink', sentSeq, h)
    BY <2>3 DEF Reaches
  <2> QED BY <1>2, <2>1, <2>4
<1>9. CASE Resend
  <2>1. UNCHANGED <<seq, have>> /\ backlog # <<>>
    BY <1>9 DEF Resend, peer
  <2>2. PICK s, v : s = Head(backlog) /\ v = Tail(backlog)
    OBVIOUS
  <2>3. s \in Nat /\ s = sentSeq + 1
    BY <1>1, <1>3, <2>1, <2>2, WaitsTail
  <2>4. PICK w : w = Written(sink, s)
    OBVIOUS
  <2>5. HandedOver(sink, s, w)
    BY <1>3, <2>3, <2>4, WrittenIs
  <2>6. sink' = w.sink
    BY <1>9, <2>2, <2>4 DEF Resend
  <2>7. CASE w.status = "Ok"
    <3>1. sentSeq' = s
      BY <1>9, <2>2, <2>4, <2>7 DEF Resend
    <3>2. sink.link = "live" /\ w.sink.wire = Append(sink.wire, s)
      BY <2>5, <2>7 DEF HandedOver
    <3>3. Reaches(w.sink, s, h)
      BY <1>2, <1>3, <2>3, <3>2, ReachesMore
    <3> QED BY <1>2, <2>1, <2>6, <3>1, <3>3
  <2>8. CASE w.status # "Ok"
    <3>1. sentSeq' = sentSeq
      BY <1>9, <2>2, <2>4, <2>8 DEF Resend
    <3>2. w.sink.link = "live" => sink.link = "live" /\ w.sink.wire = sink.wire
      BY <2>5, <2>8 DEF HandedOver
    <3>3. Reaches(w.sink, sentSeq, h)
      BY <1>2, <3>2, ReachesStill
    <3> QED BY <1>2, <2>1, <2>6, <3>1, <3>3
  <2> QED BY <2>7, <2>8
<1>10. CASE PeerReads
  <2>1. UNCHANGED <<seq, sentSeq>>
    BY <1>10 DEF PeerReads, publisher
  <2> QED BY <1>1, <1>2, <1>10, <2>1, ReadsNext
<1>11. CASE PeerStops
  <2>1. UNCHANGED <<seq, sentSeq, have>>
    BY <1>11 DEF PeerStops, publisher
  <2>2. sink'.link = "live" => sink' = sink
    <3>1. sink \in Sink
      BY <1>3 DEF Sunk
    <3> QED BY <1>11, <3>1 DEF PeerStops, Sink
  <2>3. Reaches(sink', sentSeq, h)
    BY <1>2, <2>2, ReachesStill
  <2> QED BY <1>2, <2>1, <2>3
<1>12. CASE OpenOffline \/ EndResend \/ PeerStarts \/ UNCHANGED vars
  BY <1>4, <1>12 DEF OpenOffline, EndResend, PeerStarts, vars, publisher, peer
<1> QED BY <1>5, <1>6, <1>7, <1>8, <1>9, <1>10, <1>11, <1>12 DEF Next

\* A step of the publisher or of Sigan is one of the stream, or none.
LEMMA NextStream ==
  ASSUME IInv, Gapless, [Next]_vars
  PROVE  [Stream!Next]_(Stream!vars)
<1>1. CASE journal'.failed
  BY <1>1 DEF Stream!Next
<1>2. CASE ~journal'.failed
  <2>1. ~journal.failed /\ journal.failed = journal'.failed
    <3>1. ~journal.failed
      BY <1>2, FailureStays
    <3>2. journal.failed \in BOOLEAN
      BY Apart
    <3>3. journal'.failed \in BOOLEAN
      <4>1. IInv'
        BY NextIInv
      <4>2. journal' \in Journal
        BY <4>1 DEF IInv, TypeOK
      <4> QED BY <4>2, JournalFields
    <3> QED BY <1>2, <3>1, <3>2, <3>3
  <2>2. CASE UNCHANGED <<seq, have>>
    BY <2>1, <2>2 DEF Stream!vars
  <2>3. CASE Publish
    BY <2>1, <2>3 DEF Publish, peer, Stream!Next, Stream!Draw
  <2>4. CASE PeerReads
    <3>1. PICK h \in 0..seq : have = 1..h /\ Reaches(sink, sentSeq, h)
      BY <2>1 DEF Gapless
    <3>2. PICK g \in 0..seq : have' = 1..g /\ (g = h \/ g = h + 1)
      BY <2>1, <2>4, <3>1, ReadsNext
    <3>3. seq' = seq /\ seq \in Nat
      BY <2>4, Apart DEF PeerReads, publisher
    <3>4. CASE g = h
      BY <2>2, <3>1, <3>2, <3>3, <3>4
    <3>5. CASE g = h + 1
      <4>1. g \in 1..seq /\ have = 1..(g - 1)
        BY <3>1, <3>2, <3>3, <3>5
      <4>2. Stream!Receive
        BY <3>2, <3>3, <4>1 DEF Stream!Receive
      <4> QED BY <2>1, <4>2 DEF Stream!Next
    <3> QED BY <3>2, <3>4, <3>5
  <2>5. CASE ~Publish /\ ~PeerReads
    <3>1. UNCHANGED <<seq, have>>
      BY <2>5 DEF Next, vars, publisher, peer, EndStroke, PumpConnected, PumpConnect, PumpLosesPeer,
                  OpenOffline, Resend, EndResend, PeerStops, PeerStarts
    <3> QED BY <2>2, <3>1
  <2> QED BY <2>3, <2>4, <2>5
<1> QED BY <1>1, <1>2

\* Repeats are fine and holes are not (publisher.cpp:161): towards a Sigan that
\* asks for the first frame it misses, however often either end, the pipe or the
\* disk lets the other down, the frames arrive without a hole or the journal
\* reports that it failed.  A Sigan that asks for nothing gets no such promise:
\* what was in the pipe when it stopped is not sent again.
THEOREM StreamKept ==
  ASSUME PeerAnswers \subseteq {"resume"}
  PROVE  Spec => ImplementsStream
<1>1. Init => Gapless
  BY InitGapless
<1>2. IInv /\ Gapless /\ [Next]_vars => Gapless'
  BY NextGapless
<1>3. Spec => [](IInv /\ Gapless)
  BY <1>1, <1>2, InitIInv, NextIInv, PTL DEF Spec
<1>4. Init => Stream!Init
  BY NewKept DEF Init, Stream!Init
<1>5. IInv /\ Gapless /\ [Next]_vars => [Stream!Next]_(Stream!vars)
  BY NextStream
<1> QED BY <1>3, <1>4, <1>5, PTL DEF Spec, ImplementsStream, Stream!Spec
=============================================================================
