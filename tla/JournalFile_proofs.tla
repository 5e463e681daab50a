-------------------------- MODULE JournalFile_proofs --------------------------
(***************************************************************************)
(* What the calls on a journal return, for every buffer size and however   *)
(* the disk refuses: what they leave on file, what a journal that has not  *)
(* failed holds, in which order its frames are, and what is read back.     *)
(* The theorems about the programs that own a journal rest on these.       *)
(***************************************************************************)
EXTENDS JournalFile, SequenceTheorems, WellFoundedInduction, TLAPS

(* Numbers and sequences.  The first lemmas stand for induction: a set of    *)
(* numbers has a least one, so what is false of some is false of a first.    *)

\* A set of numbers has a least one.
LEMMA LeastNumber ==
  ASSUME NEW T, T \subseteq Nat, T # {}
  PROVE  \E x \in T : \A y \in T : x <= y
<1>1. PICK R : R = OpToRel(<, Nat)
  OBVIOUS
<1>2. \A x, y \in Nat : y < x => <<y, x>> \in R
  BY <1>1 DEF OpToRel
<1>3. IsWellFoundedOn(R, Nat)
  BY <1>1, NatLessThanWellFounded
<1>4. PICK x \in T : \A y \in T : ~(<<y, x>> \in R)
  BY <1>3, WFMin
<1>5. ASSUME NEW y \in T PROVE x <= y
  <2>1. x \in Nat /\ y \in Nat /\ ~(y < x)
    BY <1>2, <1>4
  <2> QED BY <2>1
<1> QED BY <1>5

\* ... and, when it is bounded, a greatest one.
LEMMA GreatestNumber ==
  ASSUME NEW T, T \subseteq Nat, T # {}, NEW b \in Nat, \A y \in T : y <= b
  PROVE  \E x \in T : \A y \in T : y <= x
<1>1. PICK B : B = {b - y : y \in T}
  OBVIOUS
<1>2. B \subseteq Nat /\ B # {}
  <2>1. ASSUME NEW y \in T PROVE b - y \in Nat
    <3>1. y \in Nat /\ y <= b
      OBVIOUS
    <3> QED BY <3>1
  <2> QED BY <1>1, <2>1
<1>3. PICK z \in B : \A y \in B : z <= y
  BY <1>2, LeastNumber
<1>4. PICK x \in T : z = b - x
  BY <1>1
<1>5. ASSUME NEW y \in T PROVE y <= x
  <2>1. b - y \in B
    BY <1>1
  <2>2. b - x <= b - y /\ x \in Nat /\ y \in Nat
    BY <1>3, <1>4, <2>1
  <2> QED BY <2>2
<1> QED BY <1>5

\* Min names the one.
LEMMA MinIs ==
  ASSUME NEW T, T \subseteq Nat, T # {}
  PROVE  Min(T) \in T /\ \A y \in T : Min(T) <= y
BY LeastNumber DEF Min

\* Max names the other.
LEMMA MaxIs ==
  ASSUME NEW T, T \subseteq Nat, T # {}, NEW b \in Nat, \A y \in T : y <= b
  PROVE  Max(T) \in T /\ \A y \in T : Max(T) >= y
<1>1. PICK x \in T : \A y \in T : y <= x
  BY GreatestNumber
<1>2. \A y \in T : x >= y
  BY <1>1
<1> QED BY <1>2 DEF Max

\* A sequence that one more element is appended to.
LEMMA Appended ==
  ASSUME NEW S, NEW q \in Seq(S), NEW e \in S, NEW w, w = Append(q, e)
  PROVE  /\ w \in Seq(S) /\ Len(w) = Len(q) + 1 /\ Len(q) \in Nat
         /\ \A i \in 1..Len(q) : w[i] = q[i]
         /\ w[Len(q) + 1] = e
BY AppendProperties

\* A sequence that has lost its first element.
LEMMA Shortened ==
  ASSUME NEW S, NEW q \in Seq(S), q # <<>>, NEW w, w = Tail(q)
  PROVE  /\ w \in Seq(S) /\ Len(w) = Len(q) - 1 /\ Len(w) \in Nat
         /\ \A i \in 1..Len(w) : w[i] = q[i + 1] /\ i + 1 \in 1..Len(q)
         /\ Len(q) >= 1 /\ 1 \in 1..Len(q) /\ Head(q) = q[1] /\ Head(q) \in S
BY HeadTailProperties

\* The elements of a sequence from the m-th to the n-th.
LEMMA Cut ==
  ASSUME NEW S, NEW q \in Seq(S), NEW m \in Nat \ {0}, NEW n \in Nat, n <= Len(q), m <= n + 1,
         NEW w, w = SubSeq(q, m, n)
  PROVE  /\ w \in Seq(S) /\ Len(w) = (n - m) + 1
         /\ \A i \in 1..Len(w) : w[i] = q[(m + i) - 1]
<1>1. Len(q) \in Nat /\ DOMAIN q = 1..Len(q)
  OBVIOUS
<1>2. \A i \in m..n : i \in 1..Len(q)
  BY <1>1
<1>3. \A i \in m..n : q[i] \in S
  BY <1>2, ElementOfSeq
<1>4. /\ SubSeq(q, m, n) \in Seq(S)
      /\ Len(SubSeq(q, m, n)) = IF m <= n THEN n - m + 1 ELSE 0
      /\ \A i \in 1..(n - m + 1) : SubSeq(q, m, n)[i] = q[m + i - 1]
  BY <1>3, SubSeqProperties
<1>5. (IF m <= n THEN n - m + 1 ELSE 0) = (n - m) + 1
  OBVIOUS
<1> QED BY <1>4, <1>5

\* A sequence that has lost its last element.
LEMMA LastGone ==
  ASSUME NEW S, NEW q \in Seq(S), q # <<>>, NEW w, w = Front(q)
  PROVE  /\ w \in Seq(S) /\ Len(w) = Len(q) - 1 /\ Len(w) \in Nat
         /\ \A i \in 1..Len(w) : w[i] = q[i] /\ i \in 1..Len(q)
         /\ Len(q) >= 1 /\ Len(q) \in 1..Len(q) /\ Last(q) = q[Len(q)] /\ Last(q) \in S
<1>1. PICK l \in Nat : l = Len(q)
  BY LenProperties
<1>2. l # 0
  BY <1>1, EmptySeq
<1>3. PICK n \in Nat : n = l - 1 /\ n <= l
  BY <1>2
<1>4. w = SubSeq(q, 1, n)
  BY <1>1, <1>3 DEF Front
<1>5. 1 \in Nat \ {0} /\ n <= Len(q) /\ 1 <= n + 1
  BY <1>1, <1>3
<1>6. /\ w \in Seq(S) /\ Len(w) = (n - 1) + 1
      /\ \A i \in 1..Len(w) : w[i] = q[(1 + i) - 1]
  BY <1>4, <1>5, Cut
<1>7. (n - 1) + 1 = n /\ \A i \in 1..n : (1 + i) - 1 = i /\ i \in 1..l
  BY <1>3
<1>8. l >= 1 /\ l \in 1..l
  BY <1>2
<1>9. Last(q) = q[l] /\ q[l] \in S
  BY <1>1, <1>8, ElementOfSeq DEF Last
<1> QED BY <1>1, <1>3, <1>6, <1>7, <1>8, <1>9

\* One sequence after another.
LEMMA Joined ==
  ASSUME NEW S, NEW a \in Seq(S), NEW b \in Seq(S), NEW w, w = a \o b
  PROVE  /\ w \in Seq(S) /\ Len(w) = Len(a) + Len(b)
         /\ \A i \in 1..Len(a) : w[i] = a[i]
         /\ \A i \in 1..Len(b) : w[Len(a) + i] = b[i]
         /\ \A i \in 1..Len(w) : i \in 1..Len(a) \/ (i - Len(a)) \in 1..Len(b)
<1>1. PICK l \in Nat, m \in Nat : l = Len(a) /\ m = Len(b)
  OBVIOUS
<1>2. /\ a \o b \in Seq(S) /\ Len(a \o b) = l + m
      /\ \A i \in 1..l + m : (a \o b)[i] = IF i <= l THEN a[i] ELSE b[i - l]
  BY <1>1, ConcatProperties
<1>3. /\ w \in Seq(S) /\ Len(w) = l + m
      /\ \A i \in 1..l + m : w[i] = IF i <= l THEN a[i] ELSE b[i - l]
  BY <1>2
<1>4. \A i \in 1..l : w[i] = a[i]
  BY <1>3
<1>5. \A i \in 1..m : w[l + i] = b[i]
  <2> TAKE i \in 1..m
  <2>1. l + i \in 1..l + m /\ ~(l + i <= l) /\ (l + i) - l = i
    OBVIOUS
  <2> QED BY <1>3, <2>1
<1>6. \A i \in 1..l + m : i \in 1..l \/ (i - l) \in 1..m
  OBVIOUS
<1> QED BY <1>1, <1>3, <1>4, <1>5, <1>6

\* A sequence is the function that its elements make.
LEMMA ElementByElement ==
  ASSUME NEW S, NEW q \in Seq(S)
  PROVE  q = [i \in 1..Len(q) |-> q[i]]
<1>1. DOMAIN q = 1..Len(q) /\ q = [i \in DOMAIN q |-> q[i]]
  OBVIOUS
<1> QED BY <1>1

\* Numbers that increase and leave out none between a and b are a+1, a+2, ..., b.
LEMMA IncreasingOnto ==
  ASSUME NEW a \in Nat, NEW b \in Nat, a <= b, NEW w \in Seq(Nat),
         \A i \in 1..Len(w) : w[i] \in (a + 1)..b,
         \A i, k \in 1..Len(w) : i < k => w[i] < w[k],
         \A s \in (a + 1)..b : \E i \in 1..Len(w) : w[i] = s
  PROVE  w = [i \in 1..(b - a) |-> a + i]
<1>1. PICK l \in Nat : l = Len(w)
  BY LenProperties
<1>2. /\ \A i \in 1..l : w[i] \in (a + 1)..b
      /\ \A i, k \in 1..l : i < k => w[i] < w[k]
      /\ \A s \in (a + 1)..b : \E i \in 1..l : w[i] = s
  BY <1>1
<1>3. \A i \in 1..l : w[i] = a + i
  <2>1. PICK T : T = {i \in 1..l : w[i] # a + i}
    OBVIOUS
  <2>2. SUFFICES ASSUME T # {} PROVE FALSE
    BY <2>1
  <2>3. T \subseteq Nat
    BY <2>1
  <2>4. PICK m \in T : \A y \in T : m <= y
    BY <2>2, <2>3, LeastNumber
  <2>5. m \in 1..l /\ w[m] # a + m /\ \A i \in 1..l : i < m => w[i] = a + i
    BY <2>1, <2>4
  <2>6. w[m] \in Nat /\ w[m] >= a + m
    <3>1. CASE m = 1
      BY <1>2, <2>5, <3>1
    <3>2. CASE m # 1
      <4>1. m - 1 \in 1..l /\ m - 1 < m
        BY <2>5, <3>2
      <4>2. w[m - 1] = a + (m - 1) /\ w[m - 1] < w[m]
        BY <1>2, <2>5, <4>1
      <4>3. w[m] \in Nat
        BY <1>2, <2>5
      <4> QED BY <2>5, <4>2, <4>3
    <3> QED BY <3>1, <3>2
  <2>7. w[m] > a + m /\ w[m] \in (a + 1)..b
    <3>1. w[m] \in (a + 1)..b /\ m \in Nat /\ w[m] # a + m /\ w[m] >= a + m
      BY <1>2, <2>5, <2>6
    <3>2. ASSUME NEW x \in Nat, x >= a + m, x # a + m PROVE x > a + m
      BY <3>1, <3>2
    <3> QED BY <2>6, <3>1, <3>2
  <2>8. a + m \in (a + 1)..b
    BY <2>5, <2>7
  <2>9. PICK i \in 1..l : w[i] = a + m
    BY <1>2, <2>8
  <2>10. i # m /\ ~(i < m)
    BY <2>5, <2>9
  <2>11. w[m] < w[i]
    BY <1>2, <2>5, <2>10
  <2> QED BY <2>5, <2>7, <2>9, <2>11
<1>4. l = b - a
  <2>1. l <= b - a
    <3>1. CASE l = 0
      BY <3>1
    <3>2. CASE l # 0
      <4>1. l \in 1..l
        BY <3>2
      <4>2. w[l] = a + l /\ w[l] \in (a + 1)..b
        BY <1>2, <1>3, <4>1
      <4> QED BY <4>2
    <3> QED BY <3>1, <3>2
  <2>2. ~(l < b - a)
    <3> SUFFICES ASSUME l < b - a PROVE FALSE
      OBVIOUS
    <3>1. a + (l + 1) \in (a + 1)..b
      OBVIOUS
    <3>2. PICK i \in 1..l : w[i] = a + (l + 1)
      BY <1>2, <3>1
    <3>3. w[i] = a + i
      BY <1>3
    <3> QED BY <3>2, <3>3
  <2> QED BY <2>1, <2>2
<1>5. DOMAIN w = 1..l /\ w = [i \in DOMAIN w |-> w[i]]
  BY <1>1
<1>6. w = [i \in 1..l |-> w[i]]
  BY <1>5
<1> QED BY <1>3, <1>4, <1>6

-----------------------------------------------------------------------------

\* g begins with f.
Begins(f, g) ==
  /\ Len(f) <= Len(g)
  /\ \A i \in 1..Len(f) : g[i] = f[i]

\* What every call leaves behind: file only grown, failed() only raised, and
\* while it is down, file and buffer have grown by exactly the records taken.
Advances(j, k, taken) ==
  /\ k \in Journal
  /\ Begins(j.file, k.file)
  /\ j.failed => k.failed
  /\ ~k.failed /\ j.stdio = <<>> =>
       /\ k.stdio = <<>>
       /\ k.file \o k.buf = (j.file \o j.buf) \o taken

-----------------------------------------------------------------------------

\* A sequence begins what is got by appending to it.
LEMMA ConcatBegins ==
  ASSUME NEW f \in Seq(Record), NEW g \in Seq(Record)
  PROVE  f \o g \in Seq(Record) /\ Begins(f, f \o g)
BY DEF Begins

\* Beginning is transitive.
LEMMA BeginsTransitive ==
  ASSUME NEW f \in Seq(Record), NEW g \in Seq(Record), NEW h \in Seq(Record),
         Begins(f, g), Begins(g, h)
  PROVE  Begins(f, h)
BY DEF Begins

\* The records the publisher hands over are records of the journal.
LEMMA RecordTypes ==
  /\ \A s \in Nat : Frame(s) \in Record /\ StrokeEnd(s) \in Record
  /\ Note \in Record /\ Torn \in Record
BY DEF Frame, StrokeEnd, Note, Torn, Record

\* One record makes a sequence of records.
LEMMA SingletonSeq ==
  ASSUME NEW r \in Record
  PROVE  <<r>> \in Seq(Record)
OBVIOUS

\* The parts of a journal have their types.
LEMMA JournalFields ==
  ASSUME NEW j \in Journal
  PROVE  /\ j.buf \in Seq(Record) /\ j.stdio \in Seq(Record)
         /\ j.file \in Seq(Record) /\ j.failed \in BOOLEAN
BY DEF Journal

\* A flush the disk accepts leaves the file with all that was pending.
LEMMA AcceptedFlushAdvances ==
  ASSUME NEW j \in Journal, NEW k, k = Flushed(j)
  PROVE  Advances(j, k, <<>>) /\ k.buf = <<>>
<1>1. /\ j.buf \in Seq(Record) /\ j.stdio \in Seq(Record)
      /\ j.file \in Seq(Record) /\ j.failed \in BOOLEAN
  BY JournalFields
<1>2. PICK P \in Seq(Record) : P = Pending(j)
  <2>1. Pending(j) \in Seq(Record)
    BY <1>1 DEF Pending
  <2> QED BY <2>1
<1>3. k = [buf |-> <<>>, stdio |-> <<>>, file |-> j.file \o P,
           failed |-> j.failed]
  BY <1>2 DEF Flushed
<1>4. k \in Journal /\ Begins(j.file, k.file)
  BY <1>1, <1>3, ConcatBegins DEF Journal
<1>5. ASSUME j.stdio = <<>> PROVE k.file \o k.buf = (j.file \o j.buf) \o <<>>
  <2>1. P = j.buf
    BY <1>1, <1>2, <1>5, ConcatEmptySeq DEF Pending
  <2>2. k.file = j.file \o P /\ k.buf = <<>>
    BY <1>3
  <2> QED BY <2>1, <2>2
<1>6. k.stdio = <<>> /\ k.failed = j.failed /\ k.buf = <<>>
  BY <1>3
<1> QED BY <1>4, <1>5, <1>6 DEF Advances

\* A refused flush leaves what was on file in place and raises failed().
LEMMA RefusedFlushAdvances ==
  ASSUME NEW j \in Journal, NEW k, k \in RefusedFlushes(j)
  PROVE  Advances(j, k, <<>>) /\ k.buf = <<>> /\ k.failed = TRUE
<1>1. /\ j.buf \in Seq(Record) /\ j.stdio \in Seq(Record)
      /\ j.file \in Seq(Record) /\ j.failed \in BOOLEAN
  BY JournalFields
<1>2. PICK P \in Seq(Record) : P = Pending(j)
  <2>1. Pending(j) \in Seq(Record)
    BY <1>1 DEF Pending
  <2> QED BY <2>1
<1>3. PICK n \in 0..(Len(P) - 1), m \in 0..Len(P), half \in {<<>>, <<Torn>>} :
        k = RefusedAt(j, n, m, half)
  <2>1. Len(P) \in Nat
    BY <1>2
  <2>2. CASE \E n \in 0..(Len(P) - 1), m \in 0..Len(P) : k = RefusedAt(j, n, m, <<>>)
    BY <2>2
  <2>3. CASE \E n \in 0..(Len(P) - 1) : k = RefusedAt(j, n, n, <<Torn>>)
    BY <2>1, <2>3
  <2> QED BY <1>2, <2>2, <2>3 DEF RefusedFlushes
<1>4. PICK kept \in Seq(Record) : kept = SubSeq(P, n + 1, m)
  <2>1. /\ n + 1 \in Int /\ m \in Int
        /\ \A i \in (n + 1)..m : P[i] \in Record
    BY <1>2, <1>3, ElementOfSeq
  <2>2. SubSeq(P, n + 1, m) \in Seq(Record)
    BY <2>1, SubSeqProperties
  <2> QED BY <2>2
<1>5. PICK written \in Seq(Record) : written = SubSeq(P, 1, n)
  <2>1. /\ 1 \in Int /\ n \in Int
        /\ \A i \in 1..n : P[i] \in Record
    BY <1>2, <1>3, ElementOfSeq
  <2>2. SubSeq(P, 1, n) \in Seq(Record)
    BY <2>1, SubSeqProperties
  <2> QED BY <2>2
<1>6. half \in Seq(Record)
  <2>1. PICK t \in Record : t = Torn
    BY RecordTypes
  <2>2. <<t>> \in Seq(Record) /\ <<>> \in Seq(Record)
    OBVIOUS
  <2> QED BY <1>3, <2>1, <2>2
<1>7. PICK f \in Seq(Record) : f = j.file \o written \o half
  BY <1>1, <1>5, <1>6, ConcatBegins
<1>8. Begins(j.file, f)
  <2>1. j.file \o written \in Seq(Record) /\ Begins(j.file, j.file \o written)
    BY <1>1, ConcatBegins
  <2>2. Begins(j.file \o written, f)
    BY <1>6, <1>7, <2>1, ConcatBegins
  <2> QED BY <1>1, <2>1, <2>2, BeginsTransitive
<1>9. k = [buf |-> <<>>, stdio |-> kept, file |-> f, failed |-> TRUE]
  BY <1>2, <1>3, <1>4, <1>5, <1>7 DEF RefusedAt
<1>10. k \in Journal
  BY <1>9 DEF Journal
<1>11. k.file = f /\ k.failed = TRUE /\ k.buf = <<>>
  BY <1>9
<1> QED BY <1>8, <1>10, <1>11 DEF Advances

\* A flush, accepted or refused.
LEMMA FlushAdvances ==
  ASSUME NEW j \in Journal, NEW o, o \in FlushOutcomes(j)
  PROVE  /\ Advances(j, o.journal, <<>>)
         /\ o.journal.buf = <<>>
         /\ o.ok \in BOOLEAN
         /\ o = [journal |-> o.journal, ok |-> o.ok]
         /\ ~o.ok => o.journal.failed
<1>1. CASE o = [journal |-> Flushed(j), ok |-> TRUE]
  <2>1. PICK k : k = Flushed(j)
    OBVIOUS
  <2>2. o.journal = k /\ o.ok = TRUE /\ o = [journal |-> k, ok |-> TRUE]
    BY <1>1, <2>1
  <2> QED BY <2>1, <2>2, AcceptedFlushAdvances
<1>2. CASE \E r \in RefusedFlushes(j) : o = [journal |-> r, ok |-> FALSE]
  <2>1. PICK k \in RefusedFlushes(j) : o = [journal |-> k, ok |-> FALSE]
    BY <1>2
  <2>2. o.journal = k /\ o.ok = FALSE
    BY <2>1
  <2> QED BY <2>1, <2>2, RefusedFlushAdvances
<1> QED BY <1>1, <1>2 DEF FlushOutcomes

\* Taking a record into the buffer leaves the file alone.
LEMMA BufferedAdvances ==
  ASSUME NEW j \in Journal, NEW r \in Record, NEW k, k = Buffered(j, r)
  PROVE  Advances(j, k, <<r>>)
<1>1. /\ j.buf \in Seq(Record) /\ j.stdio \in Seq(Record)
      /\ j.file \in Seq(Record) /\ j.failed \in BOOLEAN
  BY JournalFields
<1>2. k = [buf |-> Append(j.buf, r), stdio |-> j.stdio,
           file |-> j.file, failed |-> j.failed]
  BY DEF Buffered
<1>3. k \in Journal
  BY <1>1, <1>2 DEF Journal
<1>4. j.file \o Append(j.buf, r) = (j.file \o j.buf) \o <<r>>
  <2>1. <<r>> \in Seq(Record)
    BY SingletonSeq
  <2>2. PICK w \in Seq(Record) : w = <<r>>
    BY <2>1
  <2>3. PICK f \in Seq(Record), b \in Seq(Record) : f = j.file /\ b = j.buf
    BY <1>1
  <2>4. Append(b, r) = b \o w
    BY <2>2, AppendIsConcat
  <2>5. f \o (b \o w) = (f \o b) \o w
    BY ConcatAssociative
  <2> QED BY <2>2, <2>3, <2>4, <2>5
<1>5. Begins(j.file, j.file)
  BY <1>1 DEF Begins
<1>6. /\ k.buf = Append(j.buf, r) /\ k.stdio = j.stdio
      /\ k.file = j.file /\ k.failed = j.failed
  BY <1>2
<1> QED BY <1>3, <1>4, <1>5, <1>6 DEF Advances

\* Two calls in a row.
LEMMA AdvancesCompose ==
  ASSUME NEW j \in Journal, NEW k, NEW l,
         NEW a \in Seq(Record), NEW b \in Seq(Record),
         Advances(j, k, a), Advances(k, l, b)
  PROVE  Advances(j, l, a \o b)
<1>1. k \in Journal /\ l \in Journal
  BY DEF Advances
<1>2. /\ j.buf \in Seq(Record) /\ j.file \in Seq(Record)
      /\ k.buf \in Seq(Record) /\ k.file \in Seq(Record)
      /\ l.file \in Seq(Record)
  BY <1>1, JournalFields
<1>3. Begins(j.file, l.file)
  BY <1>2, BeginsTransitive DEF Advances
<1>4. ((j.file \o j.buf) \o a) \o b = (j.file \o j.buf) \o (a \o b)
  <2>1. PICK w \in Seq(Record) : w = j.file \o j.buf
    BY <1>2, ConcatBegins
  <2>2. (w \o a) \o b = w \o (a \o b)
    BY ConcatAssociative
  <2> QED BY <2>1, <2>2
<1>5. ASSUME ~l.failed, j.stdio = <<>>
      PROVE  l.stdio = <<>> /\ l.file \o l.buf = (j.file \o j.buf) \o (a \o b)
  <2>1. ~k.failed
    BY <1>5 DEF Advances
  <2>2. k.stdio = <<>> /\ k.file \o k.buf = (j.file \o j.buf) \o a
    BY <1>5, <2>1 DEF Advances
  <2>3. l.stdio = <<>> /\ l.file \o l.buf = (k.file \o k.buf) \o b
    BY <1>5, <2>2 DEF Advances
  <2> QED BY <1>4, <2>2, <2>3
<1>6. j.failed => l.failed
  BY DEF Advances
<1> QED BY <1>1, <1>3, <1>5, <1>6 DEF Advances

\* The records a call took, by what it returned.
Taken(o, r) == IF o.ok THEN <<r>> ELSE <<>>

\* writeRecord only adds to the file, and while failed() is false the record
\* is behind everything that was handed over before.
LEMMA WriteAdvances ==
  ASSUME NEW j \in Journal, NEW r \in Record, NEW o \in WriteOutcomes(j, r)
  PROVE  /\ Advances(j, o.journal, Taken(o, r))
         /\ o.ok \in BOOLEAN
         /\ ~o.ok => o.journal.failed
<1>1. CASE o = [journal |-> Buffered(j, r), ok |-> TRUE]
  BY <1>1, BufferedAdvances DEF Taken
<1>2. CASE \E f \in FlushOutcomes(j) :
             o = IF f.ok THEN [f EXCEPT !.journal = Buffered(@, r)] ELSE f
  <2>1. PICK f \in FlushOutcomes(j) :
          o = IF f.ok THEN [f EXCEPT !.journal = Buffered(@, r)] ELSE f
    BY <1>2
  <2>2. /\ Advances(j, f.journal, <<>>) /\ f.ok \in BOOLEAN
        /\ f.journal \in Journal
    BY FlushAdvances DEF Advances
  <2>3. CASE f.ok
    <3>1. f = [journal |-> f.journal, ok |-> f.ok]
      BY DEF FlushOutcomes
    <3>2. o.journal = Buffered(f.journal, r) /\ o.ok
      BY <2>1, <2>3, <3>1
    <3>3. Advances(f.journal, o.journal, <<r>>)
      BY <2>2, <3>2, BufferedAdvances
    <3>4. Advances(j, o.journal, <<>> \o <<r>>)
      BY <2>2, <3>3, SingletonSeq, EmptySeq, AdvancesCompose
    <3>5. <<>> \o <<r>> = <<r>>
      BY ConcatEmptySeq
    <3> QED BY <3>2, <3>4, <3>5 DEF Taken
  <2>4. CASE ~f.ok
    BY <2>1, <2>2, <2>4, FlushAdvances DEF Taken
  <2> QED BY <2>2, <2>3, <2>4
<1> QED BY <1>1, <1>2 DEF WriteOutcomes

\* markStrokeEnd: when it returns true the buffer is empty, so the file alone
\* holds everything if failed() is false.
LEMMA StrokeEndAdvances ==
  ASSUME NEW j \in Journal, NEW s \in Nat, NEW o, o \in StrokeEndOutcomes(j, s)
  PROVE  /\ o.ok \in BOOLEAN
         /\ o.journal \in Journal
         /\ Begins(j.file, o.journal.file)
         /\ o.ok => /\ Advances(j, o.journal, <<StrokeEnd(s)>>)
                    /\ o.journal.buf = <<>>
         /\ ~o.ok => o.journal.failed
<1>1. PICK r \in Record : r = StrokeEnd(s)
  BY RecordTypes
<1>2. PICK w \in WriteOutcomes(j, r) :
        o \in IF w.ok THEN FlushOutcomes(w.journal) ELSE {w}
  BY <1>1 DEF StrokeEndOutcomes
<1>3. /\ Advances(j, w.journal, Taken(w, r)) /\ w.ok \in BOOLEAN
      /\ ~w.ok => w.journal.failed
  BY WriteAdvances
<1>4. w.journal \in Journal /\ Begins(j.file, w.journal.file)
  BY <1>3 DEF Advances
<1>5. CASE w.ok
  <2>1. o \in FlushOutcomes(w.journal)
    BY <1>2, <1>5
  <2>2. /\ Advances(w.journal, o.journal, <<>>) /\ o.journal.buf = <<>>
        /\ o.ok \in BOOLEAN
        /\ ~o.ok => o.journal.failed
    BY <1>4, <2>1, FlushAdvances
  <2>3. Advances(j, w.journal, <<r>>)
    BY <1>3, <1>5 DEF Taken
  <2>4. Advances(j, o.journal, <<r>> \o <<>>)
    BY <2>2, <2>3, SingletonSeq, EmptySeq, AdvancesCompose
  <2>5. <<r>> \o <<>> = <<r>>
    BY SingletonSeq, ConcatEmptySeq
  <2>6. Advances(j, o.journal, <<StrokeEnd(s)>>)
    BY <1>1, <2>4, <2>5
  <2>7. o.journal \in Journal /\ Begins(j.file, o.journal.file)
    BY <2>6 DEF Advances
  <2> QED BY <2>2, <2>6, <2>7
<1>6. CASE ~w.ok
  BY <1>2, <1>3, <1>4, <1>6
<1> QED BY <1>3, <1>5, <1>6

\* A stroke end never takes failed() back.
LEMMA StrokeEndNeverClears ==
  ASSUME NEW j \in Journal, NEW s \in Nat, NEW o, o \in StrokeEndOutcomes(j, s), j.failed
  PROVE  o.journal.failed
<1>1. o.ok => Advances(j, o.journal, <<StrokeEnd(s)>>)
  BY StrokeEndAdvances
<1>2. ~o.ok => o.journal.failed
  BY StrokeEndAdvances
<1> QED BY <1>1, <1>2 DEF Advances

\* A dying journal's file only grows.
LEMMA DeathBegins ==
  ASSUME NEW j \in Journal, NEW f, f \in FilesAtDeath(j)
  PROVE  f \in Seq(Record) /\ Begins(j.file, f)
<1>1. /\ j.buf \in Seq(Record) /\ j.stdio \in Seq(Record)
      /\ j.file \in Seq(Record)
  BY JournalFields
<1>2. PICK P \in Seq(Record) : P = Pending(j)
  <2>1. Pending(j) \in Seq(Record)
    BY <1>1 DEF Pending
  <2> QED BY <2>1
<1>3. PICK n \in 0..Len(P) : \/ f = j.file \o SubSeq(P, 1, n)
                             \/ f = j.file \o SubSeq(P, 1, n) \o <<Torn>>
  BY <1>2 DEF FilesAtDeath
<1>4. PICK written \in Seq(Record) : written = SubSeq(P, 1, n)
  <2>1. /\ 1 \in Int /\ n \in Int
        /\ \A i \in 1..n : P[i] \in Record
    BY <1>2, <1>3, ElementOfSeq
  <2>2. SubSeq(P, 1, n) \in Seq(Record)
    BY <2>1, SubSeqProperties
  <2> QED BY <2>2
<1>5. PICK g \in Seq(Record) : g = j.file \o written /\ Begins(j.file, g)
  BY <1>1, ConcatBegins
<1>6. PICK t \in Seq(Record) : t = <<Torn>>
  BY RecordTypes, SingletonSeq
<1>7. g \o t \in Seq(Record) /\ Begins(g, g \o t)
  BY ConcatBegins
<1>8. Begins(j.file, g \o t)
  BY <1>1, <1>5, <1>7, BeginsTransitive
<1> QED BY <1>3, <1>4, <1>5, <1>6, <1>7, <1>8

-----------------------------------------------------------------------------
(* Reading.                                                                 *)

\* What the frames read back are: `at` tells where in the file each of them was.
Read(w, file, n, wanted, at) ==
  /\ at \in [1..Len(w) -> 1..n]
  /\ \A i \in 1..Len(w) :
       w[i] = file[at[i]].seq /\ IsFrame(file[at[i]]) /\ file[at[i]].seq \in wanted
  /\ \A i, j \in 1..Len(w) : i < j => at[i] < at[j]
  /\ \A k \in 1..n : IsFrame(file[k]) /\ file[k].seq \in wanted => \E i \in 1..Len(w) : at[i] = k

\* One step of reading, from what the steps before have read.
ReadStep(file, wanted, before, i) ==
  IF i = 0 THEN <<>>
  ELSE IF IsFrame(file[i]) /\ file[i].seq \in wanted THEN Append(before[i - 1], file[i].seq)
  ELSE before[i - 1]

\* The steps can be made one after the other.
LEMMA ReadingGoesOn ==
  ASSUME NEW file, NEW wanted, NEW n \in Nat
  PROVE  \E f : f = [i \in 0..n |-> ReadStep(file, wanted, f, i)]
<1> DEFINE T == {m \in Nat : ~ \E f : f = [i \in 0..m |-> ReadStep(file, wanted, f, i)]}
<1>1. T = {}
  <2> SUFFICES ASSUME T # {} PROVE FALSE
    OBVIOUS
  <2>1. PICK m \in T : \A y \in T : m <= y
    <3>1. T \subseteq Nat
      OBVIOUS
    <3> HIDE DEF T
    <3> QED BY <3>1, LeastNumber
  <2>2. m \in Nat /\ ~ \E f : f = [i \in 0..m |-> ReadStep(file, wanted, f, i)]
    OBVIOUS
  <2>3. CASE m = 0
    <3>1. PICK f : f = [i \in 0..0 |-> <<>>]
      OBVIOUS
    <3>2. f = [i \in 0..m |-> ReadStep(file, wanted, f, i)]
      BY <2>3, <3>1 DEF ReadStep
    <3> QED BY <2>2, <3>2
  <2>4. CASE m # 0
    <3>1. m - 1 \in Nat /\ ~(m <= m - 1)
      BY <2>2, <2>4
    <3>2. m - 1 \notin T
      BY <2>1, <3>1
    <3>3. PICK f : f = [i \in 0..(m - 1) |-> ReadStep(file, wanted, f, i)]
      BY <3>1, <3>2
    <3>4. PICK g : g = [i \in 0..m |-> IF i = m THEN ReadStep(file, wanted, f, m) ELSE f[i]]
      OBVIOUS
    <3>5. \A i \in 0..(m - 1) : g[i] = f[i] /\ f[i] = ReadStep(file, wanted, f, i)
      <4> SUFFICES ASSUME NEW i \in 0..(m - 1)
                   PROVE  g[i] = f[i] /\ f[i] = ReadStep(file, wanted, f, i)
        OBVIOUS
      <4>1. i \in 0..m /\ i # m
        BY <2>2
      <4> QED BY <3>3, <3>4, <4>1
    <3>6. ASSUME NEW i \in 0..m PROVE g[i] = ReadStep(file, wanted, g, i)
      <4>1. i # 0 => i - 1 \in 0..(m - 1) /\ g[i - 1] = f[i - 1]
        BY <2>2, <3>5
      <4>2. ReadStep(file, wanted, g, i) = ReadStep(file, wanted, f, i)
        BY <4>1 DEF ReadStep
      <4>3. i = m \/ i \in 0..(m - 1)
        BY <2>2
      <4> QED BY <3>4, <3>5, <4>2, <4>3
    <3>7. g = [i \in 0..m |-> ReadStep(file, wanted, g, i)]
      BY <3>4, <3>6
    <3> QED BY <2>2, <3>7
  <2> QED BY <2>3, <2>4
<1> QED BY <1>1

\* One more record is read.
LEMMA ReadOneMore ==
  ASSUME NEW file \in Seq(Record), NEW wanted, NEW n \in 1..Len(file), NEW w \in Seq(Nat), NEW at,
         Read(w, file, n - 1, wanted, at), NEW v,
         \/ IsFrame(file[n]) /\ file[n].seq \in wanted /\ v = Append(w, file[n].seq)
         \/ ~(IsFrame(file[n]) /\ file[n].seq \in wanted) /\ v = w
  PROVE  v \in Seq(Nat) /\ \E k : Read(v, file, n, wanted, k)
<1>0. PICK I : I = {i \in 1..Len(file) : IsFrame(file[i]) /\ file[i].seq \in wanted}
  OBVIOUS
<1>1. PICK l \in Nat : l = Len(w)
  OBVIOUS
<1>2. n \in Nat /\ n # 0 /\ n \in 1..Len(file)
  OBVIOUS
<1>3. file[n].seq \in Nat
  <2>1. file[n] \in Record
    BY ElementOfSeq
  <2> QED BY <2>1 DEF Record
<1>4. /\ at \in [1..l -> 1..(n - 1)]
      /\ \A i \in 1..l : w[i] = file[at[i]].seq /\ at[i] \in I
      /\ \A i, j \in 1..l : i < j => at[i] < at[j]
      /\ \A k \in 1..(n - 1) : k \in I => \E i \in 1..l : at[i] = k
  <2>1. \A k \in 1..(n - 1) : k \in 1..Len(file)
    BY <1>2
  <2> QED BY <1>0, <1>1, <2>1 DEF Read
<1>5. \A i \in 1..l : at[i] \in 1..(n - 1) /\ at[i] \in 1..n /\ at[i] < n
  BY <1>1, <1>2, <1>4
<1>6. CASE n \in I
  <2>1. v = Append(w, file[n].seq)
    BY <1>0, <1>6
  <2>2. /\ v \in Seq(Nat) /\ Len(v) = l + 1
        /\ \A i \in 1..l : v[i] = w[i]
        /\ v[l + 1] = file[n].seq
    BY <1>1, <1>3, <2>1, Appended
  <2>3. PICK k : k = [i \in 1..(l + 1) |-> IF i = l + 1 THEN n ELSE at[i]]
    OBVIOUS
  <2>4. \A i \in 1..(l + 1) : (i \in 1..l /\ i # l + 1 /\ k[i] = at[i]) \/ (i = l + 1 /\ k[i] = n)
    BY <1>1, <2>3
  <2>5. k \in [1..(l + 1) -> 1..n]
    BY <1>2, <1>5, <2>3, <2>4
  <2>6. \A i \in 1..(l + 1) : v[i] = file[k[i]].seq /\ k[i] \in I
    BY <1>4, <1>6, <2>2, <2>4
  <2>7. ASSUME NEW i \in 1..(l + 1), NEW j \in 1..(l + 1), i < j PROVE k[i] < k[j]
    <3>1. i \in 1..l /\ k[i] = at[i]
      BY <2>4, <2>7, <1>1
    <3> QED BY <1>4, <1>5, <2>4, <2>7, <3>1
  <2>8. ASSUME NEW p \in 1..n, p \in I PROVE \E i \in 1..(l + 1) : k[i] = p
    <3>1. CASE p = n
      BY <1>1, <2>3, <3>1
    <3>2. CASE p # n
      <4>1. p \in 1..(n - 1)
        BY <1>2, <3>2
      <4>2. PICK i \in 1..l : at[i] = p
        BY <1>4, <2>8, <4>1
      <4>3. i \in 1..(l + 1) /\ i # l + 1
        BY <1>1
      <4> QED BY <2>3, <4>2, <4>3
    <3> QED BY <3>1, <3>2
  <2>9. \A p \in 1..n : IsFrame(file[p]) /\ file[p].seq \in wanted => p \in I
    BY <1>0, <1>2
  <2>10. Read(v, file, n, wanted, k)
    BY <1>0, <2>2, <2>5, <2>6, <2>7, <2>8, <2>9 DEF Read
  <2> QED BY <2>2, <2>10
<1>7. CASE n \notin I
  <2>1. v = w /\ ~(IsFrame(file[n]) /\ file[n].seq \in wanted)
    BY <1>0, <1>2, <1>7
  <2>2. at \in [1..l -> 1..n]
    BY <1>4, <1>5
  <2>3. \A p \in 1..n : IsFrame(file[p]) /\ file[p].seq \in wanted => p \in 1..(n - 1) /\ p \in I
    BY <1>0, <1>2, <2>1
  <2>4. Read(v, file, n, wanted, at)
    BY <1>0, <1>1, <1>4, <2>1, <2>2, <2>3 DEF Read
  <2> QED BY <2>1, <2>4
<1> QED BY <1>6, <1>7

\* What is read back are the frames asked for, each once and in their order.
LEMMA FrameSeqsAre ==
  ASSUME NEW file \in Seq(Record), NEW n \in 0..Len(file), NEW wanted,
         NEW w, w = FrameSeqs(file, n, wanted)
  PROVE  w \in Seq(Nat) /\ \E at : Read(w, file, n, wanted, at)
<1>1. n \in Nat
  OBVIOUS
<1>2. PICK f : f = [i \in 0..n |-> ReadStep(file, wanted, f, i)] /\ w = f[n]
  <2>1. PICK f : f = CHOOSE g : g = [i \in 0..n |-> ReadStep(file, wanted, g, i)]
    OBVIOUS
  <2>2. f = [i \in 0..n |-> ReadStep(file, wanted, f, i)]
    BY <1>1, <2>1, ReadingGoesOn
  <2>3. w = f[n]
    BY <2>1 DEF FrameSeqs, ReadStep
  <2> QED BY <2>2, <2>3
<1> DEFINE T == {i \in Nat : i <= n /\ ~(f[i] \in Seq(Nat) /\ \E at : Read(f[i], file, i, wanted, at))}
<1>3. T = {}
  <2> SUFFICES ASSUME T # {} PROVE FALSE
    OBVIOUS
  <2>1. PICK m \in T : \A y \in T : m <= y
    <3>1. T \subseteq Nat
      OBVIOUS
    <3> HIDE DEF T
    <3> QED BY <3>1, LeastNumber
  <2>2. m \in Nat /\ m <= n /\ ~(f[m] \in Seq(Nat) /\ \E at : Read(f[m], file, m, wanted, at))
    OBVIOUS
  <2>3. m \in 0..n /\ f[m] = ReadStep(file, wanted, f, m)
    BY <1>2, <2>2
  <2>4. CASE m = 0
    <3>1. f[m] = <<>> /\ Len(<<>>) = 0 /\ <<>> \in Seq(Nat)
      BY <2>3, <2>4, EmptySeq DEF ReadStep
    <3>2. PICK e, at : e = <<>> /\ at = [i \in 1..0 |-> 1] /\ Len(e) = 0
      BY <3>1
    <3>3. Read(e, file, 0, wanted, at)
      BY <3>2 DEF Read
    <3> QED BY <2>2, <2>4, <3>1, <3>2, <3>3
  <2>5. CASE m # 0
    <3>1. m - 1 \in Nat /\ ~(m <= m - 1) /\ m - 1 <= n /\ m \in 1..Len(file)
      BY <1>1, <2>2, <2>5
    <3>2. m - 1 \notin T
      BY <2>1, <3>1
    <3>3. PICK a, v : a = f[m - 1] /\ v = f[m]
      OBVIOUS
    <3>4. a \in Seq(Nat) /\ \E at : Read(a, file, m - 1, wanted, at)
      BY <3>1, <3>2, <3>3
    <3>5. PICK at : Read(a, file, m - 1, wanted, at)
      BY <3>4
    <3>6. \/ IsFrame(file[m]) /\ file[m].seq \in wanted /\ v = Append(a, file[m].seq)
          \/ ~(IsFrame(file[m]) /\ file[m].seq \in wanted) /\ v = a
      BY <2>3, <2>5, <3>3 DEF ReadStep
    <3>7. v \in Seq(Nat) /\ \E k : Read(v, file, m, wanted, k)
      BY <3>1, <3>4, <3>5, <3>6, ReadOneMore
    <3> QED BY <2>2, <3>3, <3>7
  <2> QED BY <2>4, <2>5
<1> HIDE DEF T
<1>4. n \notin T /\ n <= n
  BY <1>1, <1>3
<1> USE DEF T
<1>5. f[n] \in Seq(Nat) /\ \E at : Read(f[n], file, n, wanted, at)
  BY <1>1, <1>4
<1> QED BY <1>2, <1>5

-----------------------------------------------------------------------------
(* The order of the frames.                                                 *)

\* All the records a journal still has, wherever they are.
AllOf(j) == j.file \o Pending(j)

\* The frames come in the order of their numbers, and those are at most n.
FramesAscend(r, n) ==
  /\ \A i \in 1..Len(r) : IsFrame(r[i]) => r[i].seq \in 1..n
  /\ \A i, k \in 1..Len(r) : i < k /\ IsFrame(r[i]) /\ IsFrame(r[k]) => r[i].seq < r[k].seq

\* What a refusal or a kill leaves of w: half a record may stand for a whole one.
Remains(v, w) ==
  /\ Len(v) <= Len(w)
  /\ \A i \in 1..Len(v) : v[i] = w[i] \/ v[i] = Torn

\* What remains of records in order is in order.
LEMMA RemainsAscend ==
  ASSUME NEW v \in Seq(Record), NEW w \in Seq(Record), Remains(v, w), NEW n, FramesAscend(w, n)
  PROVE  FramesAscend(v, n)
<1>1. \A i \in 1..Len(v) : IsFrame(v[i]) => i \in 1..Len(w) /\ v[i] = w[i]
  <2> SUFFICES ASSUME NEW i \in 1..Len(v), IsFrame(v[i]) PROVE i \in 1..Len(w) /\ v[i] = w[i]
    OBVIOUS
  <2>1. v[i] # Torn
    BY DEF IsFrame, Torn
  <2>2. Len(v) \in Nat /\ Len(w) \in Nat
    OBVIOUS
  <2> QED BY <2>1, <2>2 DEF Remains
<1> QED BY <1>1 DEF FramesAscend

\* The next frame, or a record that is none, may follow.
LEMMA OneMoreAscends ==
  ASSUME NEW w \in Seq(Record), NEW n \in Nat, FramesAscend(w, n), NEW r \in Record, NEW m \in Nat,
         (~IsFrame(r) /\ m = n) \/ (r = Frame(n + 1) /\ m = n + 1),
         NEW v, v = Append(w, r)
  PROVE  v \in Seq(Record) /\ FramesAscend(v, m)
<1>1. /\ v \in Seq(Record) /\ Len(v) = Len(w) + 1 /\ Len(w) \in Nat
      /\ \A i \in 1..Len(w) : v[i] = w[i]
      /\ v[Len(w) + 1] = r
  BY Appended
<1>2. \A i \in 1..Len(v) : i \in 1..Len(w) \/ i = Len(w) + 1
  BY <1>1
<1>3. IsFrame(r) => r.seq = n + 1 /\ m = n + 1
  BY DEF Frame
<1>4. \A i \in 1..Len(w) : IsFrame(w[i]) => w[i].seq \in 1..m /\ w[i].seq \in 1..n
  BY DEF FramesAscend
<1>5. ASSUME NEW i \in 1..Len(v), IsFrame(v[i]) PROVE v[i].seq \in 1..m
  BY <1>1, <1>2, <1>3, <1>4, <1>5
<1>6. ASSUME NEW i \in 1..Len(v), NEW k \in 1..Len(v), i < k, IsFrame(v[i]), IsFrame(v[k])
      PROVE  v[i].seq < v[k].seq
  <2>1. i \in 1..Len(w) /\ v[i] = w[i]
    BY <1>1, <1>2, <1>6
  <2>2. CASE k \in 1..Len(w)
    BY <1>1, <1>6, <2>1, <2>2 DEF FramesAscend
  <2>3. CASE k = Len(w) + 1
    <3>1. v[k].seq = n + 1
      BY <1>1, <1>3, <1>6, <2>3
    <3>2. v[i].seq \in 1..n
      BY <1>4, <1>6, <2>1
    <3> QED BY <3>1, <3>2
  <2> QED BY <1>2, <2>2, <2>3
<1> QED BY <1>1, <1>5, <1>6 DEF FramesAscend

\* The records of a journal are records.
LEMMA AllIs ==
  ASSUME NEW j \in Journal, NEW w, w = AllOf(j)
  PROVE  /\ Pending(j) \in Seq(Record) /\ w \in Seq(Record)
         /\ Len(w) = Len(j.file) + Len(Pending(j))
<1>1. j.buf \in Seq(Record) /\ j.stdio \in Seq(Record) /\ j.file \in Seq(Record)
  BY JournalFields
<1>2. PICK p : p = Pending(j) /\ p \in Seq(Record)
  <2>1. Pending(j) \in Seq(Record)
    BY <1>1 DEF Pending
  <2> QED BY <2>1
<1>3. w = j.file \o p
  BY <1>2 DEF AllOf
<1>4. w \in Seq(Record) /\ Len(w) = Len(j.file) + Len(p)
  BY <1>1, <1>2, <1>3, Joined
<1> QED BY <1>2, <1>4

\* A sequence followed by the beginning of another one.
LEMMA BeginningOf ==
  ASSUME NEW f \in Seq(Record), NEW p \in Seq(Record), NEW n \in 0..Len(p),
         NEW g, g = f \o SubSeq(p, 1, n), NEW w, w = f \o p
  PROVE  /\ g \in Seq(Record) /\ Len(g) = Len(f) + n /\ Len(w) = Len(f) + Len(p)
         /\ \A i \in 1..Len(g) : g[i] = w[i]
<1>0. PICK s : s = SubSeq(p, 1, n)
  OBVIOUS
<1>1. PICK a \in Nat, b \in Nat : a = Len(f) /\ b = Len(p) /\ s = SubSeq(p, 1, n)
  <2>1. Len(f) \in Nat /\ Len(p) \in Nat
    OBVIOUS
  <2> QED BY <1>0, <2>1
<1>2. /\ s \in Seq(Record) /\ Len(s) = n
      /\ \A i \in 1..n : s[i] = p[i]
  <2>1. n \in Nat /\ n <= Len(p) /\ 1 <= n + 1 /\ 1 \in Nat \ {0}
    BY <1>1
  <2>2. /\ s \in Seq(Record) /\ Len(s) = (n - 1) + 1
        /\ \A i \in 1..Len(s) : s[i] = p[(1 + i) - 1]
    BY <1>1, <2>1, Cut
  <2>3. (n - 1) + 1 = n /\ \A i \in 1..n : (1 + i) - 1 = i
    BY <2>1
  <2> QED BY <2>2, <2>3
<1>3. g = f \o s
  BY <1>1
<1>4. /\ g \in Seq(Record) /\ Len(g) = a + n
      /\ \A i \in 1..a : g[i] = f[i]
      /\ \A i \in 1..n : g[a + i] = s[i]
  BY <1>1, <1>2, <1>3, Joined
<1>5. /\ w \in Seq(Record) /\ Len(w) = a + b
      /\ \A i \in 1..a : w[i] = f[i]
      /\ \A i \in 1..b : w[a + i] = p[i]
  BY <1>1, Joined
<1>6. ASSUME NEW i \in 1..(a + n) PROVE g[i] = w[i]
  <2>1. CASE i \in 1..a
    BY <1>4, <1>5, <2>1
  <2>2. CASE i \notin 1..a
    <3>1. PICK k \in Nat : k = i - a /\ k \in 1..n /\ k \in 1..b /\ i = a + k
      <4>1. n \in Nat /\ n <= b /\ a \in Nat /\ b \in Nat
        BY <1>1
      <4>2. i - a \in Nat /\ i - a \in 1..n /\ i - a \in 1..b /\ i = a + (i - a)
        BY <2>2, <4>1
      <4> QED BY <4>2
    <3> QED BY <1>2, <1>4, <1>5, <3>1
  <2> QED BY <2>1, <2>2
<1> QED BY <1>1, <1>4, <1>5, <1>6

\* A flush leaves all records, or what remains of them.
LEMMA FlushRemains ==
  ASSUME NEW j \in Journal, NEW o, o \in FlushOutcomes(j)
  PROVE  Remains(AllOf(o.journal), AllOf(j))
<1>1. j.buf \in Seq(Record) /\ j.stdio \in Seq(Record) /\ j.file \in Seq(Record)
  BY JournalFields
<1>2. PICK f, p, w : /\ f = j.file /\ p = Pending(j) /\ w = f \o p
                     /\ f \in Seq(Record) /\ p \in Seq(Record) /\ w = AllOf(j)
  BY <1>1, AllIs DEF AllOf
<1>3. PICK a \in Nat, b \in Nat : a = Len(f) /\ b = Len(p)
  BY <1>2
<1>4. w \in Seq(Record) /\ Len(w) = a + b /\ \A i \in 1..b : w[a + i] = p[i]
  <2>1. /\ w \in Seq(Record) /\ Len(w) = Len(f) + Len(p)
        /\ \A i \in 1..Len(p) : w[Len(f) + i] = p[i]
    <3>1. f \in Seq(Record) /\ p \in Seq(Record) /\ w = f \o p
      BY <1>2
    <3> QED BY <3>1, Joined
  <2> QED BY <1>3, <2>1
<1>5. CASE o.journal = Flushed(j)
  <2>1. o.journal.file = w /\ Pending(o.journal) = <<>> \o <<>>
    <3>1. PICK c : c = j.failed
      OBVIOUS
    <3>2. o.journal = [buf |-> <<>>, stdio |-> <<>>, file |-> w, failed |-> c]
      BY <1>2, <1>5, <3>1 DEF Flushed
    <3>3. o.journal.file = w /\ o.journal.buf = <<>> /\ o.journal.stdio = <<>>
      BY <3>2
    <3> QED BY <3>3 DEF Pending
  <2>2. AllOf(o.journal) = w \o (<<>> \o <<>>)
    BY <2>1 DEF AllOf
  <2>3. <<>> \o <<>> = <<>> /\ w \o <<>> = w
    BY <1>4, ConcatEmptySeq, EmptySeq
  <2> QED BY <1>2, <1>4, <2>2, <2>3 DEF Remains
<1>6. CASE \E n \in 0..(b - 1), k \in 0..b : o.journal = RefusedAt(j, n, k, <<>>)
  <2>1. PICK n \in 0..(b - 1), k \in 0..b : o.journal = RefusedAt(j, n, k, <<>>)
    BY <1>6
  <2>2. PICK g, s : g = f \o SubSeq(p, 1, n) /\ s = SubSeq(p, n + 1, k)
    OBVIOUS
  <2>3. n \in 0..Len(p) /\ n \in Nat /\ n < b /\ k \in Nat /\ k <= b
    BY <1>3
  <2>4. g \in Seq(Record) /\ Len(g) = a + n /\ \A i \in 1..(a + n) : g[i] = w[i]
    <3>1. /\ f \in Seq(Record) /\ p \in Seq(Record) /\ n \in 0..Len(p)
          /\ g = f \o SubSeq(p, 1, n) /\ w = f \o p
      BY <1>2, <2>2, <2>3
    <3>2. g \in Seq(Record) /\ Len(g) = Len(f) + n /\ \A i \in 1..Len(g) : g[i] = w[i]
      BY <3>1, BeginningOf
    <3> QED BY <1>3, <3>2
  <2>5. /\ s \in Seq(Record) /\ (Len(s) = 0 \/ n + Len(s) <= b)
        /\ \A i \in 1..Len(s) : s[i] = p[n + i]
    <3>1. CASE n <= k
      <4>1. n + 1 \in Nat \ {0} /\ k <= Len(p) /\ n + 1 <= k + 1
        BY <1>3, <2>3, <3>1
      <4>2. /\ s \in Seq(Record) /\ Len(s) = (k - (n + 1)) + 1
            /\ \A i \in 1..Len(s) : s[i] = p[((n + 1) + i) - 1]
        BY <1>2, <2>2, <2>3, <4>1, Cut
      <4>3. n + ((k - (n + 1)) + 1) <= b
        BY <1>3, <2>3
      <4>4. \A i \in Nat : ((n + 1) + i) - 1 = n + i
        BY <2>3
      <4> QED BY <4>2, <4>3, <4>4
    <3>2. CASE ~(n <= k)
      <4>1. s = <<>>
        <5>1. n + 1 \in Int /\ k \in Int /\ n + 1 > k
          BY <2>3, <3>2
        <5>2. /\ SubSeq(p, n + 1, k) \in Seq(Record)
              /\ Len(SubSeq(p, n + 1, k)) = IF n + 1 <= k THEN k - (n + 1) + 1 ELSE 0
          <6>1. \A i \in (n + 1)..k : p[i] \in Record
            BY <5>1
          <6> QED BY <5>1, <6>1, SubSeqProperties
        <5>3. Len(s) = 0 /\ s \in Seq(Record)
          BY <2>2, <5>1, <5>2
        <5> QED BY <5>3, EmptySeq
      <4> QED BY <4>1, EmptySeq
    <3> QED BY <3>1, <3>2
  <2>6. AllOf(o.journal) = (g \o <<>>) \o (s \o <<>>)
    <3>1. PICK y : y = g \o <<>>
      OBVIOUS
    <3>2. o.journal = [buf |-> <<>>, stdio |-> s, file |-> y, failed |-> TRUE]
      BY <1>2, <2>1, <2>2, <3>1 DEF RefusedAt
    <3>3. o.journal.buf = <<>> /\ o.journal.stdio = s /\ o.journal.file = y
      BY <3>2
    <3> QED BY <3>1, <3>3 DEF AllOf, Pending
  <2>7. PICK v : v = AllOf(o.journal) /\ v = g \o s
    BY <2>4, <2>5, <2>6, ConcatEmptySeq
  <2>8. /\ Len(v) = (a + n) + Len(s)
        /\ \A i \in 1..(a + n) : v[i] = g[i]
        /\ \A i \in 1..Len(s) : v[(a + n) + i] = s[i]
    <3>1. /\ Len(v) = Len(g) + Len(s)
          /\ \A i \in 1..Len(g) : v[i] = g[i]
          /\ \A i \in 1..Len(s) : v[Len(g) + i] = s[i]
      <4>1. g \in Seq(Record) /\ s \in Seq(Record) /\ v = g \o s
        BY <2>4, <2>5, <2>7
      <4> QED BY <4>1, Joined
    <3> QED BY <2>4, <3>1
  <2>9. PICK l \in Nat : l = Len(s)
    BY <2>5
  <2>10. (a + n) + l <= a + b
    <3>1. l = 0 \/ n + l <= b
      BY <2>5, <2>9
    <3> QED BY <1>3, <2>3, <2>9, <3>1
  <2>11. ASSUME NEW i \in 1..((a + n) + l) PROVE v[i] = w[i]
    <3>1. CASE i \in 1..(a + n)
      BY <2>4, <2>8, <3>1
    <3>2. CASE i \notin 1..(a + n)
      <4>1. PICK k1 \in Nat : k1 = i - (a + n)
        <5>1. n \in Nat /\ a \in Nat /\ l \in Nat
          BY <2>3
        <5> QED BY <3>2, <5>1
      <4>2. k1 \in 1..l /\ i = (a + n) + k1 /\ i = a + (n + k1) /\ n + k1 \in 1..b
        <5>1. l = 0 \/ n + l <= b
          BY <2>5, <2>9
        <5>2. n \in Nat /\ a \in Nat /\ b \in Nat /\ l \in Nat
          BY <2>3
        <5> QED BY <3>2, <4>1, <5>1, <5>2
      <4>3. v[i] = s[k1] /\ s[k1] = p[n + k1] /\ w[a + (n + k1)] = p[n + k1]
        BY <1>4, <2>5, <2>8, <2>9, <4>2
      <4> QED BY <4>2, <4>3
    <3> QED BY <3>1, <3>2
  <2> QED BY <1>2, <1>4, <2>7, <2>8, <2>9, <2>10, <2>11 DEF Remains
<1>7. CASE \E n \in 0..(b - 1) : o.journal = RefusedAt(j, n, n, <<Torn>>)
  <2>1. PICK n \in 0..(b - 1) : o.journal = RefusedAt(j, n, n, <<Torn>>)
    BY <1>7
  <2>2. PICK g, s, t : g = f \o SubSeq(p, 1, n) /\ s = SubSeq(p, n + 1, n) /\ t = Torn
    OBVIOUS
  <2>3. n \in 0..Len(p) /\ n \in Nat /\ n < b
    BY <1>3
  <2>4. g \in Seq(Record) /\ Len(g) = a + n /\ \A i \in 1..(a + n) : g[i] = w[i]
    <3>1. /\ f \in Seq(Record) /\ p \in Seq(Record) /\ n \in 0..Len(p)
          /\ g = f \o SubSeq(p, 1, n) /\ w = f \o p
      BY <1>2, <2>2, <2>3
    <3>2. g \in Seq(Record) /\ Len(g) = Len(f) + n /\ \A i \in 1..Len(g) : g[i] = w[i]
      BY <3>1, BeginningOf
    <3> QED BY <1>3, <3>2
  <2>5. s = <<>>
    <3>1. n + 1 \in Nat \ {0} /\ n <= Len(p) /\ n + 1 <= n + 1
      BY <1>3, <2>3
    <3>2. s \in Seq(Record) /\ Len(s) = (n - (n + 1)) + 1
      BY <1>2, <2>2, <2>3, <3>1, Cut
    <3>3. (n - (n + 1)) + 1 = 0
      BY <2>3
    <3> QED BY <3>2, <3>3, EmptySeq
  <2>6. AllOf(o.journal) = (g \o <<t>>) \o (<<>> \o <<>>)
    <3>1. PICK y : y = g \o <<t>>
      OBVIOUS
    <3>2. o.journal = [buf |-> <<>>, stdio |-> s, file |-> y, failed |-> TRUE]
      BY <1>2, <2>1, <2>2, <3>1 DEF RefusedAt
    <3>3. o.journal.buf = <<>> /\ o.journal.stdio = s /\ o.journal.file = y
      BY <3>2
    <3> QED BY <2>5, <3>1, <3>3 DEF AllOf, Pending
  <2>7. t \in Record
    BY <2>2, RecordTypes
  <2>8. PICK v : v = AllOf(o.journal) /\ v = Append(g, t)
    <3>1. g \o <<t>> = Append(g, t) /\ Append(g, t) \in Seq(Record) /\ <<>> \o <<>> = <<>>
      BY <2>4, <2>7, AppendIsConcat, ConcatEmptySeq, EmptySeq
    <3> QED BY <2>6, <3>1, ConcatEmptySeq
  <2>9. /\ Len(v) = (a + n) + 1
        /\ \A i \in 1..(a + n) : v[i] = g[i]
        /\ v[(a + n) + 1] = t
    BY <2>4, <2>7, <2>8, Appended
  <2>10. (a + n) + 1 <= a + b
    BY <1>3, <2>3
  <2>11. ASSUME NEW i \in 1..((a + n) + 1) PROVE v[i] = w[i] \/ v[i] = Torn
    <3>1. i \in 1..(a + n) \/ i = (a + n) + 1
      BY <1>3, <2>3
    <3> QED BY <2>2, <2>4, <2>9, <3>1
  <2> QED BY <1>2, <1>4, <2>8, <2>9, <2>10, <2>11 DEF Remains
<1>8. \/ o.journal = Flushed(j)
      \/ \E n \in 0..(b - 1), k \in 0..b : o.journal = RefusedAt(j, n, k, <<>>)
      \/ \E n \in 0..(b - 1) : o.journal = RefusedAt(j, n, n, <<Torn>>)
  <2>1. CASE o = [journal |-> Flushed(j), ok |-> TRUE]
    BY <2>1
  <2>2. CASE \E r \in RefusedFlushes(j) : o = [journal |-> r, ok |-> FALSE]
    <3>1. PICK r \in RefusedFlushes(j) : o.journal = r
      BY <2>2
    <3> QED BY <1>2, <1>3, <3>1 DEF RefusedFlushes
  <2> QED BY <2>1, <2>2 DEF FlushOutcomes
<1> QED BY <1>5, <1>6, <1>7, <1>8

\* A flush, whatever comes of it, leaves the frames in order.
LEMMA FlushOrdered ==
  ASSUME NEW j \in Journal, NEW o, o \in FlushOutcomes(j), NEW n, FramesAscend(AllOf(j), n)
  PROVE  o.journal \in Journal /\ FramesAscend(AllOf(o.journal), n)
<1>1. o.journal \in Journal
  BY FlushAdvances DEF Advances
<1>2. PICK v, w : v = AllOf(o.journal) /\ w = AllOf(j)
  OBVIOUS
<1>3. v \in Seq(Record) /\ w \in Seq(Record)
  BY <1>1, <1>2, AllIs
<1>4. Remains(v, w) /\ FramesAscend(w, n)
  BY <1>2, FlushRemains
<1>5. FramesAscend(v, n)
  BY <1>3, <1>4, RemainsAscend
<1> QED BY <1>1, <1>2, <1>5

\* A record taken into the buffer is behind all the others.
LEMMA BufferedIs ==
  ASSUME NEW j \in Journal, NEW r \in Record, NEW k, k = Buffered(j, r)
  PROVE  k \in Journal /\ AllOf(k) = Append(AllOf(j), r)
<1>1. PICK b, s, f : /\ b = j.buf /\ s = j.stdio /\ f = j.file
                     /\ b \in Seq(Record) /\ s \in Seq(Record) /\ f \in Seq(Record)
  BY JournalFields
<1>2. PICK c, x : c = Append(b, r) /\ x = j.failed
  OBVIOUS
<1>3. k = [buf |-> c, stdio |-> s, file |-> f, failed |-> x]
  BY <1>1, <1>2 DEF Buffered
<1>4. k.buf = c /\ k.stdio = s /\ k.file = f
  BY <1>3
<1>5. AllOf(k) = f \o (s \o c)
  BY <1>4 DEF AllOf, Pending
<1>6. PICK t \in Seq(Record) : t = <<r>>
  BY SingletonSeq
<1>7. c = b \o t
  BY <1>1, <1>2, <1>6, AppendIsConcat
<1>8. PICK p \in Seq(Record) : p = s \o b
  BY <1>1, ConcatBegins
<1>9. s \o (b \o t) = p \o t
  <2>1. (s \o b) \o t = s \o (b \o t)
    <3>1. s \in Seq(Record) /\ b \in Seq(Record)
      BY <1>1
    <3> QED BY <3>1, ConcatAssociative
  <2> QED BY <1>8, <2>1
<1>10. PICK w \in Seq(Record) : w = f \o p
  BY <1>1, ConcatBegins
<1>11. f \o (p \o t) = w \o t
  <2>1. (f \o p) \o t = f \o (p \o t)
    <3>1. f \in Seq(Record)
      BY <1>1
    <3> QED BY <3>1, ConcatAssociative
  <2> QED BY <1>10, <2>1
<1>12. w = AllOf(j)
  BY <1>1, <1>8, <1>10 DEF AllOf, Pending
<1>13. Append(w, r) = w \o t
  BY <1>6, AppendIsConcat
<1>14. k \in Journal
  BY BufferedAdvances DEF Advances
<1> QED BY <1>5, <1>7, <1>9, <1>11, <1>12, <1>13, <1>14

\* writeRecord leaves the frames in order, be the record taken or lost.
LEMMA WriteOrdered ==
  ASSUME NEW j \in Journal, NEW n \in Nat, FramesAscend(AllOf(j), n), NEW r \in Record, NEW m \in Nat,
         (~IsFrame(r) /\ m = n) \/ (r = Frame(n + 1) /\ m = n + 1),
         NEW o \in WriteOutcomes(j, r)
  PROVE  o.journal \in Journal /\ FramesAscend(AllOf(o.journal), m)
<1>1. ASSUME NEW k \in Journal, FramesAscend(AllOf(k), n), NEW l, l = Buffered(k, r)
      PROVE  l \in Journal /\ FramesAscend(AllOf(l), m)
  <2>1. PICK w, v : w = AllOf(k) /\ v = AllOf(l)
    OBVIOUS
  <2>2. l \in Journal /\ v = Append(w, r)
    BY <1>1, <2>1, BufferedIs
  <2>3. w \in Seq(Record) /\ FramesAscend(w, n)
    BY <1>1, <2>1, AllIs
  <2>4. FramesAscend(v, m)
    BY <2>2, <2>3, OneMoreAscends
  <2> QED BY <2>1, <2>2, <2>4
<1>2. ASSUME NEW k \in Journal, FramesAscend(AllOf(k), n) PROVE FramesAscend(AllOf(k), m)
  <2>1. PICK w : w = AllOf(k)
    OBVIOUS
  <2>2. w \in Seq(Record) /\ FramesAscend(w, n)
    BY <1>2, <2>1, AllIs
  <2>3. \A i \in 1..Len(w) : IsFrame(w[i]) => w[i].seq \in 1..n
    BY <2>2 DEF FramesAscend
  <2>4. 1..n \subseteq 1..m
    OBVIOUS
  <2>5. FramesAscend(w, m)
    BY <2>2, <2>3, <2>4 DEF FramesAscend
  <2> QED BY <2>1, <2>5
<1>3. CASE o = [journal |-> Buffered(j, r), ok |-> TRUE]
  BY <1>1, <1>3
<1>4. CASE \E f \in FlushOutcomes(j) :
             o = IF f.ok THEN [f EXCEPT !.journal = Buffered(@, r)] ELSE f
  <2>1. PICK f \in FlushOutcomes(j) :
          o = IF f.ok THEN [f EXCEPT !.journal = Buffered(@, r)] ELSE f
    BY <1>4
  <2>2. f.journal \in Journal /\ FramesAscend(AllOf(f.journal), n)
    BY FlushOrdered
  <2>3. f = [journal |-> f.journal, ok |-> f.ok]
    BY FlushAdvances
  <2>4. \/ o.journal = Buffered(f.journal, r)
        \/ o.journal = f.journal
    BY <2>1, <2>3
  <2> QED BY <1>1, <1>2, <2>2, <2>4
<1> QED BY <1>3, <1>4 DEF WriteOutcomes

\* markStrokeEnd too.
LEMMA StrokeEndOrdered ==
  ASSUME NEW j \in Journal, NEW n \in Nat, FramesAscend(AllOf(j), n), NEW s \in Nat,
         NEW o \in StrokeEndOutcomes(j, s)
  PROVE  o.journal \in Journal /\ FramesAscend(AllOf(o.journal), n)
<1>1. PICK r \in Record : r = StrokeEnd(s)
  BY RecordTypes
<1>2. ~IsFrame(r)
  BY <1>1 DEF IsFrame, StrokeEnd
<1>3. PICK w \in WriteOutcomes(j, r) : o \in IF w.ok THEN FlushOutcomes(w.journal) ELSE {w}
  BY <1>1 DEF StrokeEndOutcomes
<1>4. w.journal \in Journal /\ FramesAscend(AllOf(w.journal), n)
  BY <1>2, WriteOrdered
<1>5. CASE w.ok
  <2>1. o \in FlushOutcomes(w.journal)
    BY <1>3, <1>5
  <2> QED BY <1>4, <2>1, FlushOrdered
<1>6. CASE ~w.ok
  BY <1>3, <1>4, <1>6
<1> QED BY <1>5, <1>6

\* What a dying process leaves is what remains of all records.
LEMMA DeathOrdered ==
  ASSUME NEW j \in Journal, NEW n, FramesAscend(AllOf(j), n), NEW f, f \in FilesAtDeath(j)
  PROVE  f \in Seq(Record) /\ FramesAscend(f, n)
<1>1. PICK g, p, w : /\ g = j.file /\ p = Pending(j) /\ w = g \o p /\ w = AllOf(j)
                     /\ g \in Seq(Record) /\ p \in Seq(Record) /\ w \in Seq(Record)
  BY JournalFields, AllIs DEF AllOf
<1>2. PICK t \in Record : t = Torn
  BY RecordTypes
<1>3. PICK k \in 0..Len(p) :
        \/ f = g \o SubSeq(p, 1, k)
        \/ f = g \o SubSeq(p, 1, k) \o <<t>> /\ k < Len(p)
  BY <1>1, <1>2 DEF FilesAtDeath
<1>4. PICK h : h = g \o SubSeq(p, 1, k)
  OBVIOUS
<1>5. /\ h \in Seq(Record) /\ Len(h) = Len(g) + k /\ Len(w) = Len(g) + Len(p)
      /\ \A i \in 1..Len(h) : h[i] = w[i]
  <2>1. g \in Seq(Record) /\ p \in Seq(Record) /\ w = g \o p
    BY <1>1
  <2> QED BY <1>4, <2>1, BeginningOf
<1>6. CASE f = h
  <2>1. Len(h) <= Len(w)
    <3>1. Len(g) \in Nat /\ Len(p) \in Nat
      BY <1>1
    <3> QED BY <1>5, <3>1
  <2>2. Remains(f, w)
    BY <1>5, <1>6, <2>1 DEF Remains
  <2> QED BY <1>1, <1>5, <1>6, <2>2, RemainsAscend
<1>7. CASE f = h \o <<t>> /\ k < Len(p)
  <2>1. f = Append(h, t)
    BY <1>5, <1>7, AppendIsConcat
  <2>2. /\ f \in Seq(Record) /\ Len(f) = Len(h) + 1 /\ Len(h) \in Nat
        /\ \A i \in 1..Len(h) : f[i] = h[i]
        /\ f[Len(h) + 1] = t
    BY <1>5, <2>1, Appended
  <2>3. Len(f) <= Len(w)
    <3>1. Len(g) \in Nat /\ Len(p) \in Nat
      BY <1>1
    <3> QED BY <1>5, <1>7, <2>2, <3>1
  <2>4. \A i \in 1..Len(f) : i \in 1..Len(h) \/ i = Len(h) + 1
    BY <2>2
  <2>5. Remains(f, w)
    BY <1>2, <1>5, <2>2, <2>3, <2>4 DEF Remains
  <2> QED BY <1>1, <2>2, <2>5, RemainsAscend
<1> QED BY <1>3, <1>4, <1>6, <1>7

\* The file alone is in order.
LEMMA FileOrdered ==
  ASSUME NEW j \in Journal, NEW n, FramesAscend(AllOf(j), n)
  PROVE  FramesAscend(j.file, n)
<1>1. PICK g, p, w : /\ g = j.file /\ p = Pending(j) /\ w = g \o p /\ w = AllOf(j)
                     /\ g \in Seq(Record) /\ p \in Seq(Record)
  BY JournalFields, AllIs DEF AllOf
<1>2. /\ w \in Seq(Record) /\ Len(w) = Len(g) + Len(p)
      /\ \A i \in 1..Len(g) : w[i] = g[i]
  <2>1. g \in Seq(Record) /\ p \in Seq(Record) /\ w = g \o p
    BY <1>1
  <2> QED BY <2>1, Joined
<1>3. Len(g) <= Len(w)
  <2>1. Len(g) \in Nat /\ Len(p) \in Nat
    BY <1>1
  <2> QED BY <1>2, <2>1
<1>4. Remains(g, w)
  BY <1>2, <1>3 DEF Remains
<1> QED BY <1>1, <1>2, <1>4, RemainsAscend

\* ... and so is what is left of it when power fails.
LEMMA CutOrdered ==
  ASSUME NEW f \in Seq(Record), NEW n, FramesAscend(f, n), NEW k \in 0..Len(f), NEW g, g = SubSeq(f, 1, k)
  PROVE  g \in Seq(Record) /\ FramesAscend(g, n)
<1>1. k \in Nat /\ k <= Len(f) /\ 1 <= k + 1 /\ 1 \in Nat \ {0}
  OBVIOUS
<1>2. /\ g \in Seq(Record) /\ Len(g) = (k - 1) + 1
      /\ \A i \in 1..Len(g) : g[i] = f[(1 + i) - 1]
  BY <1>1, Cut
<1>3. (k - 1) + 1 = k /\ \A i \in 1..k : (1 + i) - 1 = i
  BY <1>1
<1>4. Remains(g, f)
  BY <1>1, <1>2, <1>3 DEF Remains
<1> QED BY <1>2, <1>4, RemainsAscend

-----------------------------------------------------------------------------
(* What is read back.                                                       *)

\* Reading goes on to the first record that does not match.
LEMMA ReadableIs ==
  ASSUME NEW file \in Seq(Record), NEW n, n = ReadableTo(file)
  PROVE  n \in 0..Len(file) /\ \A i \in 1..Len(file) : (i <= n <=> \A k \in 1..i : file[k] # Torn)
<1>1. PICK l \in Nat : l = Len(file)
  BY LenProperties
<1>2. PICK torn : torn = {i \in 1..l : file[i] = Torn}
  OBVIOUS
<1>3. n = IF torn = {} THEN l ELSE Min(torn) - 1
  BY <1>1, <1>2 DEF ReadableTo
<1>4. CASE torn = {}
  <2>1. n = l /\ \A i \in 1..l : file[i] # Torn
    BY <1>2, <1>3, <1>4
  <2> QED BY <1>1, <2>1
<1>5. CASE torn # {}
  <2>1. torn \subseteq Nat
    BY <1>2
  <2>2. Min(torn) \in torn /\ \A y \in torn : Min(torn) <= y
    BY <1>5, <2>1, MinIs
  <2>3. PICK m : m = Min(torn)
    OBVIOUS
  <2>4. m \in 1..l /\ file[m] = Torn /\ \A i \in 1..l : file[i] = Torn => m <= i
    BY <1>2, <2>2, <2>3
  <2>5. n = m - 1
    BY <1>3, <1>5, <2>3
  <2>6. ASSUME NEW i \in 1..l PROVE i <= n <=> \A k \in 1..i : file[k] # Torn
    <3>1. CASE i <= n
      BY <2>4, <2>5, <3>1
    <3>2. CASE ~(i <= n)
      <4>1. m \in 1..i
        BY <2>4, <2>5, <3>2
      <4> QED BY <2>4, <3>2, <4>1
    <3> QED BY <3>1, <3>2
  <2>7. n \in 0..l
    BY <2>4, <2>5
  <2> QED BY <1>1, <2>6, <2>7
<1> QED BY <1>4, <1>5

\* Of a file in order, whatever is read is in order.
LEMMA ReadInOrderIs ==
  ASSUME NEW file \in Seq(Record), NEW m, FramesAscend(file, m), NEW n \in 0..Len(file), NEW wanted,
         NEW w, w = FrameSeqs(file, n, wanted)
  PROVE  /\ w \in Seq(Nat)
         /\ \A i \in 1..Len(w) : w[i] \in 1..m
         /\ \A i, k \in 1..Len(w) : i < k => w[i] < w[k]
<1>1. w \in Seq(Nat)
  BY FrameSeqsAre
<1>2. PICK at : Read(w, file, n, wanted, at)
  BY FrameSeqsAre
<1>3. /\ \A i \in 1..Len(w) : at[i] \in 1..n /\ w[i] = file[at[i]].seq /\ IsFrame(file[at[i]])
      /\ \A i, j \in 1..Len(w) : i < j => at[i] < at[j]
  BY <1>2 DEF Read
<1>4. 1..n \subseteq 1..Len(file)
  <2>1. Len(file) \in Nat
    OBVIOUS
  <2> QED BY <2>1
<1>5. \A i \in 1..Len(w) : at[i] \in 1..Len(file)
  BY <1>3, <1>4
<1> QED BY <1>1, <1>3, <1>5 DEF FramesAscend

\* Journal::scan.
LEMMA ScanInOrder ==
  ASSUME NEW file \in Seq(Record), NEW m, FramesAscend(file, m), NEW w, w = ScanFrames(file)
  PROVE  /\ w \in Seq(Nat)
         /\ \A i \in 1..Len(w) : w[i] \in 1..m
         /\ \A i, k \in 1..Len(w) : i < k => w[i] < w[k]
<1>1. PICK n : n = ReadableTo(file)
  OBVIOUS
<1>2. n \in 0..Len(file)
  BY <1>1, ReadableIs
<1>3. w = FrameSeqs(file, n, Nat)
  BY <1>1 DEF ScanFrames
<1> QED BY <1>2, <1>3, ReadInOrderIs

\* Reading depends on nothing behind the records read.
LEMMA ReadSame ==
  ASSUME NEW f, NEW g, NEW n \in Nat, \A i \in 1..n : f[i] = g[i], NEW wanted
  PROVE  FrameSeqs(f, n, wanted) = FrameSeqs(g, n, wanted)
<1>1. PICK x : x = [i \in 0..n |-> ReadStep(f, wanted, x, i)] /\ x[n] = FrameSeqs(f, n, wanted)
  <2>1. PICK x : x = CHOOSE h : h = [i \in 0..n |-> ReadStep(f, wanted, h, i)]
    OBVIOUS
  <2>2. x = [i \in 0..n |-> ReadStep(f, wanted, x, i)]
    BY <2>1, ReadingGoesOn
  <2>3. x[n] = FrameSeqs(f, n, wanted)
    BY <2>1 DEF FrameSeqs, ReadStep
  <2> QED BY <2>2, <2>3
<1>2. PICK y : y = [i \in 0..n |-> ReadStep(g, wanted, y, i)] /\ y[n] = FrameSeqs(g, n, wanted)
  <2>1. PICK y : y = CHOOSE h : h = [i \in 0..n |-> ReadStep(g, wanted, h, i)]
    OBVIOUS
  <2>2. y = [i \in 0..n |-> ReadStep(g, wanted, y, i)]
    BY <2>1, ReadingGoesOn
  <2>3. y[n] = FrameSeqs(g, n, wanted)
    BY <2>1 DEF FrameSeqs, ReadStep
  <2> QED BY <2>2, <2>3
<1>3. PICK T : T = {i \in 0..n : x[i] # y[i]}
  OBVIOUS
<1>4. T = {}
  <2> SUFFICES ASSUME T # {} PROVE FALSE
    OBVIOUS
  <2>1. T \subseteq Nat
    BY <1>3
  <2>2. PICK m \in T : \A k \in T : m <= k
    BY <2>1, LeastNumber
  <2>3. /\ m \in 0..n /\ x[m] # y[m]
        /\ x[m] = ReadStep(f, wanted, x, m) /\ y[m] = ReadStep(g, wanted, y, m)
    BY <1>1, <1>2, <1>3, <2>2
  <2>4. CASE m = 0
    BY <2>3, <2>4 DEF ReadStep
  <2>5. CASE m # 0
    <3>1. m - 1 \in 0..n /\ ~(m <= m - 1) /\ m \in 1..n
      BY <2>3, <2>5
    <3>2. x[m - 1] = y[m - 1]
      BY <1>3, <2>2, <3>1
    <3>3. f[m] = g[m]
      BY <3>1
    <3> QED BY <2>3, <2>5, <3>2, <3>3 DEF ReadStep
  <2> QED BY <2>4, <2>5
<1>5. n \in 0..n
  OBVIOUS
<1> QED BY <1>1, <1>2, <1>3, <1>4, <1>5

\* The wanted frames among the first n records are those between a and b.
Covers(file, n, wanted, a, b) ==
  /\ \A k \in 1..n : IsFrame(file[k]) /\ file[k].seq \in wanted => file[k].seq \in (a + 1)..b
  /\ \A s \in (a + 1)..b : s \in wanted /\ \E k \in 1..n : IsFrame(file[k]) /\ file[k].seq = s

\* Of a file in order, frames read that are all between a and b are a+1, ..., b.
LEMMA ReadAll ==
  ASSUME NEW file \in Seq(Record), NEW m, FramesAscend(file, m), NEW n \in 0..Len(file), NEW wanted,
         NEW a \in Nat, NEW b \in Nat, a <= b, Covers(file, n, wanted, a, b)
  PROVE  FrameSeqs(file, n, wanted) = [i \in 1..(b - a) |-> a + i]
<1>1. PICK w : w = FrameSeqs(file, n, wanted)
  OBVIOUS
<1>2. w \in Seq(Nat) /\ \A i, k \in 1..Len(w) : i < k => w[i] < w[k]
  BY <1>1, ReadInOrderIs
<1>3. PICK at : Read(w, file, n, wanted, at)
  BY <1>1, FrameSeqsAre
<1>4. /\ \A i \in 1..Len(w) : at[i] \in 1..n /\ w[i] = file[at[i]].seq
                              /\ IsFrame(file[at[i]]) /\ file[at[i]].seq \in wanted
      /\ \A k \in 1..n : IsFrame(file[k]) /\ file[k].seq \in wanted => \E i \in 1..Len(w) : at[i] = k
  BY <1>3 DEF Read
<1>5. \A i \in 1..Len(w) : w[i] \in (a + 1)..b
  BY <1>4 DEF Covers
<1>6. ASSUME NEW s \in (a + 1)..b PROVE \E i \in 1..Len(w) : w[i] = s
  <2>1. s \in wanted /\ \E k \in 1..n : IsFrame(file[k]) /\ file[k].seq = s
    BY DEF Covers
  <2>2. PICK k \in 1..n : IsFrame(file[k]) /\ file[k].seq = s
    BY <2>1
  <2>3. PICK i \in 1..Len(w) : at[i] = k
    BY <1>4, <2>1, <2>2
  <2> QED BY <1>4, <2>2, <2>3
<1>7. w = [i \in 1..(b - a) |-> a + i]
  BY <1>2, <1>5, <1>6, IncreasingOnto
<1> QED BY <1>1, <1>7

\* e is the last stroke end among the first n records, 0 when there is none.
LastEnd(w, n, e) ==
  /\ e \in 0..n
  /\ e # 0 => IsEnd(w[e])
  /\ \A i \in (e + 1)..n : ~IsEnd(w[i])

\* There is such a place.
LEMMA LastEndExists ==
  ASSUME NEW w, NEW n \in Nat
  PROVE  \E e : LastEnd(w, n, e)
<1>1. PICK T : T = {i \in 1..n : IsEnd(w[i])}
  OBVIOUS
<1>2. CASE T = {}
  <2>1. LastEnd(w, n, 0)
    BY <1>1, <1>2 DEF LastEnd
  <2> QED BY <2>1
<1>3. CASE T # {}
  <2>1. T \subseteq Nat /\ \A y \in T : y <= n
    BY <1>1
  <2>2. PICK e \in T : \A y \in T : y <= e
    BY <1>3, <2>1, GreatestNumber
  <2>3. e \in 1..n /\ IsEnd(w[e])
    BY <1>1, <2>2
  <2>4. ASSUME NEW i \in (e + 1)..n PROVE ~IsEnd(w[i])
    <3>1. i \in 1..n /\ ~(i <= e)
      BY <2>3
    <3> QED BY <1>1, <2>2, <3>1
  <2>5. e \in 0..n
    BY <2>3
  <2>6. LastEnd(w, n, e)
    BY <2>3, <2>4, <2>5 DEF LastEnd
  <2> QED BY <2>6
<1> QED BY <1>2, <1>3

\* recoverJournal cuts behind the last stroke end that can be read.
LEMMA RecoveredTo ==
  ASSUME NEW file \in Seq(Record), NEW e, LastEnd(file, ReadableTo(file), e)
  PROVE  Recovered(file) = FrameSeqs(file, e, Nat)
<1>1. PICK n \in Nat : n = ReadableTo(file)
  <2>1. ReadableTo(file) \in 0..Len(file)
    BY ReadableIs
  <2> QED BY <2>1
<1>2. LastEnd(file, n, e)
  BY <1>1
<1>3. PICK T : T = {i \in 1..n : IsEnd(file[i])}
  OBVIOUS
<1>4. SelectLastInSubSeq(file, 1, n, IsEnd) = IF T # {} THEN Max(T) ELSE 0
  BY <1>3 DEF SelectLastInSubSeq
<1>5. CASE T = {}
  <2>1. e = 0
    BY <1>2, <1>3, <1>5 DEF LastEnd
  <2> QED BY <1>1, <1>4, <1>5, <2>1 DEF Recovered
<1>6. CASE T # {}
  <2>1. T \subseteq Nat /\ \A y \in T : y <= n
    BY <1>3
  <2>2. Max(T) \in T /\ \A y \in T : Max(T) >= y
    BY <1>6, <2>1, MaxIs
  <2>3. PICK m : m = Max(T) /\ m \in 1..n /\ IsEnd(file[m]) /\ \A i \in 1..n : IsEnd(file[i]) => m >= i
    BY <1>3, <2>2
  <2>4. e \in 0..n /\ (e # 0 => IsEnd(file[e])) /\ \A i \in (e + 1)..n : ~IsEnd(file[i])
    BY <1>2 DEF LastEnd
  <2>5. ~(e < m)
    BY <2>3, <2>4
  <2>6. e # 0 /\ e \in 1..n
    BY <2>3, <2>4, <2>5
  <2>7. m >= e
    BY <2>3, <2>4, <2>6
  <2>8. m = e
    BY <2>3, <2>5, <2>6, <2>7
  <2> QED BY <1>1, <1>4, <1>6, <2>3, <2>8 DEF Recovered
<1> QED BY <1>5, <1>6

\* Records behind the file that end no stroke change nothing of what recovery returns.
LEMMA RecoveredGrows ==
  ASSUME NEW f \in Seq(Record), NEW g \in Seq(Record), Begins(f, g),
         \A i \in 1..Len(g) : i \in 1..Len(f) \/ ~IsEnd(g[i])
  PROVE  Recovered(g) = Recovered(f)
<1>1. PICK l \in Nat, h \in Nat : l = Len(f) /\ h = Len(g)
  BY LenProperties
<1>2. l <= h /\ \A i \in 1..l : g[i] = f[i]
  BY <1>1 DEF Begins
<1>3. PICK m \in Nat, n \in Nat : m = ReadableTo(f) /\ n = ReadableTo(g)
  <2>1. ReadableTo(f) \in 0..Len(f) /\ ReadableTo(g) \in 0..Len(g)
    BY ReadableIs
  <2> QED BY <2>1
<1>4. /\ m \in 0..l /\ \A i \in 1..l : (i <= m <=> \A k \in 1..i : f[k] # Torn)
      /\ n \in 0..h /\ \A i \in 1..h : (i <= n <=> \A k \in 1..i : g[k] # Torn)
  BY <1>1, <1>3, ReadableIs
<1>5. m <= n
  <2>1. CASE m = 0
    BY <2>1
  <2>2. CASE m # 0
    <3>1. m \in 1..l /\ m \in 1..h /\ m <= m
      BY <1>2, <1>4, <2>2
    <3>2. \A k \in 1..m : f[k] # Torn
      BY <1>4, <3>1
    <3>3. \A k \in 1..m : k \in 1..l
      BY <3>1
    <3>4. \A k \in 1..m : g[k] # Torn
      BY <1>2, <3>2, <3>3
    <3> QED BY <1>4, <3>1, <3>4
  <2> QED BY <2>1, <2>2
<1>6. \A i \in 1..n : i \in 1..l => i <= m
  <2> SUFFICES ASSUME NEW i \in 1..n, i \in 1..l PROVE i <= m
    OBVIOUS
  <2>1. i \in 1..h /\ i <= n /\ \A k \in 1..i : k \in 1..l
    BY <1>2
  <2>2. \A k \in 1..i : g[k] # Torn
    BY <1>4, <2>1
  <2>3. \A k \in 1..i : f[k] # Torn
    BY <1>2, <2>1, <2>2
  <2> QED BY <1>4, <2>3
<1>7. PICK e : LastEnd(f, m, e)
  BY LastEndExists
<1>8. e \in 0..m /\ (e # 0 => IsEnd(f[e])) /\ \A i \in (e + 1)..m : ~IsEnd(f[i])
  BY <1>7 DEF LastEnd
<1>9. LastEnd(g, n, e)
  <2>1. e \in 0..n
    BY <1>5, <1>8
  <2>2. e # 0 => IsEnd(g[e])
    <3>1. e # 0 => e \in 1..l
      BY <1>4, <1>8
    <3> QED BY <1>2, <1>8, <3>1
  <2>3. ASSUME NEW i \in (e + 1)..n PROVE ~IsEnd(g[i])
    <3>1. i \in 1..n /\ i \in 1..h /\ i >= e + 1 /\ i \in Nat
      BY <1>4, <1>8
    <3>2. CASE i \in 1..l
      <4>1. i <= m
        BY <1>6, <3>1, <3>2
      <4>2. i \in (e + 1)..m
        BY <1>8, <3>1, <4>1
      <4> QED BY <1>2, <1>8, <3>2, <4>2
    <3>3. CASE i \notin 1..l
      BY <1>1, <3>1, <3>3
    <3> QED BY <3>2, <3>3
  <2> QED BY <2>1, <2>2, <2>3 DEF LastEnd
<1>10. Recovered(f) = FrameSeqs(f, e, Nat) /\ Recovered(g) = FrameSeqs(g, e, Nat)
  BY <1>3, <1>7, <1>9, RecoveredTo
<1>11. FrameSeqs(f, e, Nat) = FrameSeqs(g, e, Nat)
  <2>1. e \in Nat /\ \A i \in 1..e : i \in 1..l
    BY <1>4, <1>8
  <2>2. \A i \in 1..e : f[i] = g[i]
    BY <1>2, <2>1
  <2> QED BY <2>1, <2>2, ReadSame
<1> QED BY <1>10, <1>11

-----------------------------------------------------------------------------
(* A journal that lost nothing.                                             *)

\* The frames 1 to n are there, each once and in order, and every stroke end
\* names the frame before it.
Whole(w, n) ==
  /\ FramesAscend(w, n)
  /\ \A s \in 1..n : \E i \in 1..Len(w) : IsFrame(w[i]) /\ w[i].seq = s
  /\ \A i \in 1..Len(w) : w[i] # Torn
  /\ \A i \in 1..Len(w) : IsEnd(w[i]) =>
       /\ w[i].seq \in 0..n
       /\ \A k \in 1..Len(w) : IsFrame(w[k]) => (k < i <=> w[k].seq <= w[i].seq)

\* The records a publisher may add to n frames, and how many there are then.
Follows(r, n, m) ==
  \/ ~IsFrame(r) /\ ~IsEnd(r) /\ r # Torn /\ m = n
  \/ r = Frame(n + 1) /\ m = n + 1
  \/ r = StrokeEnd(n) /\ m = n

\* A record is one thing only.
LEMMA Tags ==
  /\ \A s \in Nat : /\ IsFrame(Frame(s)) /\ ~IsEnd(Frame(s)) /\ Frame(s) # Torn /\ Frame(s).seq = s
                    /\ ~IsFrame(StrokeEnd(s)) /\ IsEnd(StrokeEnd(s)) /\ StrokeEnd(s) # Torn
                    /\ StrokeEnd(s).seq = s
  /\ ~IsFrame(Note) /\ ~IsEnd(Note) /\ Note # Torn
  /\ ~IsFrame(Torn) /\ ~IsEnd(Torn)
<1>1. ASSUME NEW s \in Nat
      PROVE  /\ Frame(s).tag = "Frame" /\ Frame(s).seq = s
             /\ StrokeEnd(s).tag = "StrokeEnd" /\ StrokeEnd(s).seq = s
  BY DEF Frame, StrokeEnd
<1>2. Note.tag = "Note" /\ Torn.tag = "Torn"
  BY DEF Note, Torn
<1> QED BY <1>1, <1>2 DEF IsFrame, IsEnd

\* What follows is whole again.
LEMMA WholeOneMore ==
  ASSUME NEW w \in Seq(Record), NEW n \in Nat, Whole(w, n), NEW r \in Record, NEW m \in Nat,
         Follows(r, n, m), NEW v, v = Append(w, r)
  PROVE  v \in Seq(Record) /\ Whole(v, m)
<1>1. PICK l \in Nat : l = Len(w)
  BY LenProperties
<1>2. /\ v \in Seq(Record) /\ Len(v) = l + 1
      /\ \A i \in 1..l : v[i] = w[i]
      /\ v[l + 1] = r
  BY <1>1, Appended
<1>3. \A i \in 1..(l + 1) : i \in 1..l \/ i = l + 1
  OBVIOUS
<1>4. 1..l \subseteq 1..(l + 1) /\ l + 1 \in 1..(l + 1)
  OBVIOUS
<1>5. /\ \A i \in 1..l : IsFrame(w[i]) => w[i].seq \in 1..n
      /\ \A s \in 1..n : \E i \in 1..l : IsFrame(w[i]) /\ w[i].seq = s
      /\ \A i \in 1..l : w[i] # Torn
      /\ \A i \in 1..l : IsEnd(w[i]) =>
           /\ w[i].seq \in 0..n
           /\ \A k \in 1..l : IsFrame(w[k]) => (k < i <=> w[k].seq <= w[i].seq)
  BY <1>1 DEF Whole, FramesAscend
<1>6. /\ r # Torn
      /\ IsFrame(r) => r.seq = n + 1 /\ m = n + 1
      /\ IsEnd(r) => r.seq = n
      /\ (~IsFrame(r) /\ m = n) \/ (r = Frame(n + 1) /\ m = n + 1)
  BY Tags DEF Follows
<1>7. FramesAscend(v, m)
  <2>1. FramesAscend(w, n)
    BY DEF Whole
  <2> QED BY <1>6, <2>1, OneMoreAscends
<1>8. ASSUME NEW s \in 1..m PROVE \E i \in 1..(l + 1) : IsFrame(v[i]) /\ v[i].seq = s
  <2>1. CASE s \in 1..n
    <3>1. PICK i \in 1..l : IsFrame(w[i]) /\ w[i].seq = s
      BY <1>5, <2>1
    <3> QED BY <1>2, <1>4, <3>1
  <2>2. CASE s \notin 1..n
    <3>1. r = Frame(n + 1) /\ s = n + 1
      BY <1>6, <2>2
    <3> QED BY <1>2, <1>4, <3>1, Tags
  <2> QED BY <2>1, <2>2
<1>9. ASSUME NEW i \in 1..(l + 1) PROVE v[i] # Torn
  BY <1>2, <1>3, <1>5, <1>6
<1>10. ASSUME NEW i \in 1..(l + 1), IsEnd(v[i])
       PROVE  /\ v[i].seq \in 0..m
              /\ \A k \in 1..(l + 1) : IsFrame(v[k]) => (k < i <=> v[k].seq <= v[i].seq)
  <2>1. m = n \/ m = n + 1
    BY <1>6
  <2>2. CASE i \in 1..l
    <3>1. /\ v[i] = w[i] /\ v[i].seq \in 0..n
          /\ \A k \in 1..l : IsFrame(w[k]) => (k < i <=> w[k].seq <= w[i].seq)
      BY <1>2, <1>5, <1>10, <2>2
    <3>2. v[i].seq \in 0..m
      BY <2>1, <3>1
    <3>3. ASSUME NEW k \in 1..(l + 1), IsFrame(v[k]) PROVE k < i <=> v[k].seq <= v[i].seq
      <4>1. CASE k \in 1..l
        BY <1>2, <3>1, <3>3, <4>1
      <4>2. CASE k = l + 1
        <5>1. v[k].seq = n + 1
          BY <1>2, <1>6, <3>3, <4>2
        <5>2. ~(k < i)
          BY <2>2, <4>2
        <5>3. ~(v[k].seq <= v[i].seq)
          BY <3>1, <5>1
        <5> QED BY <5>2, <5>3
      <4> QED BY <1>3, <4>1, <4>2
    <3> QED BY <3>2, <3>3
  <2>3. CASE i = l + 1
    <3>1. v[i].seq = n /\ IsEnd(r) /\ v[i] = r
      BY <1>2, <1>6, <1>10, <2>3
    <3>2. v[i].seq \in 0..m
      BY <2>1, <3>1
    <3>3. ~IsFrame(r)
      BY <3>1 DEF IsEnd, IsFrame
    <3>4. ASSUME NEW k \in 1..(l + 1), IsFrame(v[k]) PROVE k < i <=> v[k].seq <= v[i].seq
      <4>1. k \in 1..l
        BY <1>3, <2>3, <3>1, <3>3, <3>4
      <4>2. v[k] = w[k] /\ v[k].seq \in 1..n
        BY <1>2, <1>5, <3>4, <4>1
      <4>3. k < i
        BY <2>3, <4>1
      <4> QED BY <3>1, <4>2, <4>3
    <3> QED BY <3>2, <3>4
  <2> QED BY <1>3, <2>2, <2>3
<1> QED BY <1>2, <1>7, <1>8, <1>9, <1>10 DEF Whole

\* The frame that the stroke end at e names.
SealedTo(w, e) == IF e = 0 THEN 0 ELSE w[e].seq

\* f is the first k records of w.
FirstOf(f, w, k) == k \in 0..Len(w) /\ Len(f) = k /\ \A i \in 1..k : f[i] = w[i]

\* Recovery from the first k records returns the frames up to the last stroke end.
LEMMA WholeRecovered ==
  ASSUME NEW w \in Seq(Record), NEW n \in Nat, Whole(w, n), NEW k, NEW e, LastEnd(w, k, e),
         NEW f \in Seq(Record), FirstOf(f, w, k)
  PROVE  SealedTo(w, e) \in 0..n /\ Recovered(f) = [i \in 1..SealedTo(w, e) |-> i]
<1>0. k \in 0..Len(w) /\ Len(f) = k /\ \A i \in 1..k : f[i] = w[i]
  BY DEF FirstOf
<1>1. PICK l \in Nat : l = Len(w)
  BY LenProperties
<1>2. k \in 0..l /\ 1..k \subseteq 1..l /\ k <= l
  BY <1>0, <1>1
<1>3. /\ \A s \in 1..n : \E i \in 1..l : IsFrame(w[i]) /\ w[i].seq = s
      /\ \A i \in 1..l : w[i] # Torn
      /\ \A i \in 1..l : IsFrame(w[i]) => w[i].seq \in 1..n
      /\ \A i \in 1..l : IsEnd(w[i]) =>
           /\ w[i].seq \in 0..n
           /\ \A j \in 1..l : IsFrame(w[j]) => (j < i <=> w[j].seq <= w[i].seq)
  BY <1>1 DEF Whole, FramesAscend
<1>4. e \in 0..k /\ (e # 0 => IsEnd(w[e])) /\ \A i \in (e + 1)..k : ~IsEnd(w[i])
  BY DEF LastEnd
<1>5. PICK m : m = ReadableTo(f)
  OBVIOUS
<1>6. m = k
  <2>1. m \in 0..k /\ \A i \in 1..k : (i <= m <=> \A j \in 1..i : f[j] # Torn)
    BY <1>0, <1>5, ReadableIs
  <2>2. CASE k = 0
    BY <2>1, <2>2
  <2>3. CASE k # 0
    <3>1. k \in 1..k
      BY <1>2, <2>3
    <3>2. \A j \in 1..k : f[j] # Torn
      BY <1>0, <1>2, <1>3
    <3>3. k <= m
      BY <2>1, <3>1, <3>2
    <3> QED BY <1>2, <2>1, <3>3
  <2> QED BY <2>2, <2>3
<1>7. LastEnd(f, m, e)
  <2>1. \A i \in (e + 1)..k : i \in 1..k
    BY <1>4
  <2>2. e # 0 => e \in 1..k
    BY <1>4
  <2> QED BY <1>0, <1>4, <1>6, <2>1, <2>2 DEF LastEnd
<1>8. Recovered(f) = FrameSeqs(f, e, Nat)
  BY <1>5, <1>7, RecoveredTo
<1>9. FramesAscend(f, n)
  <2>1. Remains(f, w)
    BY <1>0, <1>1, <1>2 DEF Remains
  <2>2. FramesAscend(w, n)
    BY DEF Whole
  <2> QED BY <2>1, <2>2, RemainsAscend
<1>10. PICK b : b = SealedTo(w, e)
  OBVIOUS
<1>11. b \in 0..n /\ b \in Nat /\ 0 <= b
  <2>1. CASE e = 0
    BY <1>10, <2>1 DEF SealedTo
  <2>2. CASE e # 0
    <3>1. e \in 1..l /\ IsEnd(w[e])
      BY <1>2, <1>4, <2>2
    <3>2. w[e].seq \in 0..n
      BY <1>3, <3>1
    <3> QED BY <1>10, <2>2, <3>2 DEF SealedTo
  <2> QED BY <2>1, <2>2
<1>12. e \in 0..Len(f) /\ 1..e \subseteq 1..k /\ e \in Nat
  BY <1>0, <1>2, <1>4
<1>13. ASSUME NEW i \in 1..e, IsFrame(f[i]), f[i].seq \in Nat PROVE f[i].seq \in (0 + 1)..b
  <2>1. e \in 1..l /\ IsEnd(w[e]) /\ b = w[e].seq /\ i \in 1..l /\ f[i] = w[i]
    BY <1>0, <1>2, <1>4, <1>10, <1>12 DEF SealedTo
  <2>2. ~IsEnd(w[i])
    BY <1>13, <2>1 DEF IsEnd, IsFrame
  <2>3. i < e
    BY <1>12, <2>1, <2>2
  <2>4. w[i].seq <= w[e].seq /\ w[i].seq \in 1..n
    BY <1>3, <1>13, <2>1, <2>3
  <2> QED BY <1>11, <2>1, <2>4
<1>14. ASSUME NEW s \in (0 + 1)..b PROVE s \in Nat /\ \E i \in 1..e : IsFrame(f[i]) /\ f[i].seq = s
  <2>1. s \in 1..n /\ e # 0
    <3>1. e = 0 => b = 0
      BY <1>10 DEF SealedTo
    <3> QED BY <1>11, <3>1
  <2>2. e \in 1..l /\ IsEnd(w[e]) /\ b = w[e].seq
    BY <1>2, <1>4, <1>10, <2>1 DEF SealedTo
  <2>3. PICK i \in 1..l : IsFrame(w[i]) /\ w[i].seq = s
    BY <1>3, <2>1
  <2>4. i < e
    BY <1>3, <1>11, <2>2, <2>3
  <2>5. i \in 1..e /\ i \in 1..k
    BY <1>12, <2>4
  <2> QED BY <1>0, <2>3, <2>5
<1>15. PICK a, all : a = 0 /\ all = Nat
  OBVIOUS
<1>16. \A i \in 1..e : IsFrame(f[i]) /\ f[i].seq \in all => f[i].seq \in (a + 1)..b
  BY <1>13, <1>15
<1>17. \A s \in (a + 1)..b : s \in all /\ \E i \in 1..e : IsFrame(f[i]) /\ f[i].seq = s
  BY <1>14, <1>15
<1>18. FrameSeqs(f, e, all) = [i \in 1..(b - a) |-> a + i]
  <2>1. a \in Nat /\ a <= b /\ b \in Nat /\ e \in 0..Len(f)
    BY <1>11, <1>12, <1>15
  <2>2. Covers(f, e, all, a, b)
    BY <1>16, <1>17 DEF Covers
  <2> QED BY <1>9, <2>1, <2>2, ReadAll
<1>19. [i \in 1..(b - a) |-> a + i] = [i \in 1..b |-> i]
  <2>1. b - a = b /\ \A i \in 1..b : a + i = i
    BY <1>11, <1>15
  <2> QED BY <2>1
<1> QED BY <1>8, <1>10, <1>11, <1>15, <1>18, <1>19

\* The stroke ends are among the first l records, and all of them among `ends`.
EndsWithin(w, l, ends) == \A i \in 1..Len(w) : IsEnd(w[i]) => i \in 1..l /\ w[i].seq \in ends

\* A journal that lost nothing of n frames and has every stroke end on file.
Sound(j, n, ends) ==
  /\ j.stdio = <<>>
  /\ Whole(AllOf(j), n)
  /\ EndsWithin(AllOf(j), Len(j.file), ends)

\* Without anything in stdio.
LEMMA AllOfIs ==
  ASSUME NEW j \in Journal, j.stdio = <<>>
  PROVE  AllOf(j) = j.file \o j.buf
<1>1. j.buf \in Seq(Record)
  BY JournalFields
<1>2. <<>> \o j.buf = j.buf
  BY <1>1, ConcatEmptySeq
<1> QED BY <1>2 DEF AllOf, Pending

\* The file is where all records begin.
LEMMA FileBegins ==
  ASSUME NEW j \in Journal, NEW f, f = j.file, NEW w, w = AllOf(j)
  PROVE  f \in Seq(Record) /\ w \in Seq(Record) /\ Begins(f, w)
<1>1. f \in Seq(Record) /\ Pending(j) \in Seq(Record)
  BY JournalFields, AllIs
<1>2. PICK p \in Seq(Record) : p = Pending(j)
  BY <1>1
<1>3. w = f \o p
  BY <1>2 DEF AllOf
<1> QED BY <1>1, <1>3, ConcatBegins

\* A file that has grown by records of w without a stroke end, and perhaps half
\* a record, is recovered as before.
LEMMA RecoveredAsBefore ==
  ASSUME NEW f \in Seq(Record), NEW g \in Seq(Record), Begins(f, g), NEW w, NEW ends,
         EndsWithin(w, Len(f), ends),
         \A i \in 1..Len(g) : g[i] = Torn \/ (i \in 1..Len(w) /\ g[i] = w[i])
  PROVE  Recovered(g) = Recovered(f)
<1>1. ASSUME NEW i \in 1..Len(g) PROVE i \in 1..Len(f) \/ ~IsEnd(g[i])
  BY Tags DEF EndsWithin
<1> QED BY <1>1, RecoveredGrows

\* A record that ends no stroke was taken, and the flag is still down.
LEMMA WriteSound ==
  ASSUME NEW j \in Journal, NEW n \in Nat, NEW ends, Sound(j, n, ends), NEW r \in Record, NEW m \in Nat,
         ~IsEnd(r), Follows(r, n, m), NEW o \in WriteOutcomes(j, r), ~o.journal.failed
  PROVE  /\ o.ok /\ o.journal \in Journal /\ Sound(o.journal, m, ends)
         /\ Recovered(o.journal.file) = Recovered(j.file)
<1>1. PICK k : k = o.journal
  OBVIOUS
<1>2. Advances(j, k, Taken(o, r)) /\ o.ok
  BY <1>1, WriteAdvances
<1>3. PICK t \in Seq(Record) : t = <<r>>
  BY SingletonSeq
<1>4. k \in Journal /\ Begins(j.file, k.file) /\ k.stdio = <<>> /\ k.file \o k.buf = (j.file \o j.buf) \o t
  BY <1>1, <1>2, <1>3 DEF Advances, Taken, Sound
<1>5. PICK f, g, w, v : f = j.file /\ g = k.file /\ w = AllOf(j) /\ v = AllOf(k)
  OBVIOUS
<1>6. f \in Seq(Record) /\ g \in Seq(Record) /\ w \in Seq(Record) /\ v \in Seq(Record) /\ Begins(g, v)
  BY <1>4, <1>5, FileBegins
<1>7. v = Append(w, r)
  <2>1. w = j.file \o j.buf /\ v = k.file \o k.buf
    BY <1>4, <1>5, AllOfIs DEF Sound
  <2>2. v = w \o t
    BY <1>4, <2>1
  <2> QED BY <1>3, <1>6, <2>2, AppendIsConcat
<1>8. Whole(v, m)
  <2>1. Whole(w, n)
    BY <1>5 DEF Sound
  <2> QED BY <1>6, <1>7, <2>1, WholeOneMore
<1>9. PICK l \in Nat, h \in Nat, p \in Nat : l = Len(w) /\ h = Len(f) /\ p = Len(g)
  BY <1>6, LenProperties
<1>10. Len(v) = l + 1 /\ (\A i \in 1..l : v[i] = w[i]) /\ v[l + 1] = r /\ h <= p
  <2>1. Begins(f, g)
    BY <1>4, <1>5
  <2> QED BY <1>6, <1>7, <1>9, <2>1, Appended DEF Begins
<1>11. ASSUME NEW i \in 1..Len(v), IsEnd(v[i]) PROVE i \in 1..h /\ v[i].seq \in ends
  <2>1. i \in 1..l /\ v[i] = w[i]
    BY <1>10, <1>11
  <2>2. EndsWithin(w, h, ends)
    BY <1>5, <1>9 DEF Sound
  <2> QED BY <1>9, <1>11, <2>1, <2>2 DEF EndsWithin
<1>12. EndsWithin(v, p, ends) /\ EndsWithin(v, h, ends)
  <2>1. \A i \in 1..h : i \in 1..p
    BY <1>10
  <2> QED BY <1>11, <2>1 DEF EndsWithin
<1>13. Sound(k, m, ends)
  BY <1>4, <1>5, <1>8, <1>9, <1>12 DEF Sound
<1>14. Recovered(g) = Recovered(f)
  <2>1. Begins(f, g) /\ EndsWithin(v, Len(f), ends)
    BY <1>4, <1>5, <1>9, <1>12
  <2>2. \A i \in 1..Len(g) : i \in 1..Len(v) /\ g[i] = v[i]
    <3>1. p <= l + 1 /\ \A i \in 1..p : v[i] = g[i]
      BY <1>6, <1>9, <1>10 DEF Begins
    <3>2. 1..p \subseteq 1..(l + 1)
      BY <3>1
    <3> QED BY <1>9, <1>10, <3>1, <3>2
  <2> QED BY <1>6, <2>1, <2>2, RecoveredAsBefore
<1> QED BY <1>1, <1>2, <1>4, <1>5, <1>13, <1>14

\* A flush that went through.
LEMMA FlushSound ==
  ASSUME NEW j \in Journal, NEW n \in Nat, NEW ends, Sound(j, n, ends),
         NEW o, o \in FlushOutcomes(j), ~o.journal.failed
  PROVE  /\ o.journal \in Journal /\ Sound(o.journal, n, ends)
         /\ AllOf(o.journal) = AllOf(j) /\ o.journal.file = AllOf(j)
         /\ Recovered(o.journal.file) = Recovered(j.file)
<1>1. PICK k : k = o.journal
  OBVIOUS
<1>2. Advances(j, k, <<>>) /\ k.buf = <<>>
  BY <1>1, FlushAdvances
<1>3. k \in Journal /\ Begins(j.file, k.file) /\ k.stdio = <<>> /\ k.file \o k.buf = (j.file \o j.buf) \o <<>>
  BY <1>1, <1>2 DEF Advances, Sound
<1>4. PICK f, g, w, v : f = j.file /\ g = k.file /\ w = AllOf(j) /\ v = AllOf(k)
  OBVIOUS
<1>5. f \in Seq(Record) /\ g \in Seq(Record) /\ w \in Seq(Record) /\ v \in Seq(Record) /\ Begins(f, g)
  BY <1>3, <1>4, FileBegins
<1>6. v = w /\ g = w
  <2>1. w = j.file \o j.buf /\ v = k.file \o k.buf
    BY <1>3, <1>4, AllOfIs DEF Sound
  <2>2. v = w \o <<>> /\ v = g \o <<>>
    BY <1>2, <1>3, <1>4, <2>1
  <2>3. w \o <<>> = w /\ g \o <<>> = g
    BY <1>5, ConcatEmptySeq
  <2> QED BY <2>2, <2>3
<1>7. PICK l \in Nat, h \in Nat : l = Len(w) /\ h = Len(f)
  BY <1>5, LenProperties
<1>8. EndsWithin(w, h, ends) /\ Whole(w, n)
  BY <1>4, <1>7 DEF Sound
<1>9. EndsWithin(w, l, ends)
  BY <1>7, <1>8 DEF EndsWithin
<1>10. Sound(k, n, ends)
  BY <1>3, <1>4, <1>6, <1>7, <1>8, <1>9 DEF Sound
<1>11. Recovered(g) = Recovered(f)
  <2>1. \A i \in 1..Len(g) : i \in 1..Len(w) /\ g[i] = w[i]
    BY <1>6
  <2> QED BY <1>5, <1>7, <1>8, <2>1, RecoveredAsBefore
<1> QED BY <1>1, <1>3, <1>4, <1>6, <1>10, <1>11

\* A flush, whatever comes of it, changes nothing for recovery while every stroke
\* end is on file.
LEMMA FlushKeepsRecovery ==
  ASSUME NEW j \in Journal, NEW ends, EndsWithin(AllOf(j), Len(j.file), ends),
         NEW o, o \in FlushOutcomes(j)
  PROVE  /\ o.journal \in Journal /\ (j.failed => o.journal.failed)
         /\ EndsWithin(AllOf(o.journal), Len(o.journal.file), ends)
         /\ Recovered(o.journal.file) = Recovered(j.file)
<1>1. PICK k : k = o.journal
  OBVIOUS
<1>2. k \in Journal /\ Begins(j.file, k.file) /\ (j.failed => k.failed)
  BY <1>1, FlushAdvances DEF Advances
<1>3. PICK f, g, w, v : f = j.file /\ g = k.file /\ w = AllOf(j) /\ v = AllOf(k)
  OBVIOUS
<1>4. /\ f \in Seq(Record) /\ g \in Seq(Record) /\ w \in Seq(Record) /\ v \in Seq(Record)
      /\ Begins(f, g) /\ Begins(g, v) /\ EndsWithin(w, Len(f), ends)
  BY <1>2, <1>3, FileBegins
<1>5. Remains(v, w)
  BY <1>1, <1>3, FlushRemains
<1>6. PICK a \in Nat, b \in Nat, l \in Nat, m \in Nat : a = Len(f) /\ b = Len(g) /\ l = Len(w) /\ m = Len(v)
  BY <1>4, LenProperties
<1>7. a <= b /\ b <= m /\ m <= l
  BY <1>4, <1>5, <1>6 DEF Begins, Remains
<1>8. /\ \A i \in 1..b : v[i] = g[i]
      /\ \A i \in 1..m : v[i] = w[i] \/ v[i] = Torn
      /\ \A i \in 1..l : IsEnd(w[i]) => i \in 1..a /\ w[i].seq \in ends
  BY <1>4, <1>5, <1>6 DEF Begins, Remains, EndsWithin
<1>9. ASSUME NEW i \in 1..m, IsEnd(v[i]) PROVE i \in 1..b /\ v[i].seq \in ends
  <2>1. v[i] = w[i] /\ i \in 1..l
    BY <1>7, <1>8, <1>9, Tags
  <2>2. i \in 1..a /\ v[i].seq \in ends
    BY <1>8, <1>9, <2>1
  <2> QED BY <1>7, <2>2
<1>10. EndsWithin(v, Len(g), ends)
  BY <1>6, <1>9 DEF EndsWithin
<1>11. Recovered(g) = Recovered(f)
  <2>1. ASSUME NEW i \in 1..Len(g) PROVE g[i] = Torn \/ (i \in 1..Len(w) /\ g[i] = w[i])
    <3>1. i \in 1..b /\ i \in 1..m /\ i \in 1..l
      BY <1>6, <1>7
    <3> QED BY <1>6, <1>8, <3>1
  <2> QED BY <1>4, <2>1, RecoveredAsBefore
<1> QED BY <1>1, <1>2, <1>3, <1>10, <1>11

\* Recovery from g and from f returns all frames up to a stroke end, from g to
\* an earlier one perhaps.
RecoversLess(g, f, ends) ==
  \E s \in ends \cup {0}, t \in ends \cup {0} :
    /\ s \in Nat /\ t \in Nat /\ s <= t
    /\ Recovered(g) = [i \in 1..s |-> i]
    /\ Recovered(f) = [i \in 1..t |-> i]

\* Recovery from a journal that lost nothing returns the frames up to one of its
\* stroke ends, and so does recovery from a beginning of its file.
LEMMA CutSound ==
  ASSUME NEW j \in Journal, NEW n \in Nat, NEW ends, Sound(j, n, ends), NEW f, f = j.file,
         NEW k \in 0..Len(f), NEW g, g = SubSeq(f, 1, k)
  PROVE  RecoversLess(g, f, ends)
<1>1. PICK w : w = AllOf(j)
  OBVIOUS
<1>2. f \in Seq(Record) /\ w \in Seq(Record) /\ Begins(f, w) /\ Whole(w, n) /\ EndsWithin(w, Len(f), ends)
  BY <1>1, FileBegins DEF Sound
<1>3. PICK h \in Nat, l \in Nat : h = Len(f) /\ l = Len(w)
  BY <1>2, LenProperties
<1>4. h <= l /\ (\A i \in 1..h : w[i] = f[i]) /\ k \in 0..h /\ h \in 0..l /\ k \in 0..l
  BY <1>2, <1>3 DEF Begins
<1>5. g \in Seq(Record) /\ Len(g) = k /\ \A i \in 1..k : g[i] = w[i]
  <2>1. k \in Nat /\ k <= Len(f) /\ 1 <= k + 1 /\ 1 \in Nat \ {0}
    BY <1>3, <1>4
  <2>2. /\ g \in Seq(Record) /\ Len(g) = (k - 1) + 1
        /\ \A i \in 1..Len(g) : g[i] = f[(1 + i) - 1]
    BY <1>2, <2>1, Cut
  <2>3. (k - 1) + 1 = k /\ \A i \in 1..k : (1 + i) - 1 = i /\ i \in 1..h
    BY <1>4
  <2> QED BY <1>4, <2>2, <2>3
<1>6. PICK d : LastEnd(w, k, d)
  <2>1. k \in Nat
    BY <1>4
  <2> QED BY <2>1, LastEndExists
<1>7. PICK e : LastEnd(w, h, e)
  BY LastEndExists
<1>8. SealedTo(w, d) \in 0..n /\ Recovered(g) = [i \in 1..SealedTo(w, d) |-> i]
  <2>1. g \in Seq(Record) /\ FirstOf(g, w, k)
    BY <1>3, <1>4, <1>5 DEF FirstOf
  <2> QED BY <1>2, <1>6, <2>1, WholeRecovered
<1>9. SealedTo(w, e) \in 0..n /\ Recovered(f) = [i \in 1..SealedTo(w, e) |-> i]
  <2>1. FirstOf(f, w, h)
    BY <1>3, <1>4 DEF FirstOf
  <2> QED BY <1>2, <1>7, <2>1, WholeRecovered
<1>10. /\ d \in 0..k /\ (d # 0 => IsEnd(w[d]))
       /\ e \in 0..h /\ (e # 0 => IsEnd(w[e])) /\ \A i \in (e + 1)..h : ~IsEnd(w[i])
  BY <1>6, <1>7 DEF LastEnd
<1>11. d <= e
  <2>1. CASE d = 0
    BY <1>10, <2>1
  <2>2. CASE d # 0
    BY <1>4, <1>10, <2>2
  <2> QED BY <2>1, <2>2
<1>12. SealedTo(w, d) \in ends \cup {0} /\ SealedTo(w, e) \in ends \cup {0}
  <2>1. d # 0 => d \in 1..l
    BY <1>4, <1>10
  <2>2. e # 0 => e \in 1..l
    BY <1>4, <1>10
  <2> QED BY <1>2, <1>3, <1>10, <2>1, <2>2 DEF SealedTo, EndsWithin
<1>13. SealedTo(w, d) <= SealedTo(w, e)
  <2>1. CASE SealedTo(w, d) = 0
    BY <1>9, <2>1
  <2>2. CASE SealedTo(w, d) # 0
    <3>1. d # 0 /\ e # 0
      BY <1>10, <1>11, <2>2 DEF SealedTo
    <3>2. d \in 1..l /\ e \in 1..l /\ IsEnd(w[d]) /\ IsEnd(w[e])
      BY <1>4, <1>10, <3>1
    <3>3. PICK s : s = SealedTo(w, d) /\ s = w[d].seq /\ s \in 1..n
      BY <1>8, <2>2, <3>1 DEF SealedTo
    <3>4. PICK i \in 1..l : IsFrame(w[i]) /\ w[i].seq = s
      BY <1>2, <1>3, <3>3 DEF Whole
    <3>5. /\ i < d <=> w[i].seq <= w[d].seq
          /\ i < e <=> w[i].seq <= w[e].seq
      BY <1>2, <1>3, <3>2, <3>4 DEF Whole
    <3>6. i < d
      BY <3>3, <3>4, <3>5
    <3>7. i < e
      BY <1>10, <1>11, <3>6
    <3> QED BY <3>1, <3>3, <3>4, <3>5, <3>7 DEF SealedTo
  <2> QED BY <2>1, <2>2
<1>14. PICK s, t : s = SealedTo(w, d) /\ t = SealedTo(w, e)
  OBVIOUS
<1>15. s \in ends \cup {0} /\ t \in ends \cup {0} /\ s \in Nat /\ t \in Nat /\ s <= t
  BY <1>8, <1>9, <1>12, <1>13, <1>14
<1>16. Recovered(g) = [i \in 1..s |-> i] /\ Recovered(f) = [i \in 1..t |-> i]
  BY <1>8, <1>9, <1>14
<1> QED BY <1>15, <1>16 DEF RecoversLess

\* With the end of a stroke behind them, all frames are recovered.
LEMMA EndRecovered ==
  ASSUME NEW w \in Seq(Record), NEW n \in Nat, Whole(w, n), NEW v, v = Append(w, StrokeEnd(n))
  PROVE  v \in Seq(Record) /\ Whole(v, n) /\ Recovered(v) = [i \in 1..n |-> i]
<1>1. PICK r \in Record : r = StrokeEnd(n)
  BY RecordTypes
<1>2. IsEnd(r) /\ r.seq = n /\ Follows(r, n, n)
  BY <1>1, Tags DEF Follows
<1>3. v \in Seq(Record) /\ Whole(v, n)
  BY <1>1, <1>2, WholeOneMore
<1>4. PICK l \in Nat : l = Len(w)
  BY LenProperties
<1>5. Len(v) = l + 1 /\ v[l + 1] = r
  BY <1>1, <1>4, Appended
<1>6. PICK k \in Nat : k = l + 1
  OBVIOUS
<1>7. Len(v) = k /\ k # 0 /\ v[k] = r /\ k \in 0..k
  BY <1>5, <1>6
<1>8. LastEnd(v, k, k)
  <2>1. \A i \in (k + 1)..k : FALSE
    OBVIOUS
  <2> QED BY <1>2, <1>7, <2>1 DEF LastEnd
<1>9. FirstOf(v, v, k)
  BY <1>7 DEF FirstOf
<1>10. Recovered(v) = [i \in 1..SealedTo(v, k) |-> i]
  <2>1. PICK x, y : x = v /\ y = v
    OBVIOUS
  <2>2. x \in Seq(Record) /\ y \in Seq(Record) /\ Whole(x, n) /\ LastEnd(x, k, k) /\ FirstOf(y, x, k)
    BY <1>3, <1>8, <1>9, <2>1
  <2>3. Recovered(y) = [i \in 1..SealedTo(x, k) |-> i]
    BY <2>2, WholeRecovered
  <2> QED BY <2>1, <2>3
<1>11. SealedTo(v, k) = n
  BY <1>2, <1>7 DEF SealedTo
<1> QED BY <1>3, <1>10, <1>11

\* A confirmed stroke end: everything is on file and recovered.
LEMMA StrokeEndSound ==
  ASSUME NEW j \in Journal, NEW n \in Nat, NEW ends, Sound(j, n, ends),
         NEW o \in StrokeEndOutcomes(j, n), ~o.journal.failed
  PROVE  /\ o.journal \in Journal /\ Sound(o.journal, n, ends \cup {n})
         /\ Recovered(o.journal.file) = [i \in 1..n |-> i]
<1>1. PICK k : k = o.journal
  OBVIOUS
<1>2. PICK t \in Seq(Record), r \in Record : r = StrokeEnd(n) /\ t = <<r>>
  BY RecordTypes, SingletonSeq
<1>3. k \in Journal /\ Advances(j, k, t) /\ k.buf = <<>>
  BY <1>1, <1>2, StrokeEndAdvances
<1>4. k.stdio = <<>> /\ k.file \o k.buf = (j.file \o j.buf) \o t
  BY <1>1, <1>3 DEF Advances, Sound
<1>5. PICK g, w, v : g = k.file /\ w = AllOf(j) /\ v = AllOf(k)
  OBVIOUS
<1>6. g \in Seq(Record) /\ w \in Seq(Record) /\ v \in Seq(Record)
  BY <1>3, <1>5, FileBegins
<1>7. v = Append(w, StrokeEnd(n)) /\ g = v
  <2>1. w = j.file \o j.buf /\ v = g \o <<>>
    BY <1>3, <1>4, <1>5, AllOfIs DEF Sound
  <2>2. v = w \o t
    BY <1>3, <1>4, <1>5, <2>1
  <2>3. g \o <<>> = g
    BY <1>6, ConcatEmptySeq
  <2>4. Append(w, r) = w \o t
    BY <1>2, <1>6, AppendIsConcat
  <2> QED BY <1>2, <2>1, <2>2, <2>3, <2>4
<1>8. Whole(w, n) /\ EndsWithin(w, Len(j.file), ends)
  BY <1>5 DEF Sound
<1>9. Whole(v, n) /\ Recovered(v) = [i \in 1..n |-> i]
  BY <1>6, <1>7, <1>8, EndRecovered
<1>10. PICK l \in Nat : l = Len(w)
  BY <1>6, LenProperties
<1>11. Len(v) = l + 1 /\ (\A i \in 1..l : v[i] = w[i]) /\ v[l + 1] = r
  BY <1>2, <1>6, <1>7, <1>10, Appended
<1>12. ASSUME NEW i \in 1..(l + 1), IsEnd(v[i]) PROVE v[i].seq \in ends \cup {n}
  <2>1. CASE i \in 1..l
    BY <1>8, <1>10, <1>11, <1>12, <2>1 DEF EndsWithin
  <2>2. CASE i = l + 1
    BY <1>2, <1>11, <2>2, Tags
  <2> QED BY <2>1, <2>2
<1>13. EndsWithin(v, Len(g), ends \cup {n})
  BY <1>7, <1>11, <1>12 DEF EndsWithin
<1>14. Sound(k, n, ends \cup {n})
  BY <1>4, <1>5, <1>9, <1>13 DEF Sound
<1> QED BY <1>1, <1>3, <1>5, <1>7, <1>9, <1>14

\* What a dying process leaves: a beginning of all records, behind which half a
\* record may stand.
LEMMA DeathIs ==
  ASSUME NEW j \in Journal, NEW w, w = AllOf(j), NEW f, f \in FilesAtDeath(j)
  PROVE  \E k \in 0..Len(w) :
           /\ \A i \in 1..k : f[i] = w[i]
           /\ Len(f) = k \/ (Len(f) = k + 1 /\ f[k + 1] = Torn /\ k < Len(w))
<1>1. PICK g, p : /\ g = j.file /\ p = Pending(j) /\ w = g \o p
                  /\ g \in Seq(Record) /\ p \in Seq(Record)
  BY JournalFields, AllIs DEF AllOf
<1>2. PICK t \in Record : t = Torn
  BY RecordTypes
<1>3. PICK n \in 0..Len(p) :
        \/ f = g \o SubSeq(p, 1, n)
        \/ f = g \o SubSeq(p, 1, n) \o <<t>> /\ n < Len(p)
  BY <1>1, <1>2 DEF FilesAtDeath
<1>4. PICK h : h = g \o SubSeq(p, 1, n)
  OBVIOUS
<1>5. /\ h \in Seq(Record) /\ Len(h) = Len(g) + n /\ Len(w) = Len(g) + Len(p)
      /\ \A i \in 1..Len(h) : h[i] = w[i]
  <2>1. g \in Seq(Record) /\ p \in Seq(Record) /\ w = g \o p
    BY <1>1
  <2> QED BY <1>4, <2>1, BeginningOf
<1>6. PICK a \in Nat, b \in Nat : a = Len(g) /\ b = Len(p)
  BY <1>1, LenProperties
<1>7. PICK k \in Nat : k = a + n
  BY <1>3, <1>6
<1>8. k \in 0..Len(w) /\ Len(h) = k /\ (n < Len(p) => k < Len(w))
  BY <1>3, <1>5, <1>6, <1>7
<1>9. CASE f = h
  BY <1>5, <1>8, <1>9
<1>10. CASE f = h \o <<t>> /\ n < Len(p)
  <2>1. f = Append(h, t)
    BY <1>5, <1>10, AppendIsConcat
  <2>2. /\ Len(f) = Len(h) + 1
        /\ \A i \in 1..Len(h) : f[i] = h[i]
        /\ f[Len(h) + 1] = t
    BY <1>5, <2>1, Appended
  <2>3. (\A i \in 1..k : f[i] = w[i]) /\ Len(f) = k + 1 /\ f[k + 1] = Torn /\ k < Len(w)
    BY <1>2, <1>5, <1>8, <1>10, <2>2
  <2> QED BY <1>8, <2>3
<1> QED BY <1>3, <1>4, <1>9, <1>10

\* Dying between two calls costs recovery nothing.
LEMMA DeathSound ==
  ASSUME NEW j \in Journal, NEW n \in Nat, NEW ends, Sound(j, n, ends), NEW f, f \in FilesAtDeath(j)
  PROVE  f \in Seq(Record) /\ Recovered(f) = Recovered(j.file)
<1>1. PICK w, g : w = AllOf(j) /\ g = j.file
  OBVIOUS
<1>2. f \in Seq(Record) /\ Begins(g, f) /\ g \in Seq(Record) /\ w \in Seq(Record)
  BY <1>1, DeathBegins, FileBegins
<1>3. EndsWithin(w, Len(g), ends)
  BY <1>1 DEF Sound
<1>4. PICK k \in 0..Len(w) :
        /\ \A i \in 1..k : f[i] = w[i]
        /\ Len(f) = k \/ (Len(f) = k + 1 /\ f[k + 1] = Torn /\ k < Len(w))
  BY <1>1, DeathIs
<1>5. PICK l \in Nat : l = Len(w)
  BY <1>2, LenProperties
<1>6. ASSUME NEW i \in 1..Len(f) PROVE f[i] = Torn \/ (i \in 1..Len(w) /\ f[i] = w[i])
  <2>1. i \in 1..k \/ i = k + 1
    BY <1>4, <1>5
  <2>2. 1..k \subseteq 1..Len(w)
    BY <1>5
  <2>3. i \in 1..k => f[i] = w[i]
    BY <1>4
  <2>4. i = k + 1 /\ i \notin 1..k => f[i] = Torn
    BY <1>4, <1>5
  <2> QED BY <2>1, <2>2, <2>3, <2>4
<1>7. Recovered(f) = Recovered(g)
  BY <1>2, <1>3, <1>6, RecoveredAsBefore
<1> QED BY <1>1, <1>2, <1>7

\* Dying while a stroke end is written either seals the stroke or costs nothing.
LEMMA DeathInStrokeEnd ==
  ASSUME NEW j \in Journal, NEW n \in Nat, NEW ends, Sound(j, n, ends), NEW r, r = StrokeEnd(n),
         NEW o \in WriteOutcomes(j, r), ~o.journal.failed, NEW f, f \in FilesAtDeath(o.journal)
  PROVE  /\ f \in Seq(Record)
         /\ Recovered(f) = Recovered(j.file) \/ Recovered(f) = [i \in 1..n |-> i]
<1>1. PICK k : k = o.journal
  OBVIOUS
<1>2. PICK t \in Seq(Record) : t = <<r>> /\ r \in Record
  BY RecordTypes, SingletonSeq
<1>3. Advances(j, k, Taken(o, r)) /\ o.ok
  BY <1>1, <1>2, WriteAdvances
<1>4. /\ k \in Journal /\ Begins(j.file, k.file) /\ k.stdio = <<>>
      /\ k.file \o k.buf = (j.file \o j.buf) \o t
  BY <1>1, <1>2, <1>3 DEF Advances, Taken, Sound
<1>5. PICK g, h, w, v : g = j.file /\ h = k.file /\ w = AllOf(j) /\ v = AllOf(k)
  OBVIOUS
<1>6. g \in Seq(Record) /\ h \in Seq(Record) /\ w \in Seq(Record) /\ v \in Seq(Record)
  BY <1>4, <1>5, FileBegins
<1>7. v = Append(w, r)
  <2>1. w = j.file \o j.buf /\ v = k.file \o k.buf
    BY <1>4, <1>5, AllOfIs DEF Sound
  <2>2. v = w \o t
    BY <1>4, <2>1
  <2> QED BY <1>2, <1>6, <2>2, AppendIsConcat
<1>8. Whole(w, n) /\ EndsWithin(w, Len(g), ends)
  BY <1>5 DEF Sound
<1>9. Recovered(v) = [i \in 1..n |-> i]
  BY <1>6, <1>7, <1>8, EndRecovered
<1>10. f \in Seq(Record) /\ Begins(h, f)
  BY <1>1, <1>4, <1>5, DeathBegins
<1>11. Begins(g, f)
  BY <1>4, <1>5, <1>6, <1>10, BeginsTransitive
<1>12. PICK l \in Nat : l = Len(w)
  BY <1>6, LenProperties
<1>13. Len(v) = l + 1 /\ \A i \in 1..l : v[i] = w[i]
  BY <1>2, <1>6, <1>7, <1>12, Appended
<1>14. PICK m \in 0..Len(v) :
         /\ \A i \in 1..m : f[i] = v[i]
         /\ Len(f) = m \/ (Len(f) = m + 1 /\ f[m + 1] = Torn /\ m < Len(v))
  BY <1>1, <1>4, <1>5, DeathIs
<1>15. CASE m = l + 1
  <2>1. Len(f) = Len(v) /\ \A i \in 1..Len(v) : f[i] = v[i]
    BY <1>13, <1>14, <1>15
  <2>2. f = v
    BY <1>6, <1>10, <2>1, SeqEqual
  <2> QED BY <1>9, <1>10, <2>2
<1>16. CASE m # l + 1
  <2>1. m \in 0..l
    BY <1>13, <1>14, <1>16
  <2>2. ASSUME NEW i \in 1..Len(f) PROVE f[i] = Torn \/ (i \in 1..Len(w) /\ f[i] = w[i])
    <3>1. (i \in 1..m) \/ (i = m + 1 /\ f[i] = Torn)
      BY <1>14, <2>1
    <3>2. i \in 1..m => i \in 1..l /\ f[i] = w[i]
      BY <1>13, <1>14, <2>1
    <3> QED BY <1>12, <3>1, <3>2
  <2>3. Recovered(f) = Recovered(g)
    BY <1>6, <1>8, <1>10, <1>11, <2>2, RecoveredAsBefore
  <2> QED BY <1>5, <1>10, <2>3
<1> QED BY <1>15, <1>16

\* A new journal lost nothing, and nothing is recovered from it.
LEMMA NewSound ==
  ASSUME NEW j, j = NewJournal, NEW ends
  PROVE  j \in Journal /\ Sound(j, 0, ends) /\ Recovered(j.file) = <<>>
<1>1. j = [buf |-> <<>>, stdio |-> <<>>, file |-> <<>>, failed |-> FALSE]
  BY DEF NewJournal
<1>2. PICK w : w = <<>>
  OBVIOUS
<1>3. w \in Seq(Record) /\ Len(w) = 0 /\ w \o w = w
  BY <1>2, EmptySeq, ConcatEmptySeq
<1>4. j.buf = w /\ j.stdio = w /\ j.file = w /\ j \in Journal
  BY <1>1, <1>2, <1>3 DEF Journal
<1>5. AllOf(j) = w
  BY <1>3, <1>4 DEF AllOf, Pending
<1>6. Whole(w, 0)
  BY <1>3 DEF Whole, FramesAscend
<1>7. Sound(j, 0, ends)
  BY <1>2, <1>3, <1>4, <1>5, <1>6 DEF Sound, EndsWithin
<1>8. PICK n \in Nat : n = 0
  OBVIOUS
<1>9. LastEnd(w, n, n)
  BY <1>8 DEF LastEnd
<1>10. FirstOf(w, w, n)
  BY <1>3, <1>8 DEF FirstOf
<1>11. Recovered(w) = [i \in 1..SealedTo(w, n) |-> i]
  <2>1. PICK x, y : x = w /\ y = w
    OBVIOUS
  <2>2. x \in Seq(Record) /\ y \in Seq(Record) /\ Whole(x, n) /\ LastEnd(x, n, n) /\ FirstOf(y, x, n)
    BY <1>3, <1>6, <1>8, <1>9, <1>10, <2>1
  <2>3. Recovered(y) = [i \in 1..SealedTo(x, n) |-> i]
    BY <2>2, WholeRecovered
  <2> QED BY <2>1, <2>3
<1>12. [i \in 1..SealedTo(w, n) |-> i] = <<>>
  BY <1>8, EmptySeq DEF SealedTo
<1> QED BY <1>4, <1>7, <1>11, <1>12

-----------------------------------------------------------------------------
(* A journal that may say that it failed.                                   *)

\* Unless it says so, the journal lost nothing of n frames.
Held(j, n) == j \in Journal /\ (~j.failed => Sound(j, n, Nat))

\* ... and recovery would return all of them.
Sealed(j, n) == Held(j, n) /\ (~j.failed => Recovered(j.file) = [i \in 1..n |-> i])

\* A record that ends no stroke leaves the journal so, with the frame it holds.
LEMMA WrittenHeld ==
  ASSUME NEW n \in Nat, NEW j, Held(j, n), NEW r \in Record, NEW m \in Nat,
         ~IsEnd(r), Follows(r, n, m), NEW o \in WriteOutcomes(j, r)
  PROVE  /\ Held(o.journal, m)
         /\ ~o.journal.failed => ~j.failed /\ Recovered(o.journal.file) = Recovered(j.file)
<1>1. j \in Journal
  BY DEF Held
<1>2. o.journal \in Journal /\ (j.failed => o.journal.failed)
  BY <1>1, WriteAdvances DEF Advances
<1>3. CASE o.journal.failed
  BY <1>2, <1>3 DEF Held
<1>4. CASE ~o.journal.failed
  <2>1. ~j.failed /\ Sound(j, n, Nat)
    BY <1>2, <1>4 DEF Held
  <2>2. Sound(o.journal, m, Nat) /\ Recovered(o.journal.file) = Recovered(j.file)
    BY <1>1, <1>4, <2>1, WriteSound
  <2> QED BY <1>2, <2>1, <2>2 DEF Held
<1> QED BY <1>3, <1>4

\* The end of a stroke seals it.
LEMMA StrokeEndSealed ==
  ASSUME NEW n \in Nat, NEW j, Held(j, n), NEW o \in StrokeEndOutcomes(j, n)
  PROVE  Sealed(o.journal, n) /\ (~o.journal.failed => ~j.failed)
<1>1. j \in Journal
  BY DEF Held
<1>2. o.journal \in Journal /\ (j.failed => o.journal.failed)
  BY <1>1, StrokeEndAdvances, StrokeEndNeverClears
<1>3. CASE o.journal.failed
  BY <1>2, <1>3 DEF Sealed, Held
<1>4. CASE ~o.journal.failed
  <2>1. Sound(j, n, Nat)
    BY <1>2, <1>4 DEF Held
  <2>2. Sound(o.journal, n, Nat \cup {n}) /\ Recovered(o.journal.file) = [i \in 1..n |-> i]
    BY <1>1, <1>4, <2>1, StrokeEndSound
  <2>3. Nat \cup {n} = Nat
    OBVIOUS
  <2> QED BY <1>2, <2>2, <2>3 DEF Sealed, Held
<1> QED BY <1>3, <1>4

\* A flush keeps it, and one that succeeds leaves everything in the file.
LEMMA FlushedHeld ==
  ASSUME NEW n \in Nat, NEW j, Held(j, n), NEW o \in FlushOutcomes(j)
  PROVE  /\ Held(o.journal, n) /\ (~o.journal.failed => ~j.failed /\ o.journal.file = AllOf(o.journal))
         /\ ~o.ok => o.journal.failed
<1>1. j \in Journal
  BY DEF Held
<1>2. o.journal \in Journal /\ (j.failed => o.journal.failed) /\ (~o.ok => o.journal.failed)
  BY <1>1, FlushAdvances DEF Advances
<1>3. CASE o.journal.failed
  BY <1>2, <1>3 DEF Held
<1>4. CASE ~o.journal.failed
  <2>1. Sound(j, n, Nat) /\ ~j.failed
    BY <1>2, <1>4 DEF Held
  <2>2. Sound(o.journal, n, Nat) /\ AllOf(o.journal) = AllOf(j) /\ o.journal.file = AllOf(j)
    BY <1>1, <1>4, <2>1, FlushSound
  <2> QED BY <1>2, <2>1, <2>2 DEF Held
<1> QED BY <1>3, <1>4

\* The frames after a, from a file in order.
LEMMA FramesAfterOrdered ==
  ASSUME NEW file \in Seq(Record), NEW m, FramesAscend(file, m), NEW a \in Nat, NEW w, w = FramesAfter(file, a)
  PROVE  /\ w \in Seq(Nat)
         /\ \A i \in 1..Len(w) : w[i] \in 1..m /\ a < w[i]
         /\ \A i, k \in 1..Len(w) : i < k => w[i] < w[k]
<1>1. PICK n, wanted : n = ReadableTo(file) /\ wanted = {s \in Nat : s > a}
  OBVIOUS
<1>2. n \in 0..Len(file)
  BY <1>1, ReadableIs
<1>3. w = FrameSeqs(file, n, wanted)
  BY <1>1 DEF FramesAfter
<1>4. /\ w \in Seq(Nat)
      /\ \A i \in 1..Len(w) : w[i] \in 1..m
      /\ \A i, k \in 1..Len(w) : i < k => w[i] < w[k]
  BY <1>2, <1>3, ReadInOrderIs
<1>5. PICK at : Read(w, file, n, wanted, at)
  BY <1>2, <1>3, FrameSeqsAre
<1>6. \A i \in 1..Len(w) : w[i] \in wanted
  BY <1>5 DEF Read
<1>7. \A i \in 1..Len(w) : a < w[i]
  BY <1>1, <1>6
<1> QED BY <1>4, <1>7

\* From a journal that lost nothing they are all there.
LEMMA FramesAfterWhole ==
  ASSUME NEW file \in Seq(Record), NEW n \in Nat, Whole(file, n), NEW a \in 0..n
  PROVE  FramesAfter(file, a) = [i \in 1..(n - a) |-> a + i]
<1>1. PICK m, wanted : m = ReadableTo(file) /\ wanted = {s \in Nat : s > a}
  OBVIOUS
<1>2. PICK l \in Nat : l = Len(file)
  BY LenProperties
<1>3. m = l /\ m \in 0..Len(file)
  <2>1. m \in 0..l /\ \A i \in 1..l : (i <= m <=> \A k \in 1..i : file[k] # Torn)
    BY <1>1, <1>2, ReadableIs
  <2>2. \A i \in 1..l : file[i] # Torn
    BY <1>2 DEF Whole
  <2>3. \A i \in 1..l : i <= m
    <3> TAKE i \in 1..l
    <3>1. \A k \in 1..i : k \in 1..l
      OBVIOUS
    <3> QED BY <2>1, <2>2, <3>1
  <2>4. l = 0 \/ l \in 1..l
    OBVIOUS
  <2> QED BY <1>2, <2>1, <2>3, <2>4
<1>4. FramesAscend(file, n)
  BY DEF Whole
<1>5. Covers(file, m, wanted, a, n)
  <2>1. ASSUME NEW k \in 1..m, IsFrame(file[k]), file[k].seq \in wanted PROVE file[k].seq \in (a + 1)..n
    <3>1. file[k].seq \in 1..n
      BY <1>2, <1>3, <1>4, <2>1 DEF FramesAscend
    <3>2. file[k].seq > a
      BY <1>1, <2>1
    <3> QED BY <3>1, <3>2
  <2>2. ASSUME NEW s \in (a + 1)..n PROVE s \in wanted /\ \E k \in 1..m : IsFrame(file[k]) /\ file[k].seq = s
    <3>1. s \in 1..n /\ s \in Nat /\ s > a
      OBVIOUS
    <3> QED BY <1>1, <1>2, <1>3, <3>1 DEF Whole
  <2> QED BY <2>1, <2>2 DEF Covers
<1>6. a \in Nat /\ a <= n
  OBVIOUS
<1>7. FrameSeqs(file, m, wanted) = [i \in 1..(n - a) |-> a + i]
  BY <1>3, <1>4, <1>5, <1>6, ReadAll
<1> QED BY <1>1, <1>7 DEF FramesAfter

\* What recovery returns comes in the order of drawing.
LEMMA RecoveredInOrder ==
  ASSUME NEW file \in Seq(Record), NEW m, FramesAscend(file, m), NEW w, w = Recovered(file)
  PROVE  /\ w \in Seq(Nat)
         /\ \A i \in 1..Len(w) : w[i] \in 1..m
         /\ \A i, k \in 1..Len(w) : i < k => w[i] < w[k]
<1>1. PICK r : r = ReadableTo(file)
  OBVIOUS
<1>2. r \in 0..Len(file)
  BY <1>1, ReadableIs
<1>3. PICK e : LastEnd(file, r, e)
  <2>1. r \in Nat
    BY <1>2
  <2> QED BY <2>1, LastEndExists
<1>4. e \in 0..Len(file)
  BY <1>2, <1>3 DEF LastEnd
<1>5. w = FrameSeqs(file, e, Nat)
  BY <1>1, <1>3, RecoveredTo
<1> QED BY <1>4, <1>5, ReadInOrderIs

\* What recovery returns of a file it returns of every file that one begins.
LEMMA RecoveredKeeps ==
  ASSUME NEW f \in Seq(Record), NEW g \in Seq(Record), Begins(f, g),
         NEW v, v = Recovered(f), NEW w, w = Recovered(g), NEW s, \E i \in 1..Len(v) : v[i] = s
  PROVE  \E i \in 1..Len(w) : w[i] = s
<1>1. PICK a, b : a = ReadableTo(f) /\ b = ReadableTo(g)
  OBVIOUS
<1>2. /\ a \in 0..Len(f) /\ \A i \in 1..Len(f) : (i <= a <=> \A k \in 1..i : f[k] # Torn)
      /\ b \in 0..Len(g) /\ \A i \in 1..Len(g) : (i <= b <=> \A k \in 1..i : g[k] # Torn)
  BY <1>1, ReadableIs
<1>3. PICK p \in Nat, q \in Nat : p = Len(f) /\ q = Len(g) /\ p <= q /\ \A i \in 1..p : g[i] = f[i]
  BY LenProperties DEF Begins
<1>0. a \in Nat /\ b \in Nat
  BY <1>2
<1>4. PICK d : LastEnd(f, a, d)
  BY <1>0, LastEndExists
<1>5. PICK e : LastEnd(g, b, e)
  BY <1>0, LastEndExists
<1>6. /\ d \in 0..a /\ (d # 0 => IsEnd(f[d]))
      /\ e \in 0..b /\ \A i \in (e + 1)..b : ~IsEnd(g[i])
  BY <1>4, <1>5 DEF LastEnd
<1>7. v = FrameSeqs(f, d, Nat) /\ w = FrameSeqs(g, e, Nat)
  BY <1>1, <1>4, <1>5, RecoveredTo
<1>8. d \in 0..Len(f) /\ e \in 0..Len(g)
  BY <1>2, <1>3, <1>6
<1>9. PICK at : Read(v, f, d, Nat, at)
  BY <1>7, <1>8, FrameSeqsAre
<1>10. PICK to : Read(w, g, e, Nat, to)
  BY <1>7, <1>8, FrameSeqsAre
<1>11. PICK i \in 1..Len(v) : v[i] = s
  OBVIOUS
<1>12. PICK k \in 1..d : k = at[i] /\ IsFrame(f[k]) /\ f[k].seq = s /\ f[k].seq \in Nat
  BY <1>9, <1>11 DEF Read
<1>13. d \in 1..p /\ k \in 1..p /\ d \in 1..q
  BY <1>2, <1>3, <1>6, <1>12
<1>14. d <= b
  <2>1. \A x \in 1..d : f[x] # Torn
    BY <1>2, <1>3, <1>6, <1>13
  <2>2. \A x \in 1..d : g[x] # Torn
    <3> SUFFICES ASSUME NEW x \in 1..d PROVE g[x] # Torn
      OBVIOUS
    <3>1. x \in 1..p
      BY <1>13
    <3> QED BY <1>3, <2>1, <3>1
  <2> QED BY <1>2, <1>3, <1>13, <2>2
<1>15. d <= e
  <2>1. IsEnd(g[d])
    BY <1>3, <1>6, <1>12, <1>13
  <2>2. ~(d \in (e + 1)..b)
    BY <1>6, <2>1
  <2> QED BY <1>2, <1>3, <1>6, <1>13, <1>14, <2>2
<1>16. k \in 1..e /\ IsFrame(g[k]) /\ g[k].seq = s /\ g[k].seq \in Nat
  BY <1>3, <1>6, <1>12, <1>13, <1>15
<1>17. PICK x \in 1..Len(w) : to[x] = k
  BY <1>10, <1>16 DEF Read
<1>18. w[x] = s
  BY <1>10, <1>16, <1>17 DEF Read
<1> QED BY <1>18
=============================================================================
