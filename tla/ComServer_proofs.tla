---------------------------- MODULE ComServer_proofs ----------------------------
(***************************************************************************)
(* Theorems about ComServer, and with it about Application: the journals   *)
(* and the totals agree with what was drawn, a process that has not        *)
(* crashed keeps every record, "saved" is true of an agent's documents,    *)
(* and no object reads a destroyed one before Quit.  The last part is      *)
(* about the program's other COM server, the host process of plug-ins.     *)
(***************************************************************************)
EXTENDS ComServer, PluginHost, SequenceTheorems, WellFoundedInduction, TLAPS

-----------------------------------------------------------------------------
(* Numbers and sums.                                                        *)

\* A set of numbers has a least one.
LEMMA LeastNumber ==
  ASSUME NEW T, T \subseteq Nat, T # {}
  PROVE  \E x \in T : \A y \in T : x <= y
<1>1. PICK R : R = OpToRel(<, Nat)
  OBVIOUS
<1>2. \A x, y \in Nat : y < x => <<y, x>> \in R
  BY <1>1 DEF OpToRel
<1>3. IsWellFoundedOn(R, Nat)
  BY <1>1, NatLessThanWellFounded
<1>4. PICK x \in T : \A y \in T : ~(<<y, x>> \in R)
  BY <1>3, WFMin
<1>5. ASSUME NEW y \in T PROVE x <= y
  <2>1. x \in Nat /\ y \in Nat /\ ~(y < x)
    BY <1>2, <1>4
  <2> QED BY <2>1
<1> QED BY <1>5

\* The sum of the first i tallies, from the sums before.
SumStep(t, before, i) == IF i = 0 THEN 0 ELSE before[i - 1] + t[i]

\* f has the sums of the first 0, 1, ..., n tallies.
Sums(f, t, n) ==
  /\ f = [i \in 0..n |-> SumStep(t, f, i)]
  /\ f[0] = 0
  /\ \A i \in 1..n : f[i - 1] \in Nat /\ f[i] \in Nat /\ f[i] = f[i - 1] + t[i]

\* However many tallies there are, they have sums.
LEMMA SummingGoesOn ==
  ASSUME NEW t, NEW n \in Nat
  PROVE  \E f : f = [i \in 0..n |-> SumStep(t, f, i)]
<1> DEFINE T == {m \in Nat : ~ \E f : f = [i \in 0..m |-> SumStep(t, f, i)]}
<1>1. SUFFICES ASSUME T # {} PROVE FALSE
  OBVIOUS
<1>2. PICK m \in T : \A y \in T : m <= y
  <2>1. T \subseteq Nat
    OBVIOUS
  <2> HIDE DEF T
  <2> QED BY <1>1, <2>1, LeastNumber
<1>3. m \in Nat /\ ~ \E f : f = [i \in 0..m |-> SumStep(t, f, i)]
  BY <1>2
<1>4. CASE m = 0
  <2>1. PICK f : f = [i \in 0..0 |-> 0]
    OBVIOUS
  <2>2. \A i \in 0..m : SumStep(t, f, i) = 0
    BY <1>4 DEF SumStep
  <2>3. f = [i \in 0..m |-> SumStep(t, f, i)]
    BY <1>4, <2>1, <2>2
  <2> QED BY <1>3, <2>3
<1>5. CASE m # 0
  <2>1. m - 1 \in Nat /\ m - 1 < m
    BY <1>3, <1>5
  <2>2. m - 1 \notin T
    BY <1>2, <2>1
  <2>3. PICK f : f = [i \in 0..(m - 1) |-> SumStep(t, f, i)]
    BY <2>1, <2>2
  <2>4. PICK g : g = [i \in 0..m |-> IF i = m THEN SumStep(t, f, m) ELSE f[i]]
    OBVIOUS
  <2>5. ASSUME NEW i \in 0..m PROVE g[i] = SumStep(t, g, i)
    <3>1. CASE i = 0
      <4>1. g[0] = f[0] /\ f[0] = SumStep(t, f, 0)
        BY <1>5, <2>1, <2>3, <2>4
      <4> QED BY <3>1, <4>1 DEF SumStep
    <3>2. CASE i # 0
      <4>1. i - 1 \in 0..(m - 1) /\ i - 1 \in 0..m /\ i - 1 # m
        BY <1>3, <3>2
      <4>2. g[i - 1] = f[i - 1]
        BY <2>4, <4>1
      <4>3. SumStep(t, g, i) = SumStep(t, f, i)
        BY <3>2, <4>2 DEF SumStep
      <4>4. CASE i = m
        BY <2>4, <4>3, <4>4
      <4>5. CASE i # m
        <5>1. i \in 0..(m - 1)
          BY <1>3, <4>5
        <5>2. g[i] = f[i] /\ f[i] = SumStep(t, f, i)
          BY <2>3, <2>4, <4>5, <5>1
        <5> QED BY <4>3, <5>2
      <4> QED BY <4>4, <4>5
    <3> QED BY <3>1, <3>2
  <2>6. g = [i \in 0..m |-> SumStep(t, g, i)]
    BY <2>4, <2>5
  <2> QED BY <1>3, <2>6
<1> QED BY <1>4, <1>5

\* SumOf is the last of the sums.
LEMMA SumsAre ==
  ASSUME NEW t \in Seq(Nat), NEW n \in Nat, n = Len(t)
  PROVE  \E f : Sums(f, t, n) /\ SumOf(t) = f[n] /\ f[n] \in Nat
<1>1. PICK f : f = CHOOSE g : g = [i \in 0..n |-> SumStep(t, g, i)]
  OBVIOUS
<1>2. f = [i \in 0..n |-> SumStep(t, f, i)]
  BY <1>1, SummingGoesOn
<1>3. SumOf(t) = f[n]
  BY <1>1 DEF SumOf, SumStep
<1>4. f[0] = 0
  BY <1>2 DEF SumStep
<1>5. ASSUME NEW i \in 1..n PROVE f[i] = f[i - 1] + t[i] /\ t[i] \in Nat
  <2>1. i \in 0..n /\ i # 0
    OBVIOUS
  <2>2. f[i] = SumStep(t, f, i)
    BY <1>2, <2>1
  <2>3. t[i] \in Nat
    BY ElementOfSeq
  <2> QED BY <2>1, <2>2, <2>3 DEF SumStep
<1>6. \A i \in 0..n : f[i] \in Nat
  <2> DEFINE T == {i \in 0..n : f[i] \notin Nat}
  <2>1. SUFFICES ASSUME T # {} PROVE FALSE
    OBVIOUS
  <2>2. PICK m \in T : \A y \in T : m <= y
    <3>1. T \subseteq Nat
      OBVIOUS
    <3> HIDE DEF T
    <3> QED BY <2>1, <3>1, LeastNumber
  <2>3. m # 0 /\ m \in 1..n
    BY <1>4, <2>2
  <2>4. m - 1 \in 0..n /\ ~(m <= m - 1)
    BY <2>3
  <2>5. m - 1 \notin T
    BY <2>2, <2>4
  <2>6. f[m - 1] \in Nat
    BY <2>4, <2>5
  <2>7. f[m] \in Nat
    BY <1>5, <2>3, <2>6
  <2> QED BY <2>2, <2>7
<1>7. \A i \in 1..n : f[i - 1] \in Nat /\ f[i] \in Nat /\ f[i] = f[i - 1] + t[i]
  <2> TAKE i \in 1..n
  <2>1. i - 1 \in 0..n /\ i \in 0..n
    OBVIOUS
  <2> QED BY <1>5, <1>6, <2>1
<1>8. f[n] \in Nat
  <2>1. n \in 0..n
    OBVIOUS
  <2> QED BY <1>6, <2>1
<1> QED BY <1>2, <1>3, <1>4, <1>7, <1>8 DEF Sums

\* Tallies that agree have sums that agree.
LEMMA SumsAgree ==
  ASSUME NEW t, NEW u, NEW f, NEW g, NEW n \in Nat, NEW l \in Nat, l <= n,
         Sums(f, t, l), Sums(g, u, n), \A i \in 1..l : t[i] = u[i]
  PROVE  \A i \in 0..l : f[i] = g[i]
<1> DEFINE T == {i \in 0..l : f[i] # g[i]}
<1>1. SUFFICES ASSUME T # {} PROVE FALSE
  OBVIOUS
<1>2. PICK m \in T : \A y \in T : m <= y
  <2>1. T \subseteq Nat
    OBVIOUS
  <2> HIDE DEF T
  <2> QED BY <1>1, <2>1, LeastNumber
<1>3. f[0] = g[0]
  BY DEF Sums
<1>4. m # 0 /\ m \in 1..l /\ m \in 1..n
  BY <1>2, <1>3
<1>5. m - 1 \in 0..l /\ ~(m <= m - 1)
  BY <1>4
<1>6. f[m - 1] = g[m - 1]
  BY <1>2, <1>5
<1>7. f[m] = f[m - 1] + t[m] /\ g[m] = g[m - 1] + u[m] /\ t[m] = u[m]
  BY <1>4 DEF Sums
<1>8. f[m] = g[m]
  BY <1>6, <1>7
<1> QED BY <1>2, <1>8

\* One more document that has counted nothing.
LEMMA NothingMore ==
  ASSUME NEW t \in Seq(Nat), NEW u \in Seq(Nat), Len(u) = Len(t) + 1,
         \A i \in 1..Len(t) : u[i] = t[i], u[Len(u)] = 0
  PROVE  SumOf(u) = SumOf(t)
<1>1. PICK l \in Nat, n \in Nat : l = Len(t) /\ n = Len(u)
  BY LenProperties
<1>2. PICK f : Sums(f, t, l) /\ SumOf(t) = f[l] /\ f[l] \in Nat
  BY <1>1, SumsAre
<1>3. PICK g : Sums(g, u, n) /\ SumOf(u) = g[n] /\ g[n] \in Nat
  BY <1>1, SumsAre
<1>4. n = l + 1 /\ l <= n /\ n \in 1..n /\ n - 1 = l /\ l \in 0..l
  BY <1>1
<1>5. \A i \in 1..l : t[i] = u[i]
  BY <1>1
<1>6. f[l] = g[l]
  <2>1. \A i \in 0..l : f[i] = g[i]
    BY <1>2, <1>3, <1>4, <1>5, SumsAgree
  <2> QED BY <1>4, <2>1
<1>7. g[n] = g[n - 1] + u[n]
  BY <1>3, <1>4 DEF Sums
<1> QED BY <1>1, <1>2, <1>3, <1>4, <1>6, <1>7

\* Documents that count nothing.
LEMMA NothingCounted ==
  ASSUME NEW t \in Seq(Nat), \A i \in 1..Len(t) : t[i] = 0
  PROVE  SumOf(t) = 0
<1>1. PICK n \in Nat : n = Len(t)
  BY LenProperties
<1>2. PICK f : Sums(f, t, n) /\ SumOf(t) = f[n] /\ f[n] \in Nat
  BY <1>1, SumsAre
<1> DEFINE T == {i \in 0..n : f[i] # 0}
<1>3. SUFFICES ASSUME T # {} PROVE FALSE
  BY <1>2
<1>4. PICK m \in T : \A y \in T : m <= y
  <2>1. T \subseteq Nat
    OBVIOUS
  <2> HIDE DEF T
  <2> QED BY <1>3, <2>1, LeastNumber
<1>5. f[0] = 0
  BY <1>2 DEF Sums
<1>6. m # 0 /\ m \in 1..n
  BY <1>4, <1>5
<1>7. m - 1 \in 0..n /\ ~(m <= m - 1)
  BY <1>6
<1>8. f[m - 1] = 0
  BY <1>4, <1>7
<1>9. f[m] = f[m - 1] + t[m] /\ t[m] = 0
  BY <1>1, <1>2, <1>6 DEF Sums
<1> QED BY <1>4, <1>8, <1>9

\* One document that counts something else.
LEMMA OneCountsElse ==
  ASSUME NEW t \in Seq(Nat), NEW u \in Seq(Nat), Len(u) = Len(t), NEW k \in 1..Len(t),
         \A i \in 1..Len(t) : i # k => u[i] = t[i]
  PROVE  SumOf(u) + t[k] = SumOf(t) + u[k]
<1>1. PICK n \in Nat : n = Len(t) /\ n = Len(u)
  BY LenProperties
<1>2. PICK f : Sums(f, t, n) /\ SumOf(t) = f[n] /\ f[n] \in Nat
  BY <1>1, SumsAre
<1>3. PICK g : Sums(g, u, n) /\ SumOf(u) = g[n] /\ g[n] \in Nat
  BY <1>1, SumsAre
<1>4. /\ k \in 1..n /\ t[k] \in Nat /\ u[k] \in Nat
      /\ \A i \in 1..n : i # k => u[i] = t[i]
  BY <1>1, ElementOfSeq
<1>5. k - 1 \in Nat /\ k - 1 <= n /\ k - 1 \in 0..(k - 1)
  BY <1>4
<1>6. f[k - 1] = g[k - 1]
  <2> DEFINE T == {i \in 0..(k - 1) : f[i] # g[i]}
  <2>1. SUFFICES ASSUME T # {} PROVE FALSE
    BY <1>5
  <2>2. PICK m \in T : \A y \in T : m <= y
    <3>1. T \subseteq Nat
      OBVIOUS
    <3> HIDE DEF T
    <3> QED BY <2>1, <3>1, LeastNumber
  <2>3. f[0] = g[0]
    BY <1>2, <1>3 DEF Sums
  <2>4. m # 0 /\ m \in 1..n /\ m # k /\ m \in 1..(k - 1)
    BY <1>4, <2>2, <2>3
  <2>5. m - 1 \in 0..(k - 1) /\ ~(m <= m - 1)
    BY <1>4, <2>4
  <2>6. f[m - 1] = g[m - 1]
    BY <2>2, <2>5
  <2>7. f[m] = f[m - 1] + t[m] /\ g[m] = g[m - 1] + u[m] /\ t[m] = u[m]
    BY <1>2, <1>3, <1>4, <2>4 DEF Sums
  <2>8. f[m] = g[m]
    BY <2>6, <2>7
  <2> QED BY <2>2, <2>8
<1> DEFINE T == {i \in k..n : g[i] + t[k] # f[i] + u[k]}
<1>7. SUFFICES ASSUME T # {} PROVE FALSE
  <2>1. n \in k..n
    BY <1>4
  <2> QED BY <1>2, <1>3, <2>1
<1>8. PICK m \in T : \A y \in T : m <= y
  <2>1. T \subseteq Nat
    BY <1>4
  <2> HIDE DEF T
  <2> QED BY <1>7, <2>1, LeastNumber
<1>9. m \in 1..n /\ m \in k..n /\ g[m] + t[k] # f[m] + u[k]
  BY <1>4, <1>8
<1>10. /\ f[m] = f[m - 1] + t[m] /\ f[m - 1] \in Nat /\ f[m] \in Nat
       /\ g[m] = g[m - 1] + u[m] /\ g[m - 1] \in Nat /\ g[m] \in Nat
  BY <1>2, <1>3, <1>9 DEF Sums
<1>11. CASE m = k
  <2>1. f[k] = f[k - 1] + t[k] /\ g[k] = g[k - 1] + u[k] /\ f[k - 1] \in Nat
    BY <1>10, <1>11
  <2>2. g[k] + t[k] # f[k] + u[k]
    BY <1>9, <1>11
  <2> QED BY <1>4, <1>6, <2>1, <2>2
<1>12. CASE m # k
  <2>1. m - 1 \in k..n /\ ~(m <= m - 1)
    BY <1>4, <1>9, <1>12
  <2>2. g[m - 1] + t[k] = f[m - 1] + u[k]
    BY <1>8, <2>1
  <2>3. u[m] = t[m] /\ u[m] \in Nat
    BY <1>1, <1>4, <1>9, <1>12, ElementOfSeq
  <2>4. PICK v \in Nat, w \in Nat : v = t[k] /\ w = u[k]
    BY <1>4
  <2>5. PICK a \in Nat, b \in Nat, c \in Nat : a = f[m - 1] /\ b = g[m - 1] /\ c = u[m]
    BY <1>10, <2>3
  <2>6. f[m] = a + c /\ g[m] = b + c /\ b + v = a + w
    BY <1>10, <2>2, <2>3, <2>4, <2>5
  <2>7. g[m] + v = f[m] + w
    BY <2>6
  <2> QED BY <1>9, <2>4, <2>7
<1> QED BY <1>11, <1>12

-----------------------------------------------------------------------------
(* The inductive invariant.                                                 *)

JournalName == (Path \cup {New}) \X Nat

\* A document that has not been destroyed.
Document ==
  [live : {TRUE}, closed : BOOLEAN, held : SUBSET Nat, undo : Seq(Nat), redo : Seq(Nat),
   path : Path \cup {None}, saved : BOOLEAN, journal : JournalName \cup {None},
   tally : Nat, kept : SUBSET Nat]

\* What COM hands to a script.
Object == [kind : Kind, doc : Nat \cup {None}]

\* Typed: the documents, the files and the journals hold what they are meant to.
Typed ==
  /\ doc \in Seq(Document \cup {Gone}) /\ docs \in Seq(Nat) /\ active \in Nat
  /\ file \in [Path -> (SUBSET Nat) \cup {None, Cut}]
  /\ DOMAIN journal \subseteq JournalName
  /\ \A n \in DOMAIN journal : journal[n] \in Seq(Nat)
  /\ nextSegment \in Nat /\ closed \in Nat /\ changes \in Nat /\ drawn \in Nat

\* Listed: the list names documents that are there, none twice.
Listed ==
  /\ \A i \in 1..Len(docs) : docs[i] \in Live
  /\ IsInjective(docs)
  /\ Len(docs) <= Len(doc) /\ Len(doc) <= MaxDocs
  /\ active <= Len(docs) /\ (docs # <<>> => active < Len(docs))

\* Recorded: a document has a recorder until it is closed; the journals being
\* written are of numbers already given out, no two of them the same file, and
\* each holds as many operations as its recorder counted.
Recorded ==
  /\ nextSegment > Len(doc)
  /\ \A d \in Live : doc[d].closed <=> doc[d].journal = None
  /\ \A d \in Recording : /\ doc[d].journal[2] < nextSegment
                          /\ doc[d].journal \in DOMAIN journal
                          /\ Len(journal[doc[d].journal]) = doc[d].tally
  /\ \A d, e \in Recording : d # e => doc[d].journal # doc[e].journal

\* Counted: nothing recorded is lost from the total or counted twice.
Counted ==
  closed + LiveTally = drawn /\ drawn <= changes /\ changes <= MaxChanges

\* Pointed: an object of a script points at a document that was made; a session
\* hands out none.
Pointed ==
  /\ client \in {"agent", "com"} /\ wrapper \in [Wrapper -> Object \cup {None}]
  /\ \A w \in Pointing : wrapper[w].doc \in 1..Len(doc)
  /\ client = "agent" => Held = {}

Kept == Typed /\ Listed /\ Recorded /\ Counted

IInv == Kept /\ Pointed /\ SavedMeansUnchanged

-----------------------------------------------------------------------------
(* What is counted.                                                         *)

Documents == Seq(Document \cup {Gone})

\* The sum over the recorders of the documents q.
Total(q) == SumOf([d \in DOMAIN q |-> TallyOf(q[d])])

\* A document that was destroyed is none that is there.
LEMMA GoneIsNotThere ==
  ASSUME NEW x \in Document \cup {Gone}
  PROVE  /\ x.live => x \in Document
         /\ ~x.live => x = Gone
         /\ x \in Document => x.live
         /\ ~Gone.live
<1>1. ~Gone.live
  BY DEF Gone
<1>2. ASSUME x \in Document PROVE x.live
  <2>1. x.live = TRUE
    BY <1>2 DEF Document
  <2> QED BY <2>1
<1> QED BY <1>1, <1>2

\* Tallies are numbers.
LEMMA TallyIsNumber ==
  ASSUME NEW x \in Document \cup {Gone}
  PROVE  TallyOf(x) \in Nat
<1>1. CASE Records(x)
  <2>1. x \in Document
    BY <1>1, GoneIsNotThere DEF Records
  <2> QED BY <1>1, <2>1 DEF TallyOf, Document
<1>2. CASE ~Records(x)
  BY <1>2 DEF TallyOf
<1> QED BY <1>1, <1>2

\* The tallies of documents are as many numbers.
LEMMA Tallies ==
  ASSUME NEW q \in Documents, NEW t, t = [d \in DOMAIN q |-> TallyOf(q[d])]
  PROVE  t \in Seq(Nat) /\ Len(t) = Len(q) /\ \A d \in 1..Len(q) : t[d] = TallyOf(q[d])
<1>1. PICK n \in Nat : n = Len(q) /\ DOMAIN q = 1..n
  BY LenProperties DEF Documents
<1>2. \A d \in 1..n : q[d] \in Document \cup {Gone}
  BY <1>1, ElementOfSeq DEF Documents
<1>3. \A d \in 1..n : t[d] = TallyOf(q[d]) /\ t[d] \in Nat
  BY <1>1, <1>2, TallyIsNumber
<1>4. t = [d \in 1..n |-> t[d]]
  BY <1>1
<1>5. t \in [1..n -> Nat]
  BY <1>3, <1>4
<1>6. t \in Seq(Nat)
  BY <1>5, SeqDef
<1>7. Len(t) = n
  BY <1>1, <1>5, <1>6, LenProperties
<1> QED BY <1>1, <1>3, <1>6, <1>7

\* Their sum is a number.
LEMMA TotalIsNumber ==
  ASSUME NEW q \in Documents
  PROVE  Total(q) \in Nat
<1>1. PICK t : t = [d \in DOMAIN q |-> TallyOf(q[d])]
  OBVIOUS
<1>2. t \in Seq(Nat) /\ Len(t) \in Nat
  BY <1>1, Tallies, LenProperties
<1>3. SumOf(t) \in Nat
  BY <1>2, SumsAre
<1> QED BY <1>1, <1>3 DEF Total

\* Documents of which all but one count the same.
LEMMA TotalsDiffer ==
  ASSUME NEW q \in Documents, NEW r \in Documents, Len(r) = Len(q), NEW d \in 1..Len(q),
         \A e \in 1..Len(q) : e # d => r[e] = q[e]
  PROVE  Total(r) + TallyOf(q[d]) = Total(q) + TallyOf(r[d])
<1>1. PICK t : t = [e \in DOMAIN q |-> TallyOf(q[e])]
  OBVIOUS
<1>2. PICK u : u = [e \in DOMAIN r |-> TallyOf(r[e])]
  OBVIOUS
<1>3. t \in Seq(Nat) /\ Len(t) = Len(q) /\ \A e \in 1..Len(q) : t[e] = TallyOf(q[e])
  BY <1>1, Tallies
<1>4. u \in Seq(Nat) /\ Len(u) = Len(r) /\ \A e \in 1..Len(r) : u[e] = TallyOf(r[e])
  BY <1>2, Tallies
<1>5. \A e \in 1..Len(t) : e # d => u[e] = t[e]
  BY <1>3, <1>4
<1>6. SumOf(u) + t[d] = SumOf(t) + u[d]
  BY <1>3, <1>4, <1>5, OneCountsElse
<1>7. t[d] = TallyOf(q[d]) /\ u[d] = TallyOf(r[d])
  BY <1>3, <1>4
<1>8. SumOf(u) = Total(r) /\ SumOf(t) = Total(q)
  BY <1>1, <1>2 DEF Total
<1> QED BY <1>6, <1>7, <1>8

\* Document d of q has become y.
Replaced(q, d, y, r) == r = [q EXCEPT ![d] = y]

\* When one document changes the total changes by what its recorder counts.
LEMMA TotalOfOne ==
  ASSUME NEW q \in Documents, NEW d \in 1..Len(q), NEW y \in Document \cup {Gone},
         NEW r, Replaced(q, d, y, r)
  PROVE  /\ r \in Documents /\ Len(r) = Len(q) /\ r[d] = y
         /\ \A e \in 1..Len(q) : e # d => r[e] = q[e]
         /\ Total(r) + TallyOf(q[d]) = Total(q) + TallyOf(y)
<1>1. /\ r \in Documents /\ Len(r) = Len(q)
      /\ \A e \in 1..Len(q) : r[e] = IF e = d THEN y ELSE q[e]
  BY ExceptSeq DEF Documents, Replaced
<1>2. r[d] = y /\ \A e \in 1..Len(q) : e # d => r[e] = q[e]
  BY <1>1
<1>3. Total(r) + TallyOf(q[d]) = Total(q) + TallyOf(r[d])
  BY <1>1, <1>2, TotalsDiffer
<1> QED BY <1>1, <1>2, <1>3

\* y comes after the documents q.
Added(q, y, r) == r = Append(q, y)

\* A new document has counted nothing yet.
LEMMA TotalOfMore ==
  ASSUME NEW q \in Documents, NEW y \in Document, TallyOf(y) = 0, NEW r, Added(q, y, r)
  PROVE  /\ r \in Documents /\ Len(r) = Len(q) + 1 /\ r[Len(q) + 1] = y
         /\ \A e \in 1..Len(q) : r[e] = q[e]
         /\ Total(r) = Total(q)
<1>1. /\ r \in Documents /\ Len(r) = Len(q) + 1 /\ r[Len(q) + 1] = y
      /\ \A e \in 1..Len(q) : r[e] = q[e]
  BY AppendProperties DEF Documents, Added
<1>2. PICK t : t = [e \in DOMAIN q |-> TallyOf(q[e])]
  OBVIOUS
<1>3. PICK u : u = [e \in DOMAIN r |-> TallyOf(r[e])]
  OBVIOUS
<1>4. /\ t \in Seq(Nat) /\ Len(t) = Len(q) /\ \A e \in 1..Len(q) : t[e] = TallyOf(q[e])
      /\ u \in Seq(Nat) /\ Len(u) = Len(r) /\ \A e \in 1..Len(r) : u[e] = TallyOf(r[e])
  <2>1. t \in Seq(Nat) /\ Len(t) = Len(q) /\ \A e \in 1..Len(q) : t[e] = TallyOf(q[e])
    BY <1>2, Tallies
  <2>2. u \in Seq(Nat) /\ Len(u) = Len(r) /\ \A e \in 1..Len(r) : u[e] = TallyOf(r[e])
    BY <1>1, <1>3, Tallies
  <2> QED BY <2>1, <2>2
<1>5. Len(q) \in Nat
  BY LenProperties DEF Documents
<1>6. \A e \in 1..Len(q) : e \in 1..Len(r)
  BY <1>1, <1>5
<1>7. \A e \in 1..Len(t) : u[e] = t[e]
  BY <1>1, <1>4, <1>6
<1>8. Len(r) \in 1..Len(r)
  BY <1>1, <1>5
<1>9. u[Len(u)] = 0 /\ Len(u) = Len(t) + 1
  BY <1>1, <1>4, <1>8
<1>10. SumOf(u) = SumOf(t)
  BY <1>4, <1>7, <1>9, NothingMore
<1>11. SumOf(u) = Total(r) /\ SumOf(t) = Total(q)
  BY <1>2, <1>3 DEF Total
<1> QED BY <1>1, <1>10, <1>11

\* When all documents are destroyed there is nothing to count.
LEMMA TotalOfNone ==
  ASSUME NEW q \in Documents, \A d \in 1..Len(q) : q[d] = Gone
  PROVE  Total(q) = 0
<1>1. PICK t : t = [d \in DOMAIN q |-> TallyOf(q[d])]
  OBVIOUS
<1>2. t \in Seq(Nat) /\ Len(t) = Len(q) /\ \A d \in 1..Len(q) : t[d] = TallyOf(q[d])
  BY <1>1, Tallies
<1>3. TallyOf(Gone) = 0
  BY DEF TallyOf, Records, Gone
<1>4. \A d \in 1..Len(t) : t[d] = 0
  BY <1>2, <1>3
<1>5. SumOf(t) = 0
  BY <1>2, <1>4, NothingCounted
<1> QED BY <1>1, <1>5 DEF Total

\* LiveTally is the sum over the recorders of all documents.
LEMMA LiveTallyIs == LiveTally = Total(doc)
BY DEF LiveTally, Total

-----------------------------------------------------------------------------
(* What the operations make of a document.                                  *)

\* A list that loses its last element.
LEMMA LastGone ==
  ASSUME NEW q \in Seq(Nat), q # <<>>
  PROVE  Front(q) \in Seq(Nat) /\ Last(q) \in Nat
<1>1. PICK l \in Nat : l = Len(q)
  BY LenProperties
<1>2. l # 0
  BY <1>1, EmptySeq
<1>3. PICK n \in Int : n = l - 1
  OBVIOUS
<1>4. \A i \in 1..n : q[i] \in Nat
  <2>1. \A i \in 1..n : i \in 1..l
    BY <1>3
  <2> QED BY <1>1, <2>1, ElementOfSeq
<1>5. SubSeq(q, 1, n) \in Seq(Nat)
  BY <1>4, SubSeqProperties
<1>6. l \in 1..l
  BY <1>2
<1>7. q[l] \in Nat
  BY <1>1, <1>6, ElementOfSeq
<1> QED BY <1>1, <1>3, <1>5, <1>7 DEF Front, Last

\* y is x to the recorder.
SameBook(x, y) ==
  /\ y \in Document
  /\ y.closed <=> x.closed
  /\ y.journal = x.journal /\ y.tally = x.tally

\* A change that is not recorded.
LEMMA Changed ==
  ASSUME NEW x \in Document, NEW h \in SUBSET Nat, NEW y, y = [x EXCEPT !.held = h]
  PROVE  SameBook(x, y)
BY DEF Document, SameBook

\* The flag saved is taken away.
LEMMA Unsaved ==
  ASSUME NEW x \in Document, NEW y, y = [x EXCEPT !.saved = FALSE]
  PROVE  SameBook(x, y) /\ ~y.saved
<1>1. y \in Document /\ y.saved = FALSE /\ y.journal = x.journal /\ y.tally = x.tally /\ y.closed = x.closed
  BY DEF Document
<1> QED BY <1>1 DEF SameBook

\* A change that is not recorded takes it away.
LEMMA ChangedUnsaved ==
  ASSUME NEW x \in Document, NEW h \in SUBSET Nat,
         NEW y, y = [x EXCEPT !.held = h, !.saved = FALSE]
  PROVE  SameBook(x, y) /\ ~y.saved
<1>1. y \in Document /\ y.saved = FALSE /\ y.journal = x.journal /\ y.tally = x.tally /\ y.closed = x.closed
  BY DEF Document
<1> QED BY <1>1 DEF SameBook

\* Undo and redo move a change from one stack to the other.
LEMMA Moved ==
  ASSUME NEW x \in Document, NEW h \in SUBSET Nat, NEW u \in Seq(Nat), NEW r \in Seq(Nat),
         NEW y, y = [x EXCEPT !.held = h, !.undo = u, !.redo = r]
  PROVE  SameBook(x, y)
<1>1. y \in Document /\ y.journal = x.journal /\ y.tally = x.tally /\ y.closed = x.closed
  BY DEF Document
<1> QED BY <1>1 DEF SameBook

\* A change that is recorded.
PaintedAs(x, h, u, t, y) ==
  y = [x EXCEPT !.held = h, !.undo = u, !.redo = <<>>, !.saved = FALSE, !.tally = t]

\* The recorder counts it, and the flag is taken away.
LEMMA Painted ==
  ASSUME NEW x \in Document, NEW h \in SUBSET Nat, NEW u \in Seq(Nat), NEW t \in Nat,
         NEW y, PaintedAs(x, h, u, t, y)
  PROVE  /\ y \in Document /\ ~y.saved
         /\ y.closed <=> x.closed
         /\ y.journal = x.journal /\ y.tally = t
<1>1. y \in Document /\ y.saved = FALSE /\ y.journal = x.journal /\ y.tally = t /\ y.closed = x.closed
  BY EmptySeq DEF Document, PaintedAs
<1> QED BY <1>1

\* A document that is saved.
LEMMA SavedAs ==
  ASSUME NEW x \in Document, NEW p \in Path
  PROVE  SameBook(x, Saved(x, p)) /\ Saved(x, p).held = Saved(x, p).kept
<1>1. PICK y : y = Saved(x, p)
  OBVIOUS
<1>2. y \in Document /\ y.journal = x.journal /\ y.tally = x.tally /\ y.closed = x.closed
  BY <1>1 DEF Document, Saved
<1>3. y.held = y.kept
  BY <1>1 DEF Document, Saved
<1> QED BY <1>1, <1>2, <1>3 DEF SameBook

\* A document that is closed in place.
LEMMA EndedIs ==
  ASSUME NEW x \in Document, NEW save \in BOOLEAN
  PROVE  /\ Ended(x, save) \in Document
         /\ Ended(x, save).closed
         /\ Ended(x, save).journal = None
<1>1. PICK y : y = Ended(x, save)
  OBVIOUS
<1>2. PICK s \in BOOLEAN : s = (x.saved \/ save)
  OBVIOUS
<1>3. PICK k \in SUBSET Nat : k = IF save /\ ~x.saved THEN x.held ELSE x.kept
  BY DEF Document
<1>4. y = [x EXCEPT !.closed = TRUE, !.undo = <<>>, !.redo = <<>>, !.journal = None, !.kept = k, !.saved = s]
  BY <1>1, <1>2, <1>3, Zenon DEF Ended
<1>5. y \in Document /\ y.closed = TRUE /\ y.journal = None
  BY <1>4, EmptySeq DEF Document
<1> QED BY <1>1, <1>5

\* A document that is made.
LEMMA MadeIs ==
  ASSUME NEW h \in SUBSET Nat, NEW p \in Path \cup {None}, NEW n \in JournalName
  PROVE  /\ Made(h, p, n) \in Document
         /\ ~Made(h, p, n).closed /\ Made(h, p, n).journal = n
         /\ Made(h, p, n).tally = 0 /\ Made(h, p, n).held = Made(h, p, n).kept
<1>1. PICK y : y = Made(h, p, n)
  OBVIOUS
<1>2. PICK s \in BOOLEAN : s = (p # None)
  OBVIOUS
<1>3. y = [live |-> TRUE, closed |-> FALSE, held |-> h, undo |-> <<>>, redo |-> <<>>,
           path |-> p, saved |-> s, journal |-> n, tally |-> 0, kept |-> h]
  BY <1>1, <1>2, Zenon DEF Made
<1>4. y \in Document /\ y.closed = FALSE /\ y.journal = n /\ y.tally = 0 /\ y.held = y.kept
  BY <1>3, EmptySeq DEF Document
<1> QED BY <1>1, <1>4

-----------------------------------------------------------------------------
(* One document changes, and the others stay.                               *)

\* The documents that are there, and those of them being recorded.
LEMMA ThoseThere ==
  ASSUME Typed
  PROVE  /\ Len(doc) \in Nat /\ DOMAIN doc = 1..Len(doc) /\ doc \in Documents
         /\ \A d \in 1..Len(doc) : doc[d] \in Document \cup {Gone}
         /\ \A d : d \in Live <=> d \in 1..Len(doc) /\ doc[d] \in Document
         /\ \A d : d \in Recording <=> d \in Live /\ doc[d].journal # None
<1>1. Len(doc) \in Nat /\ DOMAIN doc = 1..Len(doc) /\ doc \in Documents
  BY LenProperties DEF Typed, Documents
<1>2. \A d \in 1..Len(doc) : doc[d] \in Document \cup {Gone}
  BY ElementOfSeq DEF Typed
<1>3. \A d : d \in Live <=> d \in 1..Len(doc) /\ doc[d] \in Document
  BY <1>1, <1>2, GoneIsNotThere DEF Live
<1>4. \A d : d \in Recording <=> d \in Live /\ doc[d].journal # None
  BY DEF Recording, Records, Live
<1> QED BY <1>1, <1>2, <1>3, <1>4

\* One document becomes y.
Becomes(d, y) == d \in Live /\ y \in Document /\ doc' = [doc EXCEPT ![d] = y]

\* Nothing comes or goes by that.
LEMMA OneBecomes ==
  ASSUME Typed, NEW d, NEW y, Becomes(d, y)
  PROVE  /\ d \in 1..Len(doc) /\ doc[d] \in Document
         /\ doc' \in Documents /\ Len(doc') = Len(doc) /\ Len(doc') \in Nat /\ doc'[d] = y
         /\ \A e \in 1..Len(doc) : e # d => doc'[e] = doc[e]
         /\ Live' = Live
         /\ Total(doc') + TallyOf(doc[d]) = Total(doc) + TallyOf(y)
         /\ Total(doc) \in Nat /\ Total(doc') \in Nat
<1>1. d \in 1..Len(doc) /\ doc[d] \in Document /\ doc \in Documents /\ Len(doc) \in Nat
      /\ y \in Document
  BY ThoseThere DEF Becomes
<1>2. /\ doc' \in Documents /\ Len(doc') = Len(doc) /\ doc'[d] = y
      /\ \A e \in 1..Len(doc) : e # d => doc'[e] = doc[e]
      /\ Total(doc') + TallyOf(doc[d]) = Total(doc) + TallyOf(y)
  <2>1. PICK r : r = doc'
    OBVIOUS
  <2>2. Replaced(doc, d, y, r)
    BY <2>1 DEF Becomes, Replaced
  <2>3. y \in Document \cup {Gone}
    BY <1>1
  <2>4. /\ r \in Documents /\ Len(r) = Len(doc) /\ r[d] = y
        /\ \A e \in 1..Len(doc) : e # d => r[e] = doc[e]
        /\ Total(r) + TallyOf(doc[d]) = Total(doc) + TallyOf(y)
    BY <1>1, <2>2, <2>3, TotalOfOne
  <2> QED BY <2>1, <2>4
<1>3. Total(doc) \in Nat /\ Total(doc') \in Nat
  BY <1>1, <1>2, TotalIsNumber
<1>4. DOMAIN doc = 1..Len(doc) /\ DOMAIN doc' = 1..Len(doc)
  BY <1>1, <1>2, LenProperties DEF Documents
<1>5. doc[d].live /\ y.live
  BY <1>1, GoneIsNotThere
<1>6. Live' = Live
  BY <1>2, <1>4, <1>5 DEF Live
<1> QED BY <1>1, <1>2, <1>3, <1>6

\* What is not the business of the recorder, of the list and of the files.
LEMMA Untold ==
  ASSUME Kept, NEW d, NEW y, Becomes(d, y), SameBook(doc[d], y),
         UNCHANGED <<docs, active, journal, nextSegment, closed, drawn>>,
         file' \in [Path -> (SUBSET Nat) \cup {None, Cut}],
         changes' \in Nat, changes <= changes', changes' <= MaxChanges
  PROVE  Kept'
<1> USE DEF Kept
<1>1. /\ d \in 1..Len(doc) /\ doc[d] \in Document /\ y \in Document
      /\ doc' \in Documents /\ Len(doc') = Len(doc) /\ doc'[d] = y
      /\ \A e \in 1..Len(doc) : e # d => doc'[e] = doc[e]
      /\ Live' = Live
      /\ Total(doc') + TallyOf(doc[d]) = Total(doc) + TallyOf(y)
      /\ Total(doc) \in Nat /\ Total(doc') \in Nat
  BY OneBecomes DEF Becomes
<1>2. Typed'
  BY <1>1 DEF Typed, Documents
<1>3. Listed'
  BY <1>1 DEF Listed
<1>4. /\ \A e : e \in Recording <=> e \in Live /\ doc[e].journal # None
      /\ \A e : e \in Recording' <=> e \in Live' /\ doc'[e].journal # None
      /\ \A e \in Live : e \in 1..Len(doc)
  <2>1. /\ \A e : e \in Recording <=> e \in Live /\ doc[e].journal # None
        /\ \A e \in Live : e \in 1..Len(doc)
    BY ThoseThere
  <2>2. \A e : e \in Recording' <=> e \in Live' /\ doc'[e].journal # None
    BY DEF Recording, Records, Live
  <2> QED BY <2>1, <2>2
<1>5. \A e \in Live : /\ doc'[e].journal = doc[e].journal /\ doc'[e].tally = doc[e].tally
                      /\ doc'[e].closed <=> doc[e].closed
  <2> TAKE e \in Live
  <2>1. CASE e = d
    BY <1>1, <2>1 DEF SameBook
  <2>2. CASE e # d
    BY <1>1, <1>4, <2>2
  <2> QED BY <2>1, <2>2
<1>6. Recording' = Recording
  <2>1. \A e : e \in Recording' <=> e \in Recording
    <3> TAKE e
    <3>1. e \in Recording' <=> e \in Live /\ doc'[e].journal # None
      BY <1>1, <1>4
    <3>2. e \in Live => doc'[e].journal = doc[e].journal
      BY <1>5
    <3> QED BY <1>4, <3>1, <3>2
  <2> QED BY <2>1
<1>7. Recorded'
  <2>1. \A e \in Live' : doc'[e].closed <=> doc'[e].journal = None
    BY <1>1, <1>5 DEF Recorded
  <2>2. \A e \in Recording' : /\ doc'[e].journal[2] < nextSegment'
                              /\ doc'[e].journal \in DOMAIN journal'
                              /\ Len(journal'[doc'[e].journal]) = doc'[e].tally
    BY <1>4, <1>5, <1>6 DEF Recorded
  <2>3. \A e, f \in Recording' : e # f => doc'[e].journal # doc'[f].journal
    BY <1>4, <1>5, <1>6 DEF Recorded
  <2>4. nextSegment' > Len(doc')
    BY <1>1 DEF Recorded
  <2> QED BY <2>1, <2>2, <2>3, <2>4 DEF Recorded
<1>8. Counted'
  <2>1. TallyOf(y) = TallyOf(doc[d]) /\ TallyOf(y) \in Nat
    <3>1. y.live /\ doc[d].live
      BY <1>1, GoneIsNotThere
    <3>2. TallyOf(y) = TallyOf(doc[d])
      BY <3>1 DEF SameBook, TallyOf, Records
    <3> QED BY <1>1, <3>2, TallyIsNumber
  <2>2. Total(doc') = Total(doc)
    BY <1>1, <2>1
  <2>3. LiveTally' = LiveTally
    BY <2>2 DEF LiveTally, Total
  <2>4. changes \in Nat /\ drawn \in Nat
    BY DEF Typed
  <2> QED BY <2>3, <2>4 DEF Counted
<1> QED BY <1>2, <1>3, <1>7, <1>8

\* What a document counts as it goes on being recorded.
LEMMA TallyWhile ==
  ASSUME NEW x \in Document, x.journal # None
  PROVE  TallyOf(x) = x.tally
<1>1. x.live
  BY GoneIsNotThere
<1> QED BY <1>1 DEF TallyOf, Records

\* A stroke that is recorded.
LEMMA PaintKeeps ==
  ASSUME Kept, NEW d \in Live, Paint(d)
  PROVE  Kept' /\ Becomes(d, doc'[d]) /\ ~doc'[d].saved
<1> USE DEF Kept
<1>0. PICK x : x = doc[d]
  OBVIOUS
<1>1. x \in Document /\ ~x.closed /\ x.journal # None /\ d \in Recording
  BY <1>0, ThoseThere DEF Paint, Recorded
<1>2. PICK c : c = changes + 1
  OBVIOUS
<1>3. changes \in Nat /\ drawn \in Nat /\ closed \in Nat /\ nextSegment \in Nat /\ c \in Nat
  BY <1>2 DEF Typed
<1>4. PICK h, u, t : h = x.held \cup {c} /\ u = Append(x.undo, c) /\ t = x.tally + 1
  OBVIOUS
<1>5. h \in SUBSET Nat /\ u \in Seq(Nat) /\ t \in Nat /\ x.tally \in Nat
  <2>1. x.held \in SUBSET Nat /\ x.undo \in Seq(Nat) /\ x.tally \in Nat
    BY <1>1 DEF Document
  <2> QED BY <1>3, <1>4, <2>1, AppendProperties
<1>6. PICK y : PaintedAs(x, h, u, t, y)
  BY DEF PaintedAs
<1>7. /\ y \in Document /\ ~y.saved
      /\ y.closed <=> x.closed
      /\ y.journal = x.journal /\ y.tally = t
  BY <1>1, <1>5, <1>6, Painted
<1>8. /\ doc' = [doc EXCEPT ![d] = y]
      /\ changes + 1 <= MaxChanges /\ changes' = c /\ drawn' = drawn + 1
      /\ journal' = [journal EXCEPT ![x.journal] = Append(@, c)]
      /\ UNCHANGED <<docs, active, file, nextSegment, closed, restarts>>
  BY <1>0, <1>2, <1>4, <1>6 DEF Paint, Change, PaintedAs
<1>9. Becomes(d, y)
  BY <1>7, <1>8 DEF Becomes
<1>10. /\ d \in 1..Len(doc)
       /\ doc' \in Documents /\ Len(doc') = Len(doc) /\ doc'[d] = y
       /\ \A e \in 1..Len(doc) : e # d => doc'[e] = doc[e]
       /\ Live' = Live
       /\ Total(doc') + TallyOf(x) = Total(doc) + TallyOf(y)
       /\ Total(doc) \in Nat /\ Total(doc') \in Nat
  BY <1>0, <1>9, OneBecomes
<1>11. PICK n : n = x.journal
  OBVIOUS
<1>12. n \in DOMAIN journal /\ journal[n] \in Seq(Nat) /\ Len(journal[n]) = x.tally
  BY <1>0, <1>1, <1>11 DEF Recorded, Typed
<1>13. /\ DOMAIN journal' = DOMAIN journal /\ journal'[n] \in Seq(Nat) /\ Len(journal'[n]) = t
       /\ \A m \in DOMAIN journal : m # n => journal'[m] = journal[m]
  <2>1. journal'[n] = Append(journal[n], c) /\ DOMAIN journal' = DOMAIN journal
        /\ \A m \in DOMAIN journal : m # n => journal'[m] = journal[m]
    BY <1>8, <1>11, <1>12
  <2>2. Append(journal[n], c) \in Seq(Nat) /\ Len(Append(journal[n], c)) = Len(journal[n]) + 1
    BY <1>3, <1>12, AppendProperties
  <2> QED BY <1>4, <1>12, <2>1, <2>2
<1>14. Typed'
  <2>1. \A m \in DOMAIN journal' : journal'[m] \in Seq(Nat)
    BY <1>13 DEF Typed
  <2>2. changes' \in Nat /\ drawn' \in Nat
    BY <1>3, <1>8
  <2> QED BY <1>8, <1>10, <1>13, <2>1, <2>2 DEF Typed, Documents
<1>15. Listed'
  BY <1>8, <1>10 DEF Listed
<1>16. /\ \A e : e \in Recording <=> e \in Live /\ doc[e].journal # None
       /\ \A e : e \in Recording' <=> e \in Live' /\ doc'[e].journal # None
       /\ \A e \in Live : e \in 1..Len(doc)
  <2>1. /\ \A e : e \in Recording <=> e \in Live /\ doc[e].journal # None
        /\ \A e \in Live : e \in 1..Len(doc)
    BY ThoseThere
  <2>2. \A e : e \in Recording' <=> e \in Live' /\ doc'[e].journal # None
    BY DEF Recording, Records, Live
  <2> QED BY <2>1, <2>2
<1>17. \A e \in Live : /\ doc'[e].journal = doc[e].journal
                       /\ doc'[e].closed <=> doc[e].closed
  <2> TAKE e \in Live
  <2>1. CASE e = d
    BY <1>0, <1>7, <1>10, <2>1
  <2>2. CASE e # d
    BY <1>10, <1>16, <2>2
  <2> QED BY <2>1, <2>2
<1>18. Recording' = Recording
  BY <1>10, <1>16, <1>17
<1>19. Recorded'
  <2>1. \A e \in Live' : doc'[e].closed <=> doc'[e].journal = None
    BY <1>10, <1>17 DEF Recorded
  <2>2. ASSUME NEW e \in Recording'
        PROVE  /\ doc'[e].journal[2] < nextSegment'
               /\ doc'[e].journal \in DOMAIN journal'
               /\ Len(journal'[doc'[e].journal]) = doc'[e].tally
    <3>1. e \in Recording /\ e \in Live /\ e \in 1..Len(doc) /\ doc'[e].journal = doc[e].journal
      BY <1>16, <1>17, <1>18
    <3>2. /\ doc[e].journal[2] < nextSegment /\ doc[e].journal \in DOMAIN journal
          /\ Len(journal[doc[e].journal]) = doc[e].tally
      BY <3>1 DEF Recorded
    <3>3. CASE e = d
      BY <1>0, <1>7, <1>8, <1>10, <1>11, <1>13, <3>1, <3>2, <3>3
    <3>4. CASE e # d
      <4>1. doc[e].journal # n
        BY <1>0, <1>1, <1>11, <3>1, <3>4 DEF Recorded
      <4> QED BY <1>8, <1>10, <1>13, <3>1, <3>2, <3>4, <4>1
    <3> QED BY <3>3, <3>4
  <2>3. \A e, f \in Recording' : e # f => doc'[e].journal # doc'[f].journal
    BY <1>16, <1>17, <1>18 DEF Recorded
  <2>4. nextSegment' > Len(doc')
    BY <1>8, <1>10 DEF Recorded
  <2> QED BY <2>1, <2>2, <2>3, <2>4 DEF Recorded
<1>20. Counted'
  <2>1. TallyOf(x) = x.tally /\ TallyOf(y) = x.tally + 1
    BY <1>1, <1>4, <1>7, TallyWhile
  <2>2. Total(doc') = Total(doc) + 1
    BY <1>5, <1>10, <2>1
  <2>3. LiveTally' = LiveTally + 1 /\ LiveTally \in Nat
    BY <1>10, <2>2 DEF LiveTally, Total
  <2> QED BY <1>2, <1>3, <1>8, <2>3 DEF Counted
<1> QED BY <1>7, <1>9, <1>10, <1>14, <1>15, <1>19, <1>20

\* What a document may hold after another change.
LEMMA HoldsMore ==
  ASSUME NEW x \in Document, NEW c \in Nat
  PROVE  /\ x.held \cup {c} \in SUBSET Nat /\ x.held \ {c} \in SUBSET Nat
         /\ x.undo \in Seq(Nat) /\ x.redo \in Seq(Nat)
<1>1. x.held \in SUBSET Nat /\ x.undo \in Seq(Nat) /\ x.redo \in Seq(Nat)
  BY DEF Document
<1> QED BY <1>1

\* What the recorder is not told of a document of the list.
UntoldChange(d, y, n) ==
  /\ SameBook(doc[d], y) /\ n \in Nat
  /\ Change(d, y, n) /\ UNCHANGED <<journal, drawn>>

\* ... keeps everything.
LEMMA UntoldKeeps ==
  ASSUME Kept, NEW d \in Live, NEW y, NEW n, UntoldChange(d, y, n)
  PROVE  Kept' /\ Becomes(d, y) /\ doc'[d] = y
<1> USE DEF Kept
<1>1. /\ doc' = [doc EXCEPT ![d] = y] /\ SameBook(doc[d], y) /\ n \in Nat
      /\ changes + n <= MaxChanges /\ changes' = changes + n
      /\ UNCHANGED <<docs, active, file, nextSegment, closed, journal, drawn>>
  BY DEF UntoldChange, Change
<1>2. Becomes(d, y)
  BY <1>1 DEF Becomes, SameBook
<1>3. doc'[d] = y
  BY <1>2, OneBecomes
<1>4. changes \in Nat /\ file \in [Path -> (SUBSET Nat) \cup {None, Cut}]
  BY DEF Typed
<1>5. changes' \in Nat /\ changes <= changes' /\ changes' <= MaxChanges
  BY <1>1, <1>4
<1>6. Kept'
  BY <1>1, <1>2, <1>4, <1>5, Untold
<1> QED BY <1>2, <1>3, <1>6

\* A layer operation of a session.
LEMMA LayerOpKeeps ==
  ASSUME Kept, NEW d \in Live, LayerOp(d)
  PROVE  Kept' /\ Becomes(d, doc'[d]) /\ ~doc'[d].saved
<1>1. PICK x : x = doc[d]
  OBVIOUS
<1>2. x \in Document /\ changes + 1 \in Nat
  BY <1>1, ThoseThere DEF Kept, Typed
<1>3. PICK h \in SUBSET Nat : h = x.held \cup {changes + 1}
  BY <1>2, HoldsMore
<1>4. PICK y : y = [x EXCEPT !.held = h, !.saved = FALSE]
  OBVIOUS
<1>5. SameBook(x, y) /\ ~y.saved
  BY <1>2, <1>4, ChangedUnsaved
<1>6. UntoldChange(d, y, 1)
  BY <1>1, <1>3, <1>4, <1>5 DEF LayerOp, UntoldChange
<1> QED BY <1>5, <1>6, UntoldKeeps

\* The change of a tree that COM makes behind the document's back.
LEMMA TreeChangeKeeps ==
  ASSUME Kept, NEW d \in Live, TreeChange(d)
  PROVE  Kept' /\ Becomes(d, doc'[d])
<1>1. PICK x : x = doc[d]
  OBVIOUS
<1>2. x \in Document /\ changes + 1 \in Nat
  BY <1>1, ThoseThere DEF Kept, Typed
<1>3. PICK h \in SUBSET Nat : h = x.held \cup {changes + 1}
  BY <1>2, HoldsMore
<1>4. PICK y : y = [x EXCEPT !.held = h]
  OBVIOUS
<1>5. SameBook(x, y)
  BY <1>2, <1>4, Changed
<1>6. UntoldChange(d, y, 1)
  BY <1>1, <1>3, <1>4, <1>5 DEF TreeChange, UntoldChange
<1> QED BY <1>6, UntoldKeeps

\* Pixels that are imported.
LEMMA ImportPixelsKeeps ==
  ASSUME Kept, NEW d \in Live, ImportPixels(d)
  PROVE  Kept' /\ Becomes(d, doc'[d])
<1>1. PICK x : x = doc[d]
  OBVIOUS
<1>2. x \in Document /\ changes + 1 \in Nat /\ changes + 2 \in Nat
  BY <1>1, ThoseThere DEF Kept, Typed
<1>3. PICK h \in SUBSET Nat : h = x.held \cup {changes + 1, changes + 2}
  <2>1. x.held \in SUBSET Nat
    BY <1>2, HoldsMore
  <2> QED BY <1>2, <2>1
<1>4. PICK u \in Seq(Nat) : u = Append(x.undo, changes + 2)
  <2>1. x.undo \in Seq(Nat)
    BY <1>2, HoldsMore
  <2> QED BY <1>2, <2>1, AppendProperties
<1>5. PICK z : z = [x EXCEPT !.held = h, !.undo = u, !.redo = <<>>]
  OBVIOUS
<1>6. SameBook(x, z)
  BY <1>2, <1>5, EmptySeq, Moved
<1>7. PICK y : y = [z EXCEPT !.saved = FALSE]
  OBVIOUS
<1>8. SameBook(z, y)
  BY <1>6, <1>7, Unsaved DEF SameBook
<1>9. y = [x EXCEPT !.held = h, !.undo = u, !.redo = <<>>, !.saved = FALSE]
  BY <1>5, <1>7
<1>10. UntoldChange(d, y, 2)
  BY <1>1, <1>3, <1>4, <1>6, <1>8, <1>9 DEF ImportPixels, UntoldChange, SameBook
<1> QED BY <1>10, UntoldKeeps

\* Undo.
LEMMA UndoKeeps ==
  ASSUME Kept, NEW d \in Live, Undo(d)
  PROVE  Kept' /\ Becomes(d, doc'[d]) /\ ~doc'[d].saved
<1>1. PICK x : x = doc[d]
  OBVIOUS
<1>2. x \in Document /\ x.undo \in Seq(Nat) /\ x.redo \in Seq(Nat) /\ x.undo # <<>>
  <2>1. x \in Document /\ x.undo # <<>>
    BY <1>1, ThoseThere DEF Kept, Undo
  <2> QED BY <2>1 DEF Document
<1>3. PICK c \in Nat : c = Last(x.undo)
  BY <1>2, LastGone
<1>4. PICK h \in SUBSET Nat : h = x.held \ {c}
  BY <1>2, HoldsMore
<1>5. PICK u \in Seq(Nat) : u = Front(x.undo)
  BY <1>2, LastGone
<1>6. PICK r \in Seq(Nat) : r = Append(x.redo, c)
  BY <1>2, AppendProperties
<1>7. PICK z : z = [x EXCEPT !.held = h, !.undo = u, !.redo = r]
  OBVIOUS
<1>8. SameBook(x, z)
  BY <1>2, <1>7, Moved
<1>9. PICK y : y = [z EXCEPT !.saved = FALSE]
  OBVIOUS
<1>10. SameBook(z, y) /\ ~y.saved
  BY <1>8, <1>9, Unsaved DEF SameBook
<1>11. UntoldChange(d, y, 0)
  <2>1. Change(d, y, 0) /\ UNCHANGED <<journal, drawn>>
    BY <1>1, <1>3, <1>4, <1>5, <1>6, <1>7, <1>9 DEF Undo, UnsavedBy
  <2> QED BY <1>1, <1>8, <1>10, <2>1 DEF UntoldChange, SameBook
<1> QED BY <1>10, <1>11, UntoldKeeps

\* Redo.
LEMMA RedoKeeps ==
  ASSUME Kept, NEW d \in Live, Redo(d)
  PROVE  Kept' /\ Becomes(d, doc'[d]) /\ ~doc'[d].saved
<1>1. PICK x : x = doc[d]
  OBVIOUS
<1>2. x \in Document /\ x.undo \in Seq(Nat) /\ x.redo \in Seq(Nat) /\ x.redo # <<>>
  <2>1. x \in Document /\ x.redo # <<>>
    BY <1>1, ThoseThere DEF Kept, Redo
  <2> QED BY <2>1 DEF Document
<1>3. PICK c \in Nat : c = Last(x.redo)
  BY <1>2, LastGone
<1>4. PICK h \in SUBSET Nat : h = x.held \cup {c}
  BY <1>2, HoldsMore
<1>5. PICK r \in Seq(Nat) : r = Front(x.redo)
  BY <1>2, LastGone
<1>6. PICK u \in Seq(Nat) : u = Append(x.undo, c)
  BY <1>2, AppendProperties
<1>7. PICK z : z = [x EXCEPT !.held = h, !.undo = u, !.redo = r]
  OBVIOUS
<1>8. SameBook(x, z)
  BY <1>2, <1>7, Moved
<1>9. PICK y : y = [z EXCEPT !.saved = FALSE]
  OBVIOUS
<1>10. SameBook(z, y) /\ ~y.saved
  BY <1>8, <1>9, Unsaved DEF SameBook
<1>11. UntoldChange(d, y, 0)
  <2>1. z = [x EXCEPT !.held = h, !.redo = r, !.undo = u]
    BY <1>7
  <2>2. Change(d, y, 0) /\ UNCHANGED <<journal, drawn>>
    BY <1>1, <1>3, <1>4, <1>5, <1>6, <1>9, <2>1 DEF Redo, UnsavedBy
  <2> QED BY <1>1, <1>8, <1>10, <2>2 DEF UntoldChange, SameBook
<1> QED BY <1>10, <1>11, UntoldKeeps

\* Saving.  The file holds what the document holds, or is cut short, or stays.
LEMMA WrittenIsTyped ==
  ASSUME Typed, NEW d \in Live, NEW p \in Path, NEW ok \in BOOLEAN, Written(d, p, ok)
  PROVE  file' \in [Path -> (SUBSET Nat) \cup {None, Cut}]
<1>1. file \in [Path -> (SUBSET Nat) \cup {None, Cut}] /\ doc[d] \in Document
  BY ThoseThere DEF Typed
<1>2. doc[d].held \in SUBSET Nat
  BY <1>1 DEF Document
<1> QED BY <1>1, <1>2 DEF Written

\* Only the files change.
LEMMA FilesAlone ==
  ASSUME Kept, UNCHANGED <<doc, docs, active, journal, nextSegment, closed, changes, drawn>>,
         file' \in [Path -> (SUBSET Nat) \cup {None, Cut}]
  PROVE  Kept'
<1> USE DEF Kept
<1>1. Live' = Live /\ Recording' = Recording /\ LiveTally' = LiveTally
  BY DEF Live, Recording, LiveTally
<1>2. Typed'
  BY DEF Typed
<1>3. Listed'
  BY <1>1 DEF Listed
<1>4. Recorded'
  BY <1>1 DEF Recorded
<1>5. Counted'
  BY <1>1 DEF Counted
<1> QED BY <1>2, <1>3, <1>4, <1>5

\* What saving keeps.
LEMMA SaveAsKeeps ==
  ASSUME Kept, NEW d \in Live, NEW p \in Path, NEW ok \in BOOLEAN, SaveAs(d, p, ok)
  PROVE  /\ Kept'
         /\ ok => Becomes(d, doc'[d]) /\ doc'[d].held = doc'[d].kept
         /\ ~ok => doc' = doc
<1> USE DEF Kept
<1>1. /\ Written(d, p, ok)
      /\ doc' = IF ok THEN [doc EXCEPT ![d] = Saved(doc[d], p)] ELSE doc
      /\ UNCHANGED <<docs, active, journal, nextSegment, closed, changes, drawn>>
  BY DEF SaveAs
<1>2. file' \in [Path -> (SUBSET Nat) \cup {None, Cut}]
  BY <1>1, WrittenIsTyped
<1>3. doc[d] \in Document /\ changes \in Nat /\ changes <= MaxChanges
  BY ThoseThere DEF Typed, Counted
<1>4. CASE ok
  <2>1. PICK y : y = Saved(doc[d], p)
    OBVIOUS
  <2>2. SameBook(doc[d], y) /\ y.held = y.kept
    BY <1>3, <2>1, SavedAs
  <2>3. doc' = [doc EXCEPT ![d] = y]
    BY <1>1, <1>4, <2>1
  <2>4. Becomes(d, y)
    BY <2>2, <2>3 DEF Becomes, SameBook
  <2>5. doc'[d] = y
    BY <2>4, OneBecomes
  <2>6. Kept'
    BY <1>1, <1>2, <1>3, <2>2, <2>4, Untold
  <2> QED BY <1>4, <2>2, <2>4, <2>5, <2>6
<1>5. CASE ~ok
  <2>1. doc' = doc
    BY <1>1, <1>5
  <2>2. Kept'
    BY <1>1, <1>2, <2>1, FilesAlone
  <2> QED BY <1>5, <2>1, <2>2
<1> QED BY <1>4, <1>5

-----------------------------------------------------------------------------
(* Documents come and go.                                                   *)

\* The list without the document at one place.
Erased(q, k, w) == w = RemoveAt(q, k)

\* It is shorter by one, and still names nothing twice.
LEMMA OneErased ==
  ASSUME NEW q \in Seq(Nat), NEW k \in 1..Len(q), IsInjective(q), NEW w, Erased(q, k, w)
  PROVE  /\ w \in Seq(Nat) /\ Len(w) + 1 = Len(q) /\ Len(w) \in Nat /\ IsInjective(w)
         /\ \A i \in 1..Len(w) : \E j \in 1..Len(q) : w[i] = q[j] /\ j # k
<1>1. PICK l \in Nat : l = Len(q)
  BY LenProperties
<1>2. k \in 1..l /\ DOMAIN q = 1..l
  BY <1>1, LenProperties
<1>3. PICK a, b : a = SubSeq(q, 1, k - 1) /\ b = SubSeq(q, k + 1, l)
  OBVIOUS
<1>4. \A i \in 1..l : q[i] \in Nat
  BY <1>1, ElementOfSeq
<1>5. a \in Seq(Nat) /\ Len(a) = k - 1 /\ \A i \in 1..(k - 1) : a[i] = q[i]
  <2>1. \A i \in 1..(k - 1) : q[i] \in Nat
    BY <1>2, <1>4
  <2>2. 1 \in Int /\ k - 1 \in Int
    BY <1>2
  <2>3. /\ SubSeq(q, 1, k - 1) \in Seq(Nat)
        /\ Len(SubSeq(q, 1, k - 1)) = IF 1 <= k - 1 THEN (k - 1) - 1 + 1 ELSE 0
        /\ \A i \in 1..((k - 1) - 1 + 1) : SubSeq(q, 1, k - 1)[i] = q[1 + i - 1]
    BY <2>1, <2>2, SubSeqProperties
  <2>4. Len(a) = k - 1
    BY <1>2, <1>3, <2>3
  <2>5. ASSUME NEW i \in 1..(k - 1) PROVE a[i] = q[i]
    <3>1. i \in 1..((k - 1) - 1 + 1) /\ 1 + i - 1 = i
      BY <1>2
    <3> QED BY <1>3, <2>3, <3>1
  <2> QED BY <1>3, <2>3, <2>4, <2>5
<1>6. b \in Seq(Nat) /\ Len(b) = l - k /\ \A i \in 1..(l - k) : b[i] = q[k + i]
  <2>1. \A i \in (k + 1)..l : q[i] \in Nat
    BY <1>2, <1>4
  <2>2. k + 1 \in Int /\ l \in Int
    BY <1>2
  <2>3. /\ SubSeq(q, k + 1, l) \in Seq(Nat)
        /\ Len(SubSeq(q, k + 1, l)) = IF k + 1 <= l THEN l - (k + 1) + 1 ELSE 0
        /\ \A i \in 1..(l - (k + 1) + 1) : SubSeq(q, k + 1, l)[i] = q[(k + 1) + i - 1]
    BY <2>1, <2>2, SubSeqProperties
  <2> QED BY <1>2, <1>3, <2>3
<1>7. w = a \o b
  BY <1>1, <1>3 DEF RemoveAt, Erased
<1>8. /\ w \in Seq(Nat) /\ Len(w) = l - 1
      /\ \A i \in 1..(l - 1) : w[i] = IF i <= k - 1 THEN a[i] ELSE b[i - (k - 1)]
  <2>1. /\ a \o b \in Seq(Nat) /\ Len(a \o b) = Len(a) + Len(b)
        /\ \A i \in 1..Len(a) + Len(b) : (a \o b)[i] = IF i <= Len(a) THEN a[i] ELSE b[i - Len(a)]
    BY <1>5, <1>6, ConcatProperties
  <2>2. (k - 1) + (l - k) = l - 1
    BY <1>2
  <2> QED BY <1>5, <1>6, <1>7, <2>1, <2>2
<1>9. \A i \in 1..(l - 1) : \E j \in 1..l : w[i] = q[j] /\ j = IF i < k THEN i ELSE i + 1
  <2> TAKE i \in 1..(l - 1)
  <2>1. CASE i < k
    <3>1. i <= k - 1 /\ i \in 1..(k - 1) /\ i \in 1..l
      BY <1>2, <2>1
    <3>2. w[i] = q[i]
      BY <1>5, <1>8, <3>1
    <3> QED BY <2>1, <3>1, <3>2
  <2>2. CASE ~(i < k)
    <3>1. ~(i <= k - 1) /\ i - (k - 1) \in 1..(l - k) /\ k + (i - (k - 1)) = i + 1 /\ i + 1 \in 1..l
      BY <1>2, <2>2
    <3>2. w[i] = q[i + 1]
      BY <1>6, <1>8, <3>1
    <3> QED BY <2>2, <3>1, <3>2
  <2> QED BY <2>1, <2>2
<1>10. IsInjective(w)
  <2>1. DOMAIN w = 1..(l - 1)
    BY <1>8, LenProperties
  <2> SUFFICES ASSUME NEW i \in 1..(l - 1), NEW m \in 1..(l - 1), w[i] = w[m] PROVE i = m
    BY <2>1 DEF IsInjective
  <2>2. PICK j \in 1..l, p \in 1..l :
          /\ w[i] = q[j] /\ j = IF i < k THEN i ELSE i + 1
          /\ w[m] = q[p] /\ p = IF m < k THEN m ELSE m + 1
    BY <1>9
  <2>3. j = p
    BY <1>2, <2>2 DEF IsInjective
  <2> QED BY <1>2, <2>2, <2>3
<1>11. \A i \in 1..Len(w) : \E j \in 1..Len(q) : w[i] = q[j] /\ j # k
  <2>1. Len(w) = l - 1
    BY <1>8
  <2>2. ASSUME NEW i \in 1..(l - 1) PROVE \E j \in 1..l : w[i] = q[j] /\ j # k
    <3>1. PICK j \in 1..l : w[i] = q[j] /\ j = IF i < k THEN i ELSE i + 1
      BY <1>9
    <3>2. j # k
      BY <1>2, <3>1
    <3> QED BY <3>1, <3>2
  <2> QED BY <1>1, <2>1, <2>2
<1>12. Len(w) + 1 = Len(q) /\ Len(w) \in Nat
  BY <1>1, <1>2, <1>8
<1> QED BY <1>8, <1>10, <1>11, <1>12

\* A document ends: it is destroyed, or stays closed.
Ends(d, y) ==
  /\ d \in Live /\ y \in Document \cup {Gone}
  /\ y.live => y.closed /\ y.journal = None
  /\ doc' = [doc EXCEPT ![d] = y]
  /\ closed' = closed + TallyOf(doc[d])
  /\ UNCHANGED <<journal, nextSegment, changes, drawn>>

\* Its recorder hands over what it counted, and nobody else's does.
LEMMA OneEnds ==
  ASSUME Kept, NEW d, NEW y, Ends(d, y)
  PROVE  /\ doc' \in Documents /\ Len(doc') = Len(doc) /\ Len(doc) \in Nat /\ doc'[d] = y
         /\ d \in 1..Len(doc)
         /\ \A e \in 1..Len(doc) : e # d => doc'[e] = doc[e]
         /\ \A e : e \in Live' <=> e \in Live /\ (e = d => y.live)
         /\ closed' \in Nat
         /\ Recorded' /\ Counted'
<1> USE DEF Kept
<1>1. d \in 1..Len(doc) /\ doc[d] \in Document /\ doc \in Documents /\ Len(doc) \in Nat
      /\ y \in Document \cup {Gone}
  BY ThoseThere DEF Ends
<1>2. /\ doc' \in Documents /\ Len(doc') = Len(doc) /\ doc'[d] = y
      /\ \A e \in 1..Len(doc) : e # d => doc'[e] = doc[e]
      /\ Total(doc') + TallyOf(doc[d]) = Total(doc) + TallyOf(y)
  <2>1. PICK r : r = doc'
    OBVIOUS
  <2>2. Replaced(doc, d, y, r)
    BY <2>1 DEF Ends, Replaced
  <2>3. /\ r \in Documents /\ Len(r) = Len(doc) /\ r[d] = y
        /\ \A e \in 1..Len(doc) : e # d => r[e] = doc[e]
        /\ Total(r) + TallyOf(doc[d]) = Total(doc) + TallyOf(y)
    BY <1>1, <2>2, TotalOfOne
  <2> QED BY <2>1, <2>3
<1>3. Total(doc) \in Nat /\ Total(doc') \in Nat /\ TallyOf(doc[d]) \in Nat
  BY <1>1, <1>2, TotalIsNumber, TallyIsNumber
<1>4. DOMAIN doc = 1..Len(doc) /\ DOMAIN doc' = 1..Len(doc)
  BY <1>1, <1>2, LenProperties DEF Documents
<1>5. \A e : e \in Live' <=> e \in Live /\ (e = d => y.live)
  <2>1. \A e : e \in Live <=> e \in 1..Len(doc) /\ doc[e].live
    BY <1>4 DEF Live
  <2>2. \A e : e \in Live' <=> e \in 1..Len(doc) /\ doc'[e].live
    BY <1>4 DEF Live
  <2>3. d \in Live
    BY DEF Ends
  <2> QED BY <1>2, <2>1, <2>2, <2>3
<1>6. /\ \A e : e \in Recording <=> e \in Live /\ doc[e].journal # None
      /\ \A e : e \in Recording' <=> e \in Live' /\ doc'[e].journal # None
      /\ \A e \in Live : e \in 1..Len(doc)
  <2>1. /\ \A e : e \in Recording <=> e \in Live /\ doc[e].journal # None
        /\ \A e \in Live : e \in 1..Len(doc)
    BY ThoseThere
  <2>2. \A e : e \in Recording' <=> e \in Live' /\ doc'[e].journal # None
    BY DEF Recording, Records, Live
  <2> QED BY <2>1, <2>2
<1>7. \A e \in Recording' : e \in Recording /\ e # d /\ doc'[e] = doc[e]
  <2> TAKE e \in Recording'
  <2>1. e \in Live' /\ doc'[e].journal # None
    BY <1>6
  <2>2. e # d
    BY <1>2, <1>5, <2>1 DEF Ends
  <2>3. e \in Live /\ e \in 1..Len(doc) /\ doc'[e] = doc[e]
    BY <1>2, <1>5, <1>6, <2>1, <2>2
  <2> QED BY <1>6, <2>1, <2>2, <2>3
<1>8. UNCHANGED <<journal, nextSegment, changes, drawn>> /\ closed' = closed + TallyOf(doc[d])
  BY DEF Ends
<1>9. Recorded'
  <2>1. ASSUME NEW e \in Live' PROVE doc'[e].closed <=> doc'[e].journal = None
    <3>1. e \in Live /\ (e = d => y.live) /\ e \in 1..Len(doc)
      BY <1>5, <1>6
    <3>2. CASE e = d
      BY <1>2, <3>1, <3>2 DEF Ends
    <3>3. CASE e # d
      <4>1. doc'[e] = doc[e]
        BY <1>2, <3>1, <3>3
      <4> QED BY <3>1, <4>1 DEF Recorded
    <3> QED BY <3>2, <3>3
  <2>2. \A e \in Recording' : /\ doc'[e].journal[2] < nextSegment'
                              /\ doc'[e].journal \in DOMAIN journal'
                              /\ Len(journal'[doc'[e].journal]) = doc'[e].tally
    BY <1>7, <1>8 DEF Recorded
  <2>3. \A e, f \in Recording' : e # f => doc'[e].journal # doc'[f].journal
    BY <1>7 DEF Recorded
  <2>4. nextSegment' > Len(doc')
    BY <1>2, <1>8 DEF Recorded
  <2> QED BY <2>1, <2>2, <2>3, <2>4 DEF Recorded
<1>10. Counted' /\ closed' \in Nat
  <2>1. TallyOf(y) = 0
    BY DEF Ends, TallyOf, Records
  <2>2. Total(doc') + TallyOf(doc[d]) = Total(doc)
    BY <1>2, <1>3, <2>1
  <2>3. LiveTally = Total(doc) /\ LiveTally' = Total(doc')
    BY DEF LiveTally, Total
  <2>4. closed \in Nat /\ closed' = closed + TallyOf(doc[d])
    BY DEF Typed, Ends
  <2>5. closed' + Total(doc') = closed + Total(doc)
    BY <1>3, <2>2, <2>4
  <2>6. closed' + LiveTally' = drawn'
    BY <1>8, <2>3, <2>5 DEF Counted
  <2>7. closed' \in Nat
    BY <1>3, <2>4
  <2> QED BY <1>8, <2>6, <2>7 DEF Counted
<1> QED BY <1>1, <1>2, <1>5, <1>9, <1>10

\* Closing that fails leaves all but a file as it was.
LEMMA CloseFailsKeeps ==
  ASSUME Kept, NEW d \in Live, NEW save \in BOOLEAN, NEW ok \in BOOLEAN, CloseFails(d, save, ok),
         UNCHANGED <<journal, nextSegment, changes, drawn, restarts>>
  PROVE  Kept' /\ doc' = doc
<1> USE DEF Kept
<1>1. UNCHANGED <<docs, active, doc, closed>>
  BY DEF CloseFails
<1>2. file \in [Path -> (SUBSET Nat) \cup {None, Cut}] /\ doc[d] \in Document
  BY ThoseThere DEF Typed
<1>3. file' \in [Path -> (SUBSET Nat) \cup {None, Cut}]
  <2>1. CASE doc[d].path = None
    BY <1>2, <2>1 DEF CloseFails
  <2>2. CASE doc[d].path # None
    <3>1. doc[d].path \in Path
      BY <1>2, <2>2 DEF Document
    <3>2. Written(d, doc[d].path, FALSE)
      BY <2>2 DEF CloseFails
    <3>3. Typed
      OBVIOUS
    <3> QED BY <3>1, <3>2, <3>3, WrittenIsTyped
  <2> QED BY <2>1, <2>2
<1>4. Kept'
  BY <1>1, <1>3, FilesAlone
<1> QED BY <1>1, <1>4

\* Closing that saves leaves a whole file.
LEMMA ClosingWrites ==
  ASSUME Kept, NEW d \in Live, NEW save \in BOOLEAN, NEW ok \in BOOLEAN, Closing(d, save, ok)
  PROVE  /\ file' \in [Path -> (SUBSET Nat) \cup {None, Cut}]
         /\ closed' = closed + TallyOf(doc[d])
<1> USE DEF Kept
<1>1. file \in [Path -> (SUBSET Nat) \cup {None, Cut}] /\ doc[d] \in Document
  BY ThoseThere DEF Typed
<1>2. CASE Saves(d, save)
  <2>1. doc[d].path # None /\ Written(d, doc[d].path, TRUE)
    BY <1>2 DEF Closing
  <2>2. doc[d].path \in Path
    BY <1>1, <2>1 DEF Document
  <2>3. Typed
    OBVIOUS
  <2>4. file' \in [Path -> (SUBSET Nat) \cup {None, Cut}]
    BY <2>1, <2>2, <2>3, WrittenIsTyped
  <2> QED BY <2>4 DEF Closing, Retire
<1>3. CASE ~Saves(d, save)
  BY <1>1, <1>3 DEF Closing, Retire
<1> QED BY <1>2, <1>3

\* closeDocument.
LEMMA CloseDocumentKeeps ==
  ASSUME Kept, NEW d \in Live, NEW save \in BOOLEAN, NEW ok \in BOOLEAN, CloseDocument(d, save, ok)
  PROVE  Kept' /\ Len(doc') = Len(doc) /\ \A e \in Live' : e \in Live /\ doc'[e] = doc[e]
<1> USE DEF Kept
<1>1. CASE CloseFails(d, save, ok)
  <2>1. UNCHANGED <<journal, nextSegment, changes, drawn, restarts>>
    BY DEF CloseDocument
  <2>2. Kept' /\ doc' = doc
    BY <1>1, <2>1, CloseFailsKeeps
  <2>3. Live' = Live
    BY <2>2 DEF Live
  <2> QED BY <2>2, <2>3
<1>2. ASSUME Closing(d, save, ok), doc' = [doc EXCEPT ![d] = Gone],
             NEW k \in DOMAIN docs, docs[k] = d, docs' = RemoveAt(docs, k),
             active' = IF active < Len(docs) - 1 THEN active
                       ELSE IF Len(docs) = 1 THEN 0 ELSE Len(docs) - 2
      PROVE  Kept' /\ Len(doc') = Len(doc) /\ \A e \in Live' : e \in Live /\ doc'[e] = doc[e]
  <2>1. /\ file' \in [Path -> (SUBSET Nat) \cup {None, Cut}]
        /\ closed' = closed + TallyOf(doc[d])
    BY <1>2, ClosingWrites
  <2>2. Ends(d, Gone)
    <3>1. ~Gone.live /\ Gone \in Document \cup {Gone}
      BY GoneIsNotThere
    <3>2. UNCHANGED <<journal, nextSegment, changes, drawn>>
      BY DEF CloseDocument
    <3> QED BY <1>2, <2>1, <3>1, <3>2 DEF Ends
  <2>3. /\ doc' \in Documents /\ Len(doc') = Len(doc) /\ Len(doc) \in Nat
        /\ \A e \in 1..Len(doc) : e # d => doc'[e] = doc[e]
        /\ \A e : e \in Live' <=> e \in Live /\ (e = d => Gone.live)
        /\ closed' \in Nat
        /\ Recorded' /\ Counted'
    BY <2>2, OneEnds
  <2>4. \A e : e \in Live' <=> e \in Live /\ e # d
    BY <2>3, GoneIsNotThere
  <2>5. docs \in Seq(Nat) /\ k \in 1..Len(docs) /\ IsInjective(docs)
    <3>1. docs \in Seq(Nat)
      BY DEF Typed
    <3>2. DOMAIN docs = 1..Len(docs)
      BY <3>1, LenProperties
    <3> QED BY <1>2, <3>1, <3>2 DEF Listed
  <2>6. /\ docs' \in Seq(Nat) /\ Len(docs') + 1 = Len(docs) /\ Len(docs') \in Nat /\ IsInjective(docs')
        /\ \A i \in 1..Len(docs') : \E j \in 1..Len(docs) : docs'[i] = docs[j] /\ j # k
    <3>1. PICK w : w = docs'
      OBVIOUS
    <3>2. Erased(docs, k, w)
      BY <1>2, <3>1 DEF Erased
    <3>3. /\ w \in Seq(Nat) /\ Len(w) + 1 = Len(docs) /\ Len(w) \in Nat /\ IsInjective(w)
          /\ \A i \in 1..Len(w) : \E j \in 1..Len(docs) : w[i] = docs[j] /\ j # k
      BY <2>5, <3>2, OneErased
    <3> QED BY <3>1, <3>3
  <2>7. ASSUME NEW i \in 1..Len(docs') PROVE docs'[i] \in Live'
    <3>1. PICK j \in 1..Len(docs) : docs'[i] = docs[j] /\ j # k
      BY <2>6
    <3>2. j \in DOMAIN docs /\ k \in DOMAIN docs
      BY <2>5, LenProperties
    <3>3. docs[j] # d
      BY <1>2, <2>5, <3>1, <3>2 DEF IsInjective
    <3>4. docs[j] \in Live
      BY DEF Listed
    <3> QED BY <2>4, <3>1, <3>3, <3>4
  <2>8. PICK l \in Nat : l = Len(docs')
    BY <2>6
  <2>9. /\ active \in Nat /\ active' \in Nat /\ active' <= l /\ (l # 0 => active' < l)
        /\ l <= Len(doc) /\ Len(doc) <= MaxDocs
    <3>1. active \in Nat /\ Len(docs) = l + 1
      BY <2>6, <2>8 DEF Typed
    <3>2. active' = IF active < l THEN active ELSE IF l = 0 THEN 0 ELSE l - 1
      BY <1>2, <2>8, <3>1
    <3>3. l + 1 <= Len(doc) /\ Len(doc) <= MaxDocs
      BY <3>1 DEF Listed
    <3> QED BY <2>3, <2>8, <3>1, <3>2, <3>3
  <2>10. docs' # <<>> => l # 0
    BY <2>6, <2>8, EmptySeq
  <2>11. Listed'
    BY <2>3, <2>6, <2>7, <2>8, <2>9, <2>10 DEF Listed
  <2>12. UNCHANGED <<journal, nextSegment, changes, drawn>>
    BY DEF CloseDocument
  <2>13. Typed'
    BY <2>1, <2>3, <2>6, <2>9, <2>12 DEF Typed, Documents
  <2>14. \A e \in Live' : e \in Live /\ doc'[e] = doc[e]
    <3>1. \A e \in Live : e \in 1..Len(doc)
      BY ThoseThere
    <3> QED BY <2>3, <2>4, <3>1
  <2> QED BY <2>3, <2>11, <2>13, <2>14
<1> QED BY <1>1, <1>2 DEF CloseDocument

\* IMariDocument::Close.
LEMMA CloseInPlaceKeeps ==
  ASSUME Kept, NEW d \in Live, NEW save \in BOOLEAN, NEW ok \in BOOLEAN, CloseInPlace(d, save, ok)
  PROVE  Kept' /\ Len(doc') = Len(doc) /\ Live' = Live
<1> USE DEF Kept
<1>1. UNCHANGED <<journal, nextSegment, changes, drawn, restarts>>
  BY DEF CloseInPlace
<1>2. CASE CloseFails(d, save, ok)
  <2>1. Kept' /\ doc' = doc
    BY <1>1, <1>2, CloseFailsKeeps
  <2>2. Live' = Live
    BY <2>1 DEF Live
  <2> QED BY <2>1, <2>2
<1>3. CASE ~CloseFails(d, save, ok)
  <2>1. /\ Closing(d, save, ok)
        /\ doc' = [doc EXCEPT ![d] = IF doc[d].closed THEN doc[d] ELSE Ended(doc[d], save)]
        /\ UNCHANGED <<docs, active>>
    BY <1>3 DEF CloseInPlace
  <2>2. PICK y : y = IF doc[d].closed THEN doc[d] ELSE Ended(doc[d], save)
    OBVIOUS
  <2>3. doc[d] \in Document
    BY ThoseThere
  <2>4. y \in Document /\ y.closed /\ y.journal = None
    <3>1. CASE doc[d].closed
      <4>1. y = doc[d]
        BY <2>2, <3>1
      <4> QED BY <2>3, <3>1, <4>1 DEF Recorded
    <3>2. CASE ~doc[d].closed
      <4>1. y = Ended(doc[d], save)
        BY <2>2, <3>2
      <4> QED BY <2>3, <4>1, EndedIs
    <3> QED BY <3>1, <3>2
  <2>5. /\ file' \in [Path -> (SUBSET Nat) \cup {None, Cut}]
        /\ closed' = closed + TallyOf(doc[d])
    BY <2>1, ClosingWrites
  <2>6. Ends(d, y)
    BY <1>1, <2>1, <2>2, <2>4, <2>5 DEF Ends
  <2>7. /\ doc' \in Documents /\ Len(doc') = Len(doc)
        /\ \A e : e \in Live' <=> e \in Live /\ (e = d => y.live)
        /\ closed' \in Nat
        /\ Recorded' /\ Counted'
    BY <2>6, OneEnds
  <2>8. Live' = Live
    BY <2>4, <2>7, GoneIsNotThere
  <2>9. Listed'
    BY <2>1, <2>7, <2>8 DEF Listed
  <2>10. Typed'
    BY <1>1, <2>1, <2>5, <2>7 DEF Typed, Documents
  <2> QED BY <2>7, <2>8, <2>9, <2>10
<1> QED BY <1>2, <1>3

\* A new document is listed as y, recorded under the next name.
Enlisted(y) ==
  /\ y \in Document /\ ~y.closed /\ y.tally = 0
  /\ y.journal \in JournalName /\ y.journal[2] = nextSegment
  /\ Len(doc) < MaxDocs
  /\ doc' = Append(doc, y) /\ docs' = Append(docs, Len(doc) + 1) /\ active' = Len(docs)
  /\ journal' = Opened(y.journal) /\ nextSegment' = nextSegment + 1
  /\ UNCHANGED <<file, closed, changes, drawn>>

\* The new journal is nobody else's, and is empty as the recorder's count is.
LEMMA EnlistedKeeps ==
  ASSUME Kept, NEW y, Enlisted(y)
  PROVE  /\ Kept' /\ Len(doc') = Len(doc) + 1
         /\ \A e \in Live' : (e \in Live /\ doc'[e] = doc[e]) \/ doc'[e] = y
         /\ \A e \in Live : e \in Live'
<1> USE DEF Kept
<1>1. PICK l \in Nat : l = Len(doc)
  BY ThoseThere
<1>2. /\ doc \in Documents /\ DOMAIN doc = 1..l
      /\ \A e : e \in Live <=> e \in 1..l /\ doc[e] \in Document
      /\ \A e : e \in Recording <=> e \in Live /\ doc[e].journal # None
  BY <1>1, ThoseThere
<1>3. y \in Document /\ ~y.closed /\ y.tally = 0 /\ y.journal \in JournalName /\ y.live
  BY GoneIsNotThere DEF Enlisted
<1>4. y.journal # None
  BY <1>3, ApplicationAssumption DEF JournalName
<1>5. TallyOf(y) = 0
  BY <1>3 DEF TallyOf
<1>6. /\ doc' \in Documents /\ Len(doc') = l + 1 /\ doc'[l + 1] = y
      /\ \A e \in 1..l : doc'[e] = doc[e]
      /\ Total(doc') = Total(doc)
  <2>1. PICK r : r = doc'
    OBVIOUS
  <2>2. Added(doc, y, r)
    BY <2>1 DEF Enlisted, Added
  <2>3. /\ r \in Documents /\ Len(r) = Len(doc) + 1 /\ r[Len(doc) + 1] = y
        /\ \A e \in 1..Len(doc) : r[e] = doc[e]
        /\ Total(r) = Total(doc)
    BY <1>2, <1>3, <1>5, <2>2, TotalOfMore
  <2> QED BY <1>1, <2>1, <2>3
<1>7. DOMAIN doc' = 1..(l + 1) /\ \A e \in 1..(l + 1) : e \in 1..l \/ e = l + 1
  BY <1>1, <1>6, LenProperties DEF Documents
<1>8. \A e : e \in Live' <=> e \in Live \/ e = l + 1
  <2>1. \A e : e \in Live' <=> e \in 1..(l + 1) /\ doc'[e].live
    BY <1>7 DEF Live
  <2>2. \A e : e \in Live <=> e \in 1..l /\ doc[e].live
    BY <1>2 DEF Live
  <2>3. \A e \in 1..l : e \in 1..(l + 1)
    BY <1>1
  <2>4. l + 1 \in 1..(l + 1)
    BY <1>1
  <2> QED BY <1>3, <1>6, <1>7, <2>1, <2>2, <2>3, <2>4
<1>9. l + 1 \notin Live /\ \A e \in Live : e \in 1..l /\ doc'[e] = doc[e] /\ e # l + 1
  <2>1. l + 1 \notin 1..l
    BY <1>1
  <2> QED BY <1>2, <1>6, <2>1
<1>10. \A e : e \in Recording' <=> e \in Recording \/ e = l + 1
  <2>1. \A e : e \in Recording' <=> e \in Live' /\ doc'[e].journal # None
    BY DEF Recording, Records, Live
  <2> QED BY <1>2, <1>4, <1>6, <1>8, <1>9, <2>1
<1>11. PICK n : n = y.journal
  OBVIOUS
<1>12. /\ DOMAIN journal' = DOMAIN journal \cup {n} /\ journal'[n] = <<>>
       /\ \A m \in DOMAIN journal : m # n => journal'[m] = journal[m]
  BY <1>11 DEF Enlisted, Opened
<1>13. n \in JournalName /\ n[2] = nextSegment /\ nextSegment \in Nat /\ nextSegment' = nextSegment + 1
  BY <1>3, <1>11 DEF Enlisted, Typed
<1>14. Recorded'
  <2>1. ASSUME NEW e \in Live' PROVE doc'[e].closed <=> doc'[e].journal = None
    <3>1. CASE e = l + 1
      BY <1>3, <1>4, <1>6, <3>1
    <3>2. CASE e # l + 1
      <4>1. e \in Live /\ doc'[e] = doc[e]
        BY <1>8, <1>9, <3>2
      <4> QED BY <4>1 DEF Recorded
    <3> QED BY <3>1, <3>2
  <2>2. ASSUME NEW e \in Recording, e # l + 1
        PROVE  /\ doc'[e] = doc[e] /\ doc[e].journal # n /\ doc[e].journal[2] < nextSegment
               /\ doc[e].journal \in DOMAIN journal
               /\ Len(journal[doc[e].journal]) = doc[e].tally
    <3>1. doc'[e] = doc[e]
      BY <1>2, <1>9
    <3>2. /\ doc[e].journal[2] < nextSegment /\ doc[e].journal \in DOMAIN journal
          /\ Len(journal[doc[e].journal]) = doc[e].tally
      BY DEF Recorded
    <3>3. doc[e].journal # n
      BY <1>13, <3>2
    <3> QED BY <3>1, <3>2, <3>3
  <2>3. ASSUME NEW e \in Recording'
        PROVE  /\ doc'[e].journal[2] < nextSegment'
               /\ doc'[e].journal \in DOMAIN journal'
               /\ Len(journal'[doc'[e].journal]) = doc'[e].tally
    <3>1. CASE e = l + 1
      <4>1. doc'[e] = y
        BY <1>6, <3>1
      <4>2. n[2] < nextSegment' /\ n \in DOMAIN journal'
        BY <1>12, <1>13
      <4>3. Len(journal'[n]) = 0
        BY <1>12, EmptySeq
      <4> QED BY <1>3, <1>11, <4>1, <4>2, <4>3
    <3>2. CASE e # l + 1
      <4>1. e \in Recording
        BY <1>10, <3>2
      <4>2. PICK m : m = doc[e].journal
        OBVIOUS
      <4>3. /\ doc'[e] = doc[e] /\ m # n /\ m[2] < nextSegment /\ m \in DOMAIN journal
            /\ Len(journal[m]) = doc[e].tally
        BY <2>2, <3>2, <4>1, <4>2
      <4>4. m \in DOMAIN journal' /\ journal'[m] = journal[m]
        BY <1>12, <4>3
      <4>5. m[2] < nextSegment'
        <5>1. m \in JournalName
          BY <4>3 DEF Typed
        <5>2. m[2] \in Nat
          BY <5>1 DEF JournalName
        <5> QED BY <1>13, <4>3, <5>2
      <4> QED BY <4>2, <4>3, <4>4, <4>5
    <3> QED BY <3>1, <3>2
  <2>4. ASSUME NEW e \in Recording', NEW f \in Recording', e # f
        PROVE  doc'[e].journal # doc'[f].journal
    <3>1. CASE e = l + 1
      <4>1. f \in Recording /\ f # l + 1
        BY <1>10, <2>4, <3>1
      <4> QED BY <1>6, <1>11, <2>2, <3>1, <4>1
    <3>2. CASE f = l + 1
      <4>1. e \in Recording /\ e # l + 1
        BY <1>10, <2>4, <3>2
      <4> QED BY <1>6, <1>11, <2>2, <3>2, <4>1
    <3>3. CASE e # l + 1 /\ f # l + 1
      <4>1. e \in Recording /\ f \in Recording
        BY <1>10, <3>3
      <4>2. doc[e].journal # doc[f].journal
        BY <2>4, <4>1 DEF Recorded
      <4> QED BY <2>2, <3>3, <4>1, <4>2
    <3> QED BY <3>1, <3>2, <3>3
  <2>5. nextSegment' > Len(doc')
    BY <1>1, <1>6, <1>13 DEF Recorded
  <2> QED BY <2>1, <2>3, <2>4, <2>5 DEF Recorded
<1>15. docs \in Seq(Nat) /\ l + 1 \in Nat
  BY <1>1 DEF Typed
<1>16. PICK k \in Nat : k = Len(docs) /\ k <= l
  BY <1>1, <1>15, LenProperties DEF Listed
<1>17. /\ docs' \in Seq(Nat) /\ Len(docs') = k + 1 /\ docs'[k + 1] = l + 1
       /\ \A i \in 1..k : docs'[i] = docs[i]
  <2>1. docs' = Append(docs, l + 1)
    BY <1>1 DEF Enlisted
  <2> QED BY <1>15, <1>16, <2>1, AppendProperties
<1>18. Listed'
  <2>1. \A i \in 1..k : docs[i] \in Live
    BY <1>16 DEF Listed
  <2>2. ASSUME NEW i \in 1..Len(docs') PROVE docs'[i] \in Live'
    <3>1. i \in 1..k \/ i = k + 1
      BY <1>16, <1>17
    <3> QED BY <1>8, <1>17, <2>1, <3>1
  <2>3. IsInjective(docs')
    <3>1. DOMAIN docs = 1..k /\ DOMAIN docs' = 1..(k + 1)
      BY <1>15, <1>16, <1>17, LenProperties
    <3>2. \A i \in 1..k : docs'[i] # l + 1
      BY <1>9, <1>17, <2>1
    <3>3. \A i \in 1..(k + 1) : i \in 1..k \/ i = k + 1
      BY <1>16
    <3>4. \A i, j \in 1..k : docs[i] = docs[j] => i = j
      BY <3>1 DEF IsInjective, Listed
    <3> SUFFICES ASSUME NEW i \in 1..(k + 1), NEW j \in 1..(k + 1), docs'[i] = docs'[j] PROVE i = j
      BY <3>1 DEF IsInjective
    <3> QED BY <1>17, <3>2, <3>3, <3>4
  <2>4. active' = k /\ Len(doc') <= MaxDocs
    BY <1>1, <1>6, <1>16, ApplicationAssumption DEF Enlisted
  <2> QED BY <1>6, <1>16, <1>17, <2>2, <2>3, <2>4 DEF Listed
<1>19. Typed'
  <2>1. DOMAIN journal' \subseteq JournalName
    BY <1>12, <1>13 DEF Typed
  <2>2. ASSUME NEW m \in DOMAIN journal' PROVE journal'[m] \in Seq(Nat)
    <3>1. CASE m = n
      BY <1>12, <3>1, EmptySeq
    <3>2. CASE m # n
      BY <1>12, <3>2 DEF Typed
    <3> QED BY <3>1, <3>2
  <2>3. active' \in Nat /\ nextSegment' \in Nat
    BY <1>13, <1>16 DEF Enlisted
  <2>4. UNCHANGED <<file, closed, changes, drawn>>
    BY DEF Enlisted
  <2> QED BY <1>6, <1>17, <2>1, <2>2, <2>3, <2>4 DEF Typed, Documents
<1>20. Counted'
  <2>1. LiveTally' = LiveTally
    BY <1>6 DEF LiveTally, Total
  <2>2. UNCHANGED <<closed, changes, drawn>>
    BY DEF Enlisted
  <2> QED BY <2>1, <2>2 DEF Counted
<1> QED BY <1>1, <1>6, <1>8, <1>9, <1>14, <1>18, <1>19, <1>20

\* createDocument and open, whether the journal could be opened or not.
LEMMA EnlistKeeps ==
  ASSUME Kept, NEW h \in SUBSET Nat, NEW p \in Path \cup {None}, NEW t \in Path \cup {New},
         Enlist(h, p, t)
  PROVE  /\ Kept' /\ Len(doc') \in {Len(doc), Len(doc) + 1}
         /\ \A e \in Live' : (e \in Live /\ doc'[e] = doc[e]) \/ doc'[e].held = doc'[e].kept
         /\ \A e \in Live : e \in Live'
<1> USE DEF Kept
<1>0. nextSegment \in Nat /\ nextSegment' = nextSegment + 1 /\ Len(doc) < MaxDocs
      /\ UNCHANGED <<file, closed, changes, drawn, restarts>>
  BY DEF Typed, Enlist
<1>1. ASSUME UNCHANGED <<doc, docs, active, journal>>
      PROVE  Kept' /\ Len(doc') = Len(doc) /\ Live' = Live
  <2>1. Live' = Live /\ Recording' = Recording /\ LiveTally' = LiveTally
    BY <1>1 DEF Live, Recording, LiveTally
  <2>2. Typed' /\ nextSegment < nextSegment'
    BY <1>0, <1>1 DEF Typed
  <2>3. Listed'
    BY <1>1, <2>1 DEF Listed
  <2>4. Counted'
    BY <1>0, <1>1, <2>1 DEF Counted
  <2>5. Recorded'
    <3>1. ASSUME NEW d \in Recording PROVE doc[d].journal[2] < nextSegment'
      <4>1. doc[d].journal[2] < nextSegment /\ doc[d].journal \in JournalName
        BY DEF Recorded, Typed
      <4>2. doc[d].journal[2] \in Nat
        BY <4>1 DEF JournalName
      <4> QED BY <1>0, <4>1, <4>2
    <3>2. nextSegment' > Len(doc)
      <4>1. Len(doc) \in Nat /\ nextSegment > Len(doc)
        BY ThoseThere DEF Recorded
      <4> QED BY <1>0, <4>1
    <3>3. /\ \A d \in Live' : doc'[d].closed <=> doc'[d].journal = None
          /\ \A d \in Recording' : /\ doc'[d].journal[2] < nextSegment'
                                   /\ doc'[d].journal \in DOMAIN journal'
                                   /\ Len(journal'[doc'[d].journal]) = doc'[d].tally
          /\ \A d, e \in Recording' : d # e => doc'[d].journal # doc'[e].journal
      BY <1>1, <2>1, <3>1 DEF Recorded
    <3> QED BY <1>1, <3>2, <3>3 DEF Recorded
  <2> QED BY <1>1, <2>1, <2>2, <2>3, <2>4, <2>5
<1>2. PICK n : n = NameOf(t, nextSegment)
  OBVIOUS
<1>3. n \in JournalName /\ n[2] = nextSegment
  BY <1>0, <1>2 DEF NameOf, JournalName
<1>4. PICK y : y = Made(h, p, n)
  OBVIOUS
<1>5. y \in Document /\ ~y.closed /\ y.journal = n /\ y.tally = 0 /\ y.held = y.kept
  BY <1>3, <1>4, MadeIs
<1>6. ASSUME doc' = Append(doc, y), journal' = Opened(n),
             docs' = Append(docs, Len(doc) + 1), active' = Len(docs)
      PROVE  Enlisted(y)
  BY <1>0, <1>3, <1>5, <1>6 DEF Enlisted
<1>7. \/ UNCHANGED <<doc, docs, active, journal>>
      \/ Enlisted(y)
  BY <1>2, <1>4, <1>6 DEF Enlist
<1>8. CASE Enlisted(y)
  <2>1. /\ Kept' /\ Len(doc') = Len(doc) + 1
        /\ \A e \in Live' : (e \in Live /\ doc'[e] = doc[e]) \/ doc'[e] = y
        /\ \A e \in Live : e \in Live'
    BY <1>8, EnlistedKeeps
  <2> QED BY <1>5, <2>1
<1>9. CASE UNCHANGED <<doc, docs, active, journal>>
  BY <1>1, <1>9
<1> QED BY <1>7, <1>8, <1>9

\* Application::quit.
LEMMA QuitKeeps ==
  ASSUME Kept, Quit
  PROVE  Kept' /\ Len(doc') = Len(doc)
<1> USE DEF Kept
<1>1. PICK l \in Nat : l = Len(doc) /\ DOMAIN doc = 1..l /\ doc \in Documents
  BY ThoseThere
<1>2. /\ doc' = [d \in 1..l |-> Gone] /\ closed' = closed + LiveTally
      /\ docs' = <<>> /\ active' = 0
      /\ UNCHANGED <<file, journal, nextSegment, changes, drawn>>
  BY <1>1 DEF Quit, Retire
<1>3. doc' \in Documents /\ Len(doc') = l /\ \A d \in 1..l : doc'[d] = Gone
  <2>1. doc' \in [1..l -> Document \cup {Gone}]
    BY <1>2
  <2>2. doc' \in Documents
    BY <2>1, SeqDef DEF Documents
  <2> QED BY <1>2, <2>1, <2>2, LenProperties DEF Documents
<1>4. Live' = {} /\ Recording' = {}
  <2>1. DOMAIN doc' = 1..l
    BY <1>2
  <2>2. \A d \in 1..l : ~doc'[d].live
    BY <1>3, GoneIsNotThere
  <2> QED BY <2>1, <2>2 DEF Live, Recording, Records
<1>5. Total(doc') = 0
  BY <1>3, TotalOfNone
<1>6. Total(doc) \in Nat
  BY <1>1, TotalIsNumber
<1>7. LiveTally = Total(doc) /\ LiveTally' = 0
  BY <1>5 DEF LiveTally, Total
<1>8. docs' \in Seq(Nat) /\ Len(docs') = 0 /\ IsInjective(docs')
  BY <1>2, EmptySeq DEF IsInjective
<1>9. Typed'
  <2>1. closed' \in Nat
    BY <1>2, <1>6, <1>7 DEF Typed
  <2> QED BY <1>2, <1>3, <1>8, <2>1 DEF Typed, Documents
<1>10. Listed'
  BY <1>1, <1>2, <1>3, <1>8 DEF Listed
<1>11. Recorded'
  BY <1>1, <1>2, <1>3, <1>4 DEF Recorded
<1>12. Counted'
  <2>1. closed \in Nat
    BY DEF Typed
  <2> QED BY <1>2, <1>6, <1>7, <2>1 DEF Counted
<1> QED BY <1>1, <1>3, <1>9, <1>10, <1>11, <1>12

\* A process that starts has no documents yet, and the files that were left.
LEMMA StartKeeps ==
  ASSUME docs' = <<>>, active' = 0, doc' = <<>>, nextSegment' = 1, closed' = 0, drawn' = 0,
         file' \in [Path -> (SUBSET Nat) \cup {None, Cut}],
         DOMAIN journal' \subseteq JournalName,
         \A n \in DOMAIN journal' : journal'[n] \in Seq(Nat),
         changes' \in Nat, changes' <= MaxChanges
  PROVE  Kept'
<1>1. doc' \in Documents /\ Len(doc') = 0 /\ DOMAIN doc' = {}
  BY EmptySeq DEF Documents
<1>2. docs' \in Seq(Nat) /\ Len(docs') = 0 /\ IsInjective(docs')
  BY EmptySeq DEF IsInjective
<1>3. Live' = {} /\ Recording' = {}
  BY <1>1 DEF Live, Recording
<1>4. LiveTally' = 0
  <2>1. \A d \in 1..Len(doc') : doc'[d] = Gone
    BY <1>1
  <2>2. Total(doc') = 0
    BY <1>1, <2>1, TotalOfNone
  <2> QED BY <2>2 DEF LiveTally, Total
<1>5. Typed'
  BY <1>1, <1>2 DEF Typed, Documents
<1>6. Listed'
  BY <1>1, <1>2, ApplicationAssumption DEF Listed
<1>7. Recorded'
  BY <1>1, <1>3 DEF Recorded
<1>8. Counted'
  BY <1>4 DEF Counted
<1> QED BY <1>5, <1>6, <1>7, <1>8 DEF Kept

\* A crash, and the same program started again.
LEMMA RestartKeeps ==
  ASSUME Kept, Restart
  PROVE  Kept' /\ Live' = {}
<1>1. /\ docs' = <<>> /\ active' = 0 /\ doc' = <<>> /\ nextSegment' = 1 /\ closed' = 0 /\ drawn' = 0
      /\ UNCHANGED <<file, journal, changes>>
  BY DEF Restart
<1>2. /\ file \in [Path -> (SUBSET Nat) \cup {None, Cut}]
      /\ DOMAIN journal \subseteq JournalName
      /\ \A n \in DOMAIN journal : journal[n] \in Seq(Nat)
      /\ changes \in Nat /\ changes <= MaxChanges
  BY DEF Kept, Typed, Counted
<1>3. Kept'
  BY <1>1, <1>2, StartKeeps
<1>4. Live' = {}
  BY <1>1 DEF Live
<1> QED BY <1>3, <1>4

-----------------------------------------------------------------------------
(* The objects of a script.                                                 *)

\* The objects are typed, and what they point at was made.
PointAmong(n) ==
  /\ wrapper \in [Wrapper -> Object \cup {None}]
  /\ \A w \in Pointing : wrapper[w].doc \in 1..n

\* More documents leave that true.
LEMMA PointAmongMore ==
  ASSUME NEW m \in Nat, NEW n \in Nat, m <= n, PointAmong(m)
  PROVE  PointAmong(n)
BY DEF PointAmong

\* An object handed out for one of them keeps it.
LEMMA HoldPoints ==
  ASSUME NEW n \in Nat, PointAmong(n), NEW kind \in Kind, NEW d \in 1..n, Hold(kind, d)
  PROVE  /\ wrapper' \in [Wrapper -> Object \cup {None}]
         /\ \A w \in Pointing' : wrapper'[w].doc \in 1..n
<1>1. CASE wrapper' = wrapper
  BY <1>1 DEF PointAmong, Pointing, Held
<1>2. ASSUME NEW w \in Wrapper, wrapper' = [wrapper EXCEPT ![w] = [kind |-> kind, doc |-> d]]
      PROVE  /\ wrapper' \in [Wrapper -> Object \cup {None}]
             /\ \A v \in Pointing' : wrapper'[v].doc \in 1..n
  <2>1. PICK o : o = [kind |-> kind, doc |-> d]
    OBVIOUS
  <2>2. o \in Object /\ o.doc = d
    BY <2>1 DEF Object
  <2>3. wrapper \in [Wrapper -> Object \cup {None}]
    BY DEF PointAmong
  <2>4. /\ wrapper' \in [Wrapper -> Object \cup {None}]
        /\ wrapper'[w] = o /\ \A v \in Wrapper : v # w => wrapper'[v] = wrapper[v]
    BY <1>2, <2>1, <2>2, <2>3
  <2>5. ASSUME NEW v \in Pointing' PROVE wrapper'[v].doc \in 1..n
    <3>1. v \in Wrapper /\ wrapper'[v] # None /\ wrapper'[v].doc # None
      BY DEF Pointing, Held
    <3>2. CASE v = w
      BY <2>2, <2>4, <3>2
    <3>3. CASE v # w
      <4>1. wrapper'[v] = wrapper[v]
        BY <2>4, <3>1, <3>3
      <4>2. v \in Pointing
        BY <3>1, <4>1 DEF Pointing, Held
      <4> QED BY <4>1, <4>2 DEF PointAmong
    <3> QED BY <3>2, <3>3
  <2> QED BY <2>4, <2>5
<1> QED BY <1>1, <1>2 DEF Hold

\* An object let go of, or that forgets its document, points at nothing.
LEMMA ForgetPoints ==
  ASSUME NEW n \in Nat, PointAmong(n), NEW w \in Wrapper, NEW o \in Object \cup {None},
         o # None => o.doc = None, wrapper' = [wrapper EXCEPT ![w] = o]
  PROVE  /\ wrapper' \in [Wrapper -> Object \cup {None}]
         /\ \A v \in Pointing' : wrapper'[v].doc \in 1..n
<1>1. wrapper \in [Wrapper -> Object \cup {None}]
  BY DEF PointAmong
<1>2. /\ wrapper' \in [Wrapper -> Object \cup {None}]
      /\ wrapper'[w] = o /\ \A v \in Wrapper : v # w => wrapper'[v] = wrapper[v]
  BY <1>1
<1>3. ASSUME NEW v \in Pointing' PROVE wrapper'[v].doc \in 1..n
  <2>1. v \in Wrapper /\ wrapper'[v] # None /\ wrapper'[v].doc # None
    BY DEF Pointing, Held
  <2>2. v # w
    BY <1>2, <2>1
  <2>3. wrapper'[v] = wrapper[v]
    BY <1>2, <2>1, <2>2
  <2>4. v \in Pointing
    BY <2>1, <2>3 DEF Pointing, Held
  <2> QED BY <2>3, <2>4 DEF PointAmong
<1> QED BY <1>2, <1>3

-----------------------------------------------------------------------------
(* The invariant.                                                           *)

\* It holds when the first process starts.
LEMMA StartsSound == Init => IInv
<1> SUFFICES ASSUME Init PROVE IInv
  OBVIOUS
<1>1. /\ docs = <<>> /\ active = 0 /\ doc = <<>> /\ file = [p \in Path |-> None] /\ journal = <<>>
      /\ nextSegment = 1 /\ closed = 0 /\ changes = 0 /\ drawn = 0
      /\ client \in {"agent", "com"} /\ wrapper = [w \in Wrapper |-> None]
  BY DEF Init, AppInit
<1>2. doc \in Documents /\ Len(doc) = 0 /\ DOMAIN doc = {}
  BY <1>1, EmptySeq DEF Documents
<1>3. docs \in Seq(Nat) /\ Len(docs) = 0 /\ IsInjective(docs)
  BY <1>1, EmptySeq DEF IsInjective
<1>4. Live = {} /\ Recording = {}
  BY <1>2 DEF Live, Recording
<1>5. LiveTally = 0
  <2>1. \A d \in 1..Len(doc) : doc[d] = Gone
    BY <1>2
  <2>2. Total(doc) = 0
    BY <1>2, <2>1, TotalOfNone
  <2> QED BY <2>2, LiveTallyIs
<1>6. DOMAIN journal = {}
  BY <1>1
<1>7. Typed
  BY <1>1, <1>2, <1>3, <1>6 DEF Typed, Documents
<1>8. Listed
  BY <1>1, <1>2, <1>3, ApplicationAssumption DEF Listed
<1>9. Recorded
  BY <1>1, <1>2, <1>4 DEF Recorded
<1>10. Counted
  BY <1>1, <1>5, ApplicationAssumption DEF Counted
<1>11. Pointed
  BY <1>1 DEF Pointed, Pointing, Held
<1>12. SavedMeansUnchanged
  BY <1>4 DEF SavedMeansUnchanged
<1> QED BY <1>7, <1>8, <1>9, <1>10, <1>11, <1>12 DEF IInv, Kept

\* createDocument and open, from whichever client.
LEMMA MakingKeeps ==
  ASSUME Kept, CreateDocument \/ \E p \in Path : Open(p)
  PROVE  /\ Kept' /\ Len(doc') \in {Len(doc), Len(doc) + 1}
         /\ \A e \in Live' : (e \in Live /\ doc'[e] = doc[e]) \/ doc'[e].held = doc'[e].kept
         /\ \A e \in Live : e \in Live'
<1>1. CASE CreateDocument
  <2>1. {} \in SUBSET Nat /\ None \in Path \cup {None} /\ New \in Path \cup {New}
    OBVIOUS
  <2>2. Enlist({}, None, New)
    BY <1>1 DEF CreateDocument
  <2> QED BY <2>1, <2>2, EnlistKeeps
<1>2. ASSUME NEW p \in Path, Open(p)
      PROVE  /\ Kept' /\ Len(doc') \in {Len(doc), Len(doc) + 1}
             /\ \A e \in Live' : (e \in Live /\ doc'[e] = doc[e]) \/ doc'[e].held = doc'[e].kept
             /\ \A e \in Live : e \in Live'
  <2>1. file[p] \in SUBSET Nat
    BY <1>2 DEF Open, Kept, Typed
  <2>2. p \in Path \cup {None} /\ p \in Path \cup {New}
    OBVIOUS
  <2>3. Enlist(file[p], p, p)
    BY <1>2 DEF Open
  <2> QED BY <2>1, <2>2, <2>3, EnlistKeeps
<1> QED BY <1>1, <1>2

\* "saved" is true of every document.
Truthful == \A d \in Live : doc[d].saved => doc[d].held = doc[d].kept

\* It stays true of the one that changes if it is made true of it.
LEMMA StaysTruthful ==
  ASSUME Kept, Truthful, NEW d \in Live, NEW y, Becomes(d, y), y.saved => y.held = y.kept
  PROVE  Truthful'
<1>1. /\ doc'[d] = y /\ Live' = Live
      /\ \A e \in 1..Len(doc) : e # d => doc'[e] = doc[e]
  BY OneBecomes DEF Kept
<1>2. \A e \in Live : e \in 1..Len(doc)
  BY ThoseThere DEF Kept
<1> QED BY <1>1, <1>2 DEF Truthful

\* The document a session's operations are about is there.
LEMMA ActiveIsThere ==
  ASSUME Kept, Active # None
  PROVE  Active \in Live
<1>1. docs # <<>> /\ Active = docs[active + 1]
  BY DEF Active
<1>2. active < Len(docs) /\ active \in Nat /\ Len(docs) \in Nat
  BY <1>1, LenProperties DEF Kept, Listed, Typed
<1>3. active + 1 \in 1..Len(docs)
  BY <1>2
<1> QED BY <1>1, <1>3 DEF Kept, Listed

\* What a session does keeps the documents in order, and their flags true.
LEMMA AgentKeeps ==
  ASSUME Kept, Truthful, Agent
  PROVE  Kept' /\ Truthful'
<1>1. CASE CreateDocument \/ \E p \in Path : Open(p)
  <2>1. /\ Kept'
        /\ \A e \in Live' : (e \in Live /\ doc'[e] = doc[e]) \/ doc'[e].held = doc'[e].kept
    BY <1>1, MakingKeeps
  <2> QED BY <2>1 DEF Truthful
<1>2. ASSUME Active # None, NEW d, d = Active,
             \/ Paint(d) \/ LayerOp(d) \/ Undo(d) \/ Redo(d)
             \/ \E p \in Path, ok \in BOOLEAN : SaveAs(d, p, ok)
             \/ \E save, ok \in BOOLEAN : CloseDocument(d, save, ok)
      PROVE  Kept' /\ Truthful'
  <2>1. d \in Live
    BY <1>2, ActiveIsThere
  <2>2. ASSUME Kept', Becomes(d, doc'[d]), ~doc'[d].saved PROVE Kept' /\ Truthful'
    BY <2>1, <2>2, StaysTruthful
  <2>3. CASE Paint(d)
    BY <2>1, <2>2, <2>3, PaintKeeps
  <2>4. CASE LayerOp(d)
    BY <2>1, <2>2, <2>4, LayerOpKeeps
  <2>5. CASE Undo(d)
    BY <2>1, <2>2, <2>5, UndoKeeps
  <2>6. CASE Redo(d)
    BY <2>1, <2>2, <2>6, RedoKeeps
  <2>7. ASSUME NEW p \in Path, NEW ok \in BOOLEAN, SaveAs(d, p, ok) PROVE Kept' /\ Truthful'
    <3>1. /\ Kept'
          /\ ok => Becomes(d, doc'[d]) /\ doc'[d].held = doc'[d].kept
          /\ ~ok => doc' = doc
      BY <2>1, <2>7, SaveAsKeeps
    <3>2. CASE ok
      BY <2>1, <3>1, <3>2, StaysTruthful
    <3>3. CASE ~ok
      BY <3>1, <3>3 DEF Truthful, Live
    <3> QED BY <3>2, <3>3
  <2>8. ASSUME NEW save \in BOOLEAN, NEW ok \in BOOLEAN, CloseDocument(d, save, ok)
        PROVE  Kept' /\ Truthful'
    <3>1. Kept' /\ \A e \in Live' : e \in Live /\ doc'[e] = doc[e]
      BY <2>1, <2>8, CloseDocumentKeeps
    <3> QED BY <3>1 DEF Truthful
  <2> QED BY <1>2, <2>3, <2>4, <2>5, <2>6, <2>7, <2>8
<1> QED BY <1>1, <1>2 DEF Agent

\* The documents there are stay, and their number does not shrink.
Grows == Len(doc) \in Nat /\ Len(doc') \in Nat /\ Len(doc) <= Len(doc') /\ \A d \in Live : d \in Live'

\* A call on a document that is there keeps what is recorded and destroys nothing.
LEMMA BecomingGrows ==
  ASSUME Kept, NEW d, NEW y, Becomes(d, y)
  PROVE  Grows
<1>1. Len(doc') = Len(doc) /\ Len(doc') \in Nat /\ Live' = Live
  BY OneBecomes DEF Kept
<1> QED BY <1>1 DEF Grows

\* ... and so does one that leaves the documents alone.
LEMMA StayingGrows ==
  ASSUME Kept, doc' = doc
  PROVE  Grows
<1>1. Len(doc) \in Nat
  BY ThoseThere DEF Kept
<1> QED BY <1>1 DEF Grows, Live

\* An object that names a document that is there.
LEMMA UsableIsThere ==
  ASSUME Kept, Pointed, NEW w \in Usable
  PROVE  /\ w \in Wrapper /\ wrapper[w] \in Object /\ wrapper[w].doc \in Live
         /\ wrapper[w].doc \in 1..Len(doc)
<1>1. w \in Pointing /\ w \in Wrapper /\ wrapper[w] # None /\ doc[wrapper[w].doc].live
  BY DEF Usable, Pointing, Held
<1>2. wrapper[w] \in Object
  BY <1>1 DEF Pointed
<1>3. wrapper[w].doc \in 1..Len(doc)
  BY <1>1 DEF Pointed
<1>4. wrapper[w].doc \in Live
  BY <1>1, <1>3, ThoseThere DEF Kept, Live
<1> QED BY <1>1, <1>2, <1>3, <1>4

\* A script's objects go on pointing at documents that were made.
LEMMA StillPoint ==
  ASSUME Kept, Pointed, client = "com", UNCHANGED client, Grows, UNCHANGED wrapper
  PROVE  Pointed'
<1>1. Pointing' = Pointing
  BY DEF Pointing, Held
<1>2. \A n \in 1..Len(doc) : n \in 1..Len(doc')
  BY DEF Grows
<1> QED BY <1>1, <1>2 DEF Pointed

\* One is handed out for a document that is there after the call.
LEMMA HandsOut ==
  ASSUME Kept, Pointed, client = "com", UNCHANGED client, Grows,
         NEW kind \in Kind, NEW d \in 1..Len(doc'), Hold(kind, d)
  PROVE  Pointed'
<1>1. PICK m \in Nat, n \in Nat : m = Len(doc) /\ n = Len(doc') /\ m <= n
  BY DEF Grows
<1>2. PointAmong(m)
  BY <1>1 DEF Pointed, PointAmong
<1>3. PointAmong(n)
  BY <1>1, <1>2, PointAmongMore
<1>4. d \in 1..n
  BY <1>1
<1>5. /\ wrapper' \in [Wrapper -> Object \cup {None}]
      /\ \A w \in Pointing' : wrapper'[w].doc \in 1..n
  BY <1>3, <1>4, HoldPoints
<1> QED BY <1>1, <1>5 DEF Pointed

\* One is let go of, or forgets its document.
LEMMA Forgets ==
  ASSUME Kept, Pointed, client = "com", UNCHANGED client, Grows,
         NEW w \in Wrapper, NEW o \in Object \cup {None}, o # None => o.doc = None,
         wrapper' = [wrapper EXCEPT ![w] = o]
  PROVE  Pointed'
<1>1. PICK m \in Nat, n \in Nat : m = Len(doc) /\ n = Len(doc') /\ m <= n
  BY DEF Grows
<1>2. PointAmong(m)
  BY <1>1 DEF Pointed, PointAmong
<1>3. PointAmong(n)
  BY <1>1, <1>2, PointAmongMore
<1>4. /\ wrapper' \in [Wrapper -> Object \cup {None}]
      /\ \A v \in Pointing' : wrapper'[v].doc \in 1..n
  BY <1>3, ForgetPoints
<1> QED BY <1>1, <1>4 DEF Pointed

\* What a call of a script owes.
Served == Kept' /\ Pointed' /\ (ComQuit \/ Grows)

\* Calls that make or find a document.
LEMMA FindingServes ==
  ASSUME Kept, Pointed, client = "com", UNCHANGED client,
         ComMake \/ ComItem \/ ComActive
  PROVE  Served
<1>1. CASE ComMake
  <2>1. /\ Kept' /\ Len(doc') \in {Len(doc), Len(doc) + 1}
        /\ \A e \in Live : e \in Live'
    BY <1>1, MakingKeeps DEF ComMake
  <2>2. Len(doc) \in Nat
    BY ThoseThere DEF Kept
  <2>3. Grows
    BY <2>1, <2>2 DEF Grows
  <2>4. CASE Len(doc') > Len(doc)
    <3>1. Hold("document", Len(doc'))
      BY <1>1, <2>4 DEF ComMake, Handed
    <3>2. Len(doc') \in 1..Len(doc') /\ "document" \in Kind
      BY <2>2, <2>3, <2>4 DEF Grows, Kind
    <3>3. Pointed'
      BY <2>3, <3>1, <3>2, HandsOut
    <3> QED BY <2>1, <2>3, <3>3 DEF Served
  <2>5. CASE ~(Len(doc') > Len(doc))
    <3>1. UNCHANGED wrapper
      BY <1>1, <2>5 DEF ComMake, Handed
    <3>2. Pointed'
      BY <2>3, <3>1, StillPoint
    <3> QED BY <2>1, <2>3, <3>2 DEF Served
  <2> QED BY <2>4, <2>5
<1>2. ASSUME NEW d \in Live, Hold("document", d), UNCHANGED appVars PROVE Served
  <2>1. UNCHANGED <<doc, docs, active, journal, nextSegment, closed, changes, drawn, file>>
    BY <1>2 DEF appVars
  <2>2. file' \in [Path -> (SUBSET Nat) \cup {None, Cut}]
    BY <2>1 DEF Kept, Typed
  <2>3. Kept'
    BY <2>1, <2>2, FilesAlone
  <2>4. Grows
    BY <2>1, StayingGrows
  <2>5. d \in 1..Len(doc') /\ "document" \in Kind
    BY <2>1, ThoseThere DEF Kept, Kind
  <2>6. Pointed'
    BY <1>2, <2>4, <2>5, HandsOut
  <2> QED BY <2>3, <2>4, <2>6 DEF Served
<1>3. CASE ComItem
  <2>1. PICK i \in DOMAIN docs : Hold("document", docs[i])
    BY <1>3 DEF ComItem
  <2>2. i \in 1..Len(docs)
    BY LenProperties DEF Kept, Typed
  <2>3. docs[i] \in Live
    BY <2>2 DEF Kept, Listed
  <2> QED BY <1>2, <1>3, <2>1, <2>3 DEF ComItem
<1>4. CASE ComActive
  BY <1>2, <1>4, ActiveIsThere DEF ComActive
<1> QED BY <1>1, <1>3, <1>4

\* Calls that hand out a part of a document, and letting go.
LEMMA PartsServe ==
  ASSUME Kept, Pointed, client = "com", UNCHANGED client,
         ComLayers \/ ComLayer \/ ComSelection \/ Release
  PROVE  Served
<1>1. UNCHANGED appVars
  BY DEF ComLayers, ComLayer, ComSelection, Release, Part
<1>2. UNCHANGED <<doc, docs, active, journal, nextSegment, closed, changes, drawn, file>>
  BY <1>1 DEF appVars
<1>3. file' \in [Path -> (SUBSET Nat) \cup {None, Cut}]
  BY <1>2 DEF Kept, Typed
<1>4. Kept'
  BY <1>2, <1>3, FilesAlone
<1>5. Grows
  BY <1>2, StayingGrows
<1>6. ASSUME NEW from, NEW kind \in Kind, Part(from, kind) PROVE Pointed'
  <2>1. PICK w \in Usable : Hold(kind, wrapper[w].doc)
    BY <1>6 DEF Part
  <2>2. PICK d : d = wrapper[w].doc
    OBVIOUS
  <2>3. d \in 1..Len(doc')
    BY <1>2, <2>2, UsableIsThere
  <2> QED BY <1>5, <2>1, <2>2, <2>3, HandsOut
<1>7. CASE Release
  <2>1. PICK w \in Held : wrapper' = [wrapper EXCEPT ![w] = None]
    BY <1>7 DEF Release
  <2>2. w \in Wrapper /\ None \in Object \cup {None}
    BY DEF Held
  <2>3. PICK o \in Object \cup {None} : o = None
    OBVIOUS
  <2>4. Pointed'
    BY <1>5, <2>1, <2>2, <2>3, Forgets
  <2> QED BY <1>4, <1>5, <2>4 DEF Served
<1>8. "layers" \in Kind /\ "layer" \in Kind /\ "selection" \in Kind
  BY DEF Kind
<1>9. CASE ComLayers \/ ComLayer \/ ComSelection
  <2>1. Pointed'
    BY <1>6, <1>8, <1>9 DEF ComLayers, ComLayer, ComSelection
  <2> QED BY <1>4, <1>5, <2>1 DEF Served
<1> QED BY <1>7, <1>9

\* Calls on a document, made through an object that points at it.
LEMMA CallsServe ==
  ASSUME Kept, Pointed, client = "com", UNCHANGED client, NEW w \in Usable,
         \/ ComListOp(w) \/ ComPut(w) \/ ComActivate(w)
         \/ ComImportPixels(w) \/ ComLayerImport(w)
         \/ ComUndo(w) \/ ComRedo(w) \/ ComSaveAs(w) \/ ComClose(w)
  PROVE  Served
<1>1. PICK d : d = wrapper[w].doc
  OBVIOUS
<1>2. w \in Wrapper /\ wrapper[w] \in Object /\ d \in Live /\ d \in 1..Len(doc)
  BY <1>1, UsableIsThere
<1>3. ASSUME Kept', Becomes(d, doc'[d]), UNCHANGED wrapper PROVE Served
  <2>1. Grows
    BY <1>3, BecomingGrows
  <2>2. Pointed'
    BY <1>3, <2>1, StillPoint
  <2> QED BY <1>3, <2>1, <2>2 DEF Served
<1>4. ASSUME Kept', Becomes(d, doc'[d]), Hold("layer", d) PROVE Served
  <2>1. Grows
    BY <1>4, BecomingGrows
  <2>2. d \in 1..Len(doc') /\ "layer" \in Kind
    BY <1>2, <2>1 DEF Grows, Kind
  <2>3. Pointed'
    BY <1>4, <2>1, <2>2, HandsOut
  <2> QED BY <1>4, <2>1, <2>3 DEF Served
<1>5. ASSUME TreeChange(d), UNCHANGED wrapper \/ Hold("layer", d) PROVE Served
  BY <1>2, <1>3, <1>4, <1>5, TreeChangeKeeps
<1>6. ASSUME ImportPixels(d), UNCHANGED wrapper \/ Hold("layer", d) PROVE Served
  BY <1>2, <1>3, <1>4, <1>6, ImportPixelsKeeps
<1>7. CASE ComListOp(w) \/ ComPut(w) \/ ComActivate(w)
  BY <1>1, <1>5, <1>7 DEF ComListOp, ComPut, ComActivate
<1>8. CASE ComImportPixels(w) \/ ComLayerImport(w)
  BY <1>1, <1>6, <1>8 DEF ComImportPixels, ComLayerImport
<1>9. CASE ComUndo(w)
  BY <1>1, <1>2, <1>3, <1>9, UndoKeeps DEF ComUndo
<1>10. CASE ComRedo(w)
  BY <1>1, <1>2, <1>3, <1>10, RedoKeeps DEF ComRedo
<1>11. CASE ComSaveAs(w)
  <2>1. PICK p \in Path, ok \in BOOLEAN : SaveAs(d, p, ok)
    BY <1>1, <1>11 DEF ComSaveAs
  <2>2. UNCHANGED wrapper
    BY <1>11 DEF ComSaveAs
  <2>3. Kept' /\ (ok => Becomes(d, doc'[d])) /\ (~ok => doc' = doc)
    BY <1>2, <2>1, SaveAsKeeps
  <2>4. CASE ok
    BY <1>3, <2>2, <2>3, <2>4
  <2>5. CASE ~ok
    <3>1. Grows
      BY <2>3, <2>5, StayingGrows
    <3>2. Pointed'
      BY <2>2, <3>1, StillPoint
    <3> QED BY <2>3, <3>1, <3>2 DEF Served
  <2> QED BY <2>4, <2>5
<1>12. CASE ComClose(w)
  <2>1. PICK save \in BOOLEAN, ok \in BOOLEAN :
          /\ CloseInPlace(d, save, ok)
          /\ wrapper' = IF doc' # doc \/ doc[d].closed
                        THEN [wrapper EXCEPT ![w].doc = None] ELSE wrapper
    BY <1>1, <1>12 DEF ComClose
  <2>2. Kept' /\ Len(doc') = Len(doc) /\ Live' = Live
    BY <1>2, <2>1, CloseInPlaceKeeps
  <2>3. Grows
    BY <2>2, ThoseThere DEF Grows, Kept
  <2>4. CASE wrapper' = wrapper
    <3>1. Pointed'
      BY <2>3, <2>4, StillPoint
    <3> QED BY <2>2, <2>3, <3>1 DEF Served
  <2>5. CASE wrapper' = [wrapper EXCEPT ![w].doc = None]
    <3>1. PICK o : o = [wrapper[w] EXCEPT !.doc = None]
      OBVIOUS
    <3>2. o \in Object /\ o.doc = None
      BY <1>2, <3>1 DEF Object
    <3>3. wrapper' = [wrapper EXCEPT ![w] = o]
      BY <2>5, <3>1
    <3>4. o \in Object \cup {None} /\ (o # None => o.doc = None)
      BY <3>2
    <3>5. Pointed'
      BY <1>2, <2>3, <3>3, <3>4, Forgets
    <3> QED BY <2>2, <2>3, <3>5 DEF Served
  <2> QED BY <2>1, <2>4, <2>5
<1> QED BY <1>7, <1>8, <1>9, <1>10, <1>11, <1>12

\* Every call of a script.
LEMMA ScriptServes ==
  ASSUME Kept, Pointed, Script
  PROVE  Served
<1>1. client = "com" /\ UNCHANGED client
  BY DEF Script
<1>2. CASE ComQuit
  <2>1. Kept' /\ Len(doc') = Len(doc)
    BY <1>2, QuitKeeps DEF ComQuit
  <2>2. Pointing' = Pointing /\ UNCHANGED wrapper
    BY <1>2 DEF ComQuit, Pointing, Held
  <2>3. Pointed'
    BY <1>1, <2>1, <2>2 DEF Pointed
  <2> QED BY <1>2, <2>1, <2>3 DEF Served
<1>3. CASE ComMake \/ ComItem \/ ComActive
  BY <1>1, <1>3, FindingServes
<1>4. CASE ComLayers \/ ComLayer \/ ComSelection \/ Release
  BY <1>1, <1>4, PartsServe
<1>5. ASSUME NEW w \in Usable,
             \/ ComListOp(w) \/ ComPut(w) \/ ComActivate(w)
             \/ ComImportPixels(w) \/ ComLayerImport(w)
             \/ ComUndo(w) \/ ComRedo(w) \/ ComSaveAs(w) \/ ComClose(w)
      PROVE  Served
  BY <1>1, <1>5, CallsServe
<1> QED BY <1>2, <1>3, <1>4, <1>5 DEF Script

\* Every step keeps the invariant.
LEMMA StepsKeep == IInv /\ [Next]_vars => IInv'
<1> SUFFICES ASSUME IInv, [Next]_vars PROVE IInv'
  OBVIOUS
<1> USE DEF IInv
<1>1. CASE Agent
  <2>1. client = "agent" /\ UNCHANGED <<client, wrapper>>
    BY <1>1 DEF Agent
  <2>2. Truthful
    BY <2>1 DEF SavedMeansUnchanged, Truthful
  <2>3. Kept' /\ Truthful'
    BY <1>1, <2>2, AgentKeeps
  <2>4. Pointed'
    <3>1. Held = {} /\ Pointing = {} /\ Held' = {} /\ Pointing' = {}
      BY <2>1 DEF Pointed, Pointing, Held
    <3> QED BY <2>1, <3>1 DEF Pointed
  <2>5. SavedMeansUnchanged'
    BY <2>3 DEF SavedMeansUnchanged, Truthful
  <2> QED BY <2>3, <2>4, <2>5
<1>2. CASE Script
  <2>1. Kept' /\ Pointed'
    BY <1>2, ScriptServes DEF Served
  <2>2. client' = "com"
    BY <1>2 DEF Script
  <2>3. SavedMeansUnchanged'
    BY <2>2 DEF SavedMeansUnchanged
  <2> QED BY <2>1, <2>3
<1>3. CASE Crash
  <2>1. wrapper' = [w \in Wrapper |-> None] /\ UNCHANGED client
    BY <1>3 DEF Crash
  <2>2. Kept' /\ Live' = {}
    BY <1>3, RestartKeeps DEF Crash
  <2>3. Held' = {} /\ Pointing' = {}
    BY <2>1 DEF Held, Pointing
  <2>4. Pointed'
    BY <2>1, <2>3 DEF Pointed
  <2>5. SavedMeansUnchanged'
    BY <2>2 DEF SavedMeansUnchanged
  <2> QED BY <2>2, <2>4, <2>5
<1>4. CASE UNCHANGED vars
  <2>1. UNCHANGED <<doc, docs, active, journal, nextSegment, closed, changes, drawn, file, client, wrapper>>
    BY <1>4 DEF vars
  <2>2. file' \in [Path -> (SUBSET Nat) \cup {None, Cut}]
    BY <2>1 DEF Kept, Typed
  <2>3. Kept'
    BY <2>1, <2>2, FilesAlone
  <2>4. Held' = Held /\ Pointing' = Pointing /\ Live' = Live
    BY <2>1 DEF Held, Pointing, Live
  <2>5. Pointed' /\ SavedMeansUnchanged'
    BY <2>1, <2>4 DEF Pointed, SavedMeansUnchanged
  <2> QED BY <2>3, <2>5
<1> QED BY <1>1, <1>2, <1>3, <1>4 DEF Next

-----------------------------------------------------------------------------
(* The files of journals.                                                   *)

\* Fresh: until a process crashes, no file has a number that is still to be given out.
Fresh ==
  /\ restarts \in Nat
  /\ restarts = 0 => \A n \in DOMAIN journal : n[2] < nextSegment

\* Every journal there is begins what becomes of it.
Begun == \A n \in DOMAIN journal : n \in DOMAIN journal' /\ IsPrefix(journal[n], journal'[n])

\* Preserves: what a step that is no crash does with them.
Preserves == Fresh' /\ (restarts = 0 => Begun)

\* A sequence begins itself and what is appended to it.
LEMMA BeginsBoth ==
  ASSUME NEW q \in Seq(Nat), NEW e \in Nat
  PROVE  IsPrefix(q, q) /\ IsPrefix(q, Append(q, e))
<1>0. PICK l \in Nat : l = Len(q)
  BY LenProperties
<1>1. PICK w : l = Len(q) /\ w = Append(q, e)
  BY <1>0
<1>2. w = q \o <<e>> /\ <<e>> \in Seq(Nat) /\ Len(w) = l + 1
  BY <1>1, AppendIsConcat, AppendProperties
<1>3. SubSeq(w, 1, l) = SubSeq(q, 1, l)
  <2>1. 1 \in 1..l + 1 /\ l \in (1 - 1)..l
    OBVIOUS
  <2> QED BY <1>1, <1>2, <2>1, SubSeqOfConcat1
<1>4. IsPrefix(q, q)
  BY <1>1 DEF IsPrefix
<1>5. IsPrefix(q, w)
  BY <1>1, <1>2, <1>3 DEF IsPrefix
<1> QED BY <1>1, <1>4, <1>5

\* A step that leaves the files alone.
LEMMA FilesLeft ==
  ASSUME Kept, Fresh, UNCHANGED <<journal, nextSegment, restarts>>
  PROVE  Preserves
<1>1. Fresh'
  BY DEF Fresh
<1>2. \A n \in DOMAIN journal : journal[n] \in Seq(Nat)
  BY DEF Kept, Typed
<1>3. Begun
  BY <1>2, BeginsBoth DEF Begun
<1> QED BY <1>1, <1>3 DEF Preserves

\* A recorder that writes.
LEMMA PaintPreserves ==
  ASSUME Kept, Fresh, NEW d \in Live, Paint(d)
  PROVE  Preserves
<1>1. PICK c, x, n : c = changes + 1 /\ x = doc[d] /\ n = x.journal
  OBVIOUS
<1>2. /\ journal' = [journal EXCEPT ![n] = Append(journal[n], c)]
      /\ UNCHANGED <<nextSegment, restarts>>
  BY <1>1 DEF Paint, Change
<1>3. c \in Nat /\ \A k \in DOMAIN journal : journal[k] \in Seq(Nat)
  BY <1>1 DEF Kept, Typed
<1>4. DOMAIN journal' = DOMAIN journal
  BY <1>2
<1>5. Fresh'
  BY <1>2, <1>4 DEF Fresh
<1>6. ASSUME NEW k \in DOMAIN journal PROVE IsPrefix(journal[k], journal'[k])
  <2>1. CASE k = n
    <3>1. journal'[k] = Append(journal[k], c)
      BY <1>2, <2>1
    <3> QED BY <1>3, <3>1, BeginsBoth
  <2>2. CASE k # n
    <3>1. journal'[k] = journal[k]
      BY <1>2, <2>2
    <3> QED BY <1>3, <3>1, BeginsBoth
  <2> QED BY <2>1, <2>2
<1>7. Begun
  BY <1>4, <1>6 DEF Begun
<1> QED BY <1>5, <1>7 DEF Preserves

\* A recorder that is opened takes the next number.
LEMMA EnlistPreserves ==
  ASSUME Kept, Fresh, NEW list, NEW path, NEW tag, Enlist(list, path, tag)
  PROVE  Preserves
<1>1. nextSegment' = nextSegment + 1 /\ UNCHANGED restarts /\ nextSegment \in Nat
  BY DEF Enlist, Kept, Typed
<1>2. \A k \in DOMAIN journal : journal[k] \in Seq(Nat) /\ k \in JournalName
  BY DEF Kept, Typed
<1>3. \A k \in DOMAIN journal : k[2] \in Nat
  BY <1>2 DEF JournalName
<1>4. CASE UNCHANGED journal
  <2>1. Fresh'
    BY <1>1, <1>3, <1>4 DEF Fresh
  <2>2. Begun
    BY <1>2, <1>4, BeginsBoth DEF Begun
  <2> QED BY <2>1, <2>2 DEF Preserves
<1>5. CASE journal' = Opened(NameOf(tag, nextSegment))
  <2>1. PICK n : n = <<tag, nextSegment>> /\ n[2] = nextSegment
    <3>1. <<tag, nextSegment>>[2] = nextSegment
      OBVIOUS
    <3> QED BY <3>1
  <2>2. journal' = [k \in DOMAIN journal \cup {n} |-> IF k = n THEN <<>> ELSE journal[k]]
    BY <1>5, <2>1 DEF Opened, NameOf
  <2>3. DOMAIN journal' = DOMAIN journal \cup {n}
    BY <2>2
  <2>4. Fresh'
    <3>1. restarts = 0 => \A k \in DOMAIN journal \cup {n} : k[2] < nextSegment + 1
      BY <1>1, <1>3, <2>1 DEF Fresh
    <3> QED BY <1>1, <2>3, <3>1 DEF Fresh
  <2>5. ASSUME restarts = 0, NEW k \in DOMAIN journal PROVE IsPrefix(journal[k], journal'[k])
    <3>1. k # n
      BY <1>1, <2>1, <2>5 DEF Fresh
    <3>2. journal'[k] = journal[k]
      BY <2>2, <3>1
    <3> QED BY <1>2, <3>2, BeginsBoth
  <2>6. restarts = 0 => Begun
    BY <2>3, <2>5 DEF Begun
  <2> QED BY <2>4, <2>6 DEF Preserves
<1> QED BY <1>4, <1>5 DEF Enlist

\* A session's calls, and among them those that open and draw.
LEMMA AgentPreserves ==
  ASSUME Kept, Fresh, Agent
  PROVE  Preserves
<1>1. CASE CreateDocument \/ \E p \in Path : Open(p)
  BY <1>1, EnlistPreserves DEF CreateDocument, Open
<1>2. ASSUME Active # None, Paint(Active) PROVE Preserves
  BY <1>2, ActiveIsThere, PaintPreserves
<1>3. ASSUME NEW d, LayerOp(d) \/ Undo(d) \/ Redo(d) PROVE Preserves
  <2>1. UNCHANGED <<journal, nextSegment, restarts>>
    BY <1>3 DEF LayerOp, Undo, Redo, Change
  <2> QED BY <2>1, FilesLeft
<1>4. ASSUME NEW d, NEW p, NEW save, NEW ok, SaveAs(d, p, ok) \/ CloseDocument(d, save, ok)
      PROVE  Preserves
  <2>1. UNCHANGED <<journal, nextSegment, restarts>>
    BY <1>4 DEF SaveAs, CloseDocument
  <2> QED BY <2>1, FilesLeft
<1> QED BY <1>1, <1>2, <1>3, <1>4 DEF Agent

\* A script's calls, of which none draws.
LEMMA ScriptPreserves ==
  ASSUME Kept, Fresh, Script
  PROVE  Preserves
<1>1. CASE ComMake
  BY <1>1, EnlistPreserves DEF ComMake, CreateDocument, Open
<1>2. CASE ComItem \/ ComActive \/ ComLayers \/ ComLayer \/ ComSelection \/ Release
  <2>1. UNCHANGED appVars
    BY <1>2 DEF ComItem, ComActive, ComLayers, ComLayer, ComSelection, Release, Part
  <2>2. UNCHANGED <<journal, nextSegment, restarts>>
    BY <2>1 DEF appVars
  <2> QED BY <2>2, FilesLeft
<1>3. CASE ComQuit
  <2>1. UNCHANGED <<journal, nextSegment, restarts>>
    BY <1>3 DEF ComQuit, Quit
  <2> QED BY <2>1, FilesLeft
<1>4. ASSUME NEW w, ComListOp(w) \/ ComPut(w) \/ ComActivate(w) PROVE Preserves
  <2>1. UNCHANGED <<journal, nextSegment, restarts>>
    BY <1>4 DEF ComListOp, ComPut, ComActivate, TreeChange, Change
  <2> QED BY <2>1, FilesLeft
<1>5. ASSUME NEW w, ComImportPixels(w) \/ ComLayerImport(w) \/ ComUndo(w) \/ ComRedo(w)
      PROVE  Preserves
  <2>1. UNCHANGED <<journal, nextSegment, restarts>>
    BY <1>5 DEF ComImportPixels, ComLayerImport, ComUndo, ComRedo, ImportPixels, Undo, Redo, Change
  <2> QED BY <2>1, FilesLeft
<1>6. ASSUME NEW w, ComSaveAs(w) \/ ComClose(w) PROVE Preserves
  <2>1. UNCHANGED <<journal, nextSegment, restarts>>
    BY <1>6 DEF ComSaveAs, ComClose, SaveAs, CloseInPlace
  <2> QED BY <2>1, FilesLeft
<1> QED BY <1>1, <1>2, <1>3, <1>4, <1>5, <1>6 DEF Script

\* Every step keeps Fresh, and the files as long as there was no crash.
LEMMA StepsPreserve ==
  ASSUME Kept, Fresh, [Next]_vars
  PROVE  Preserves
<1>1. CASE Crash
  <2>1. restarts' = restarts + 1 /\ UNCHANGED journal
    BY <1>1 DEF Crash, Restart
  <2>2. Fresh'
    BY <2>1 DEF Fresh
  <2>3. Begun
    BY <2>1, BeginsBoth DEF Begun, Kept, Typed
  <2> QED BY <2>2, <2>3 DEF Preserves
<1>2. CASE UNCHANGED vars
  <2>1. UNCHANGED <<journal, nextSegment, restarts>>
    BY <1>2 DEF vars
  <2> QED BY <2>1, FilesLeft
<1> QED BY <1>1, <1>2, AgentPreserves, ScriptPreserves DEF Next

-----------------------------------------------------------------------------
(* Theorems.                                                                *)

\* The inductive invariant holds.
LEMMA Sound == Spec => []IInv
BY StartsSound, StepsKeep, PTL DEF Spec

\* What the invariant says of the list, the objects and the names.
LEMMA TypeOKFollows == IInv => TypeOK
<1> SUFFICES ASSUME IInv PROVE TypeOK
  OBVIOUS
<1> USE DEF IInv, Kept
<1>1. DOMAIN docs = 1..Len(docs) /\ Len(docs) \in Nat
  BY LenProperties DEF Typed
<1>2. \A i \in DOMAIN docs : doc[docs[i]].live
  BY <1>1 DEF Listed, Live
<1>3. active \in 0..MaxDocs /\ (docs # <<>> => active < Len(docs))
  <2>1. PICK a \in Nat, k \in Nat, l \in Nat : a = active /\ k = Len(docs) /\ l = Len(doc)
    BY <1>1, ThoseThere DEF Typed
  <2>2. a <= k /\ k <= l /\ l <= MaxDocs /\ MaxDocs \in Nat /\ (docs # <<>> => active < Len(docs))
    BY <2>1, ApplicationAssumption DEF Listed
  <2> QED BY <2>1, <2>2
<1>4. /\ {doc[d].journal : d \in Recording} \subseteq DOMAIN journal
      /\ \A d, e \in Recording : d # e => doc[d].journal # doc[e].journal
  BY DEF Recorded
<1>5. \A w \in Pointing : wrapper[w].kind \in Kind
  <2> TAKE w \in Pointing
  <2>1. wrapper[w] \in Object
    BY DEF Pointed, Pointing, Held
  <2> QED BY <2>1 DEF Object
<1>6. closed \in 0..MaxChanges
  <2>1. Total(doc) \in Nat
    BY ThoseThere, TotalIsNumber
  <2>2. PICK t \in Nat : t = LiveTally
    BY <2>1, LiveTallyIs
  <2>3. closed \in Nat /\ changes \in Nat /\ drawn \in Nat /\ MaxChanges \in Nat
    BY ApplicationAssumption DEF Typed
  <2>4. closed + t = drawn /\ drawn <= changes /\ changes <= MaxChanges
    BY <2>2 DEF Counted
  <2> QED BY <2>3, <2>4
<1> QED BY <1>2, <1>3, <1>4, <1>5, <1>6 DEF TypeOK, Listed, Recorded

\* The types: the list names documents that are there, none twice, and the active
\* one is on it; no two documents write the same journal (application.cpp,
\* openForDocument in sigan_recorder.cpp).
THEOREM TypesAreKept == Spec => []TypeOK
BY Sound, TypeOKFollows, PTL

\* The journal of a document being recorded holds that document's operations and
\* no others, and the total over open and closed documents is what the process
\* recorded, however documents were opened, closed, or lost with a crash
\* (openForDocument, onRegionOp, retire and totalTally of sigan_recorder.cpp).
THEOREM JournalsAgree == Spec => []JournalsMatchTallies
<1>1. IInv => JournalsMatchTallies
  BY TypeOKFollows DEF IInv, Kept, JournalsMatchTallies, Recorded, Counted
<1> QED BY <1>1, Sound, PTL

\* Until a process crashes, no journal gets shorter or is written over, not even
\* one whose document is closed or destroyed (openForDocument of sigan_recorder.cpp,
\* create of journal.cpp).
THEOREM RecordsStay == Spec => OwnJournalsOnlyGrow
<1>1. Init => Fresh
  BY DEF Init, AppInit, Fresh
<1>2. IInv /\ Fresh /\ [Next]_vars => Fresh'
  BY StepsPreserve DEF IInv, Preserves
<1>3. Spec => []Fresh
  BY <1>1, <1>2, Sound, PTL DEF Spec
<1>4. ASSUME IInv, Fresh, [Next]_vars
      PROVE  [restarts = 0 => \A n \in DOMAIN journal :
                n \in DOMAIN journal' /\ IsPrefix(journal[n], journal'[n])]_vars
  BY <1>4, StepsPreserve DEF IInv, Preserves, Begun
<1> QED BY <1>3, <1>4, Sound, PTL DEF Spec, OwnJournalsOnlyGrow

\* In a process with a session, a document that calls itself saved holds what it
\* read from its file or wrote to it last (markDirty, undo, redo, save and close
\* of document.cpp).
THEOREM SavedIsTrue == Spec => []SavedMeansUnchanged
<1>1. IInv => SavedMeansUnchanged
  BY DEF IInv
<1> QED BY <1>1, Sound, PTL

\* A document that COM objects point at is destroyed by Quit alone, whatever the
\* script has closed (IMariDocument::Close against Application::closeDocument).
THEOREM NothingDangles == Spec => PointersStayGood
<1>1. ASSUME IInv, [Next]_vars
      PROVE  [ComQuit \/ \A w \in Usable : wrapper'[w] = wrapper[w] => doc'[wrapper[w].doc].live]_vars
  <2> USE <1>1 DEF IInv
  <2>1. CASE Agent
    <3>1. Usable = {}
      BY <2>1 DEF Agent, Pointed, Usable, Pointing
    <3> QED BY <3>1
  <2>2. CASE Script
    <3>1. ComQuit \/ Grows
      BY <2>2, ScriptServes DEF Served
    <3>2. ASSUME Grows, NEW w \in Usable PROVE doc'[wrapper[w].doc].live
      <4>1. wrapper[w].doc \in Live
        BY UsableIsThere
      <4> QED BY <3>2, <4>1 DEF Grows, Live
    <3> QED BY <3>1, <3>2
  <2>3. CASE Crash
    <3>1. ASSUME NEW w \in Usable PROVE wrapper'[w] # wrapper[w]
      BY <2>3 DEF Crash, Usable, Pointing, Held
    <3> QED BY <3>1
  <2>4. CASE UNCHANGED vars
    BY <2>4
  <2> QED BY <1>1, <2>1, <2>2, <2>3, <2>4 DEF Next
<1> QED BY <1>1, Sound, PTL DEF Spec, PointersStayGood

-----------------------------------------------------------------------------
(* A filter call.  The process that runs a plug-in is a COM server too, and *)
(* what the program tells of a call to it rests on whom the program holds   *)
(* an object of.  This part is about PluginHost alone.                      *)

\* Where a host's thread is; a process; the shared header; what a worker may hold
\* or bring; what no host the program terminated may be told to have done; and
\* apply() under way.
Place == {"loop", "scan", "load", "filter", "hung", "dead"}
Process == [alive : BOOLEAN, quit : BOOLEAN, objects : Nat, at : Place,
            waiting : BOOLEAN, cancel : BOOLEAN, timedOut : BOOLEAN]
Header == [cancel : BOOLEAN, pid : Pid \cup {Nothing}]
Answered == HostStatus \cup {"calling", "dead"}
Blames == {"PluginCrashed", "Ok", "Cancelled", "PluginRefused"}
Waits == {"watch", "turn", "join"}

\* A process whose object the client holds (mine) or not: alive it counts exactly
\* that object, and one that ended is not taken for one never started.
Steady(h, mine) ==
  /\ h \in Process
  /\ h.alive => h.at # "dead" /\ h.objects = IF mine THEN 1 ELSE 0
  /\ ~h.alive => h.objects = 0 /\ (h = NotStarted \/ h.at = "dead")
  /\ mine => h # NotStarted

\* The processes that were started, so far in the order of their numbers.
StartedOf(hosts) == {p \in Pid : hosts[p] # NotStarted}

\* All of them are in order when the client holds an object of holder.
Populated(hosts, holder) ==
  /\ hosts \in [Pid -> Process]
  /\ \A p \in Pid : Steady(hosts[p], holder = p)
  /\ \E n \in 0..MaxHosts : StartedOf(hosts) = 1..n

\* The call: while it is under way there is a header and a worker and no result.
Talking ==
  /\ caller \in Waits \cup {"idle", "gone"} /\ time \in 0..3
  /\ asked \in BOOLEAN /\ killed \in BOOLEAN /\ cancelled \in BOOLEAN
  /\ held \in Pid \cup {Nothing} /\ canceller \in Pid \cup {Nothing}
  /\ caller \in Waits => map \in Header /\ worker \in Answered /\ result = Nothing
  /\ caller \notin Waits => map = Nothing /\ worker = Nothing
  /\ killed => result \notin Blames

\* The process named in the header was started, so it can be terminated.
Named == caller \in Waits /\ map.pid # Nothing => host[map.pid] # NotStarted

\* The inductive invariant.
CallInv == Talking /\ Named /\ Populated(host, held)

\* Of the processes other than p, the client holds objects of the same.
SameBesides(p, a, b) == \A q \in Pid : q # p => (a = q <=> b = q)

\* A process that was started, or the next to be.
Due(hosts, p) == hosts[p] # NotStarted \/ 1..(p - 1) \subseteq StartedOf(hosts)

\* What a process p has become when the client holds an object of process a.
Steadily(y, a, p) == Steady(y, a = p) /\ y # NotStarted

\* r is hosts with y in the place of p.
Placed(hosts, p, y, r) == r = [hosts EXCEPT ![p] = y]

\* What the client holds stays, whichever process is meant.
LEMMA SameAsEver ==
  ASSUME NEW p, NEW a
  PROVE  SameBesides(p, a, a)
BY DEF SameBesides

\* One process becomes another that is in order, started before or the next to be.
LEMMA ProcessBecomes ==
  ASSUME MaxHosts \in Nat, NEW hosts, NEW a, Populated(hosts, a), NEW b, NEW p \in Pid,
         SameBesides(p, a, b),
         Due(hosts, p), NEW y, Steadily(y, b, p), NEW r, Placed(hosts, p, y, r)
  PROVE  /\ Populated(r, b)
         /\ \A q \in Pid : hosts[q] # NotStarted => r[q] # NotStarted
<1>1. hosts \in [Pid -> Process] /\ \A q \in Pid : Steady(hosts[q], a = q)
  BY DEF Populated
<1>2. PICK n \in 0..MaxHosts : StartedOf(hosts) = 1..n
  BY DEF Populated
<1>3. y \in Process /\ Steady(y, b = p) /\ y # NotStarted
  BY DEF Steadily, Steady
<1>4. r \in [Pid -> Process] /\ r[p] = y /\ \A q \in Pid : q # p => r[q] = hosts[q]
  BY <1>1, <1>3 DEF Placed
<1>5. \A q \in Pid : Steady(r[q], b = q)
  <2> TAKE q \in Pid
  <2>1. CASE q = p
    BY <1>3, <1>4, <2>1
  <2>2. CASE q # p
    <3>1. Steady(hosts[q], a = q) /\ r[q] = hosts[q] /\ (a = q <=> b = q)
      BY <1>1, <1>4, <2>2 DEF SameBesides
    <3> QED BY <3>1 DEF Steady
  <2> QED BY <2>1, <2>2
<1>6. \A q \in Pid : r[q] # NotStarted <=> q \in 1..n \/ q = p
  BY <1>2, <1>3, <1>4 DEF StartedOf
<1>7. CASE p \in 1..n
  <2>1. StartedOf(r) = 1..n
    <3>1. \A q \in 1..n : q \in Pid
      BY <1>2 DEF Pid
    <3> QED BY <1>6, <1>7, <3>1 DEF StartedOf
  <2> QED BY <1>2, <1>4, <1>5, <1>6, <2>1 DEF Populated, StartedOf
<1>8. CASE p \notin 1..n
  <2>1. p = n + 1
    <3>1. p \in Nat /\ p >= 1 /\ p <= MaxHosts /\ n \in Nat
      BY <1>2 DEF Pid
    <3>2. 1..(p - 1) \subseteq 1..n
      BY <1>2, <1>8 DEF StartedOf, Due
    <3>3. p = 1 \/ p - 1 \in 1..(p - 1)
      BY <3>1
    <3> QED BY <1>8, <3>1, <3>2, <3>3
  <2>2. StartedOf(r) = 1..(n + 1)
    <3>1. \A q \in 1..(n + 1) : q \in Pid /\ (q \in 1..n \/ q = p)
      BY <1>2, <2>1 DEF Pid
    <3>2. \A q : q \in 1..n \/ q = p => q \in 1..(n + 1)
      BY <1>2, <2>1
    <3> QED BY <1>6, <3>1, <3>2 DEF StartedOf
  <2>3. n + 1 \in 0..MaxHosts
    BY <1>2, <2>1 DEF Pid
  <2> QED BY <1>2, <1>4, <1>5, <1>6, <2>2, <2>3 DEF Populated, StartedOf
<1> QED BY <1>7, <1>8

\* y is the process h running on with as many objects.
Running(h, y) ==
  h.alive /\ y \in Process /\ y.alive /\ y.at # "dead" /\ y.objects = h.objects

\* A process that runs on with as many objects.
LEMMA RunsOn ==
  ASSUME MaxHosts \in Nat, NEW hosts, NEW a, Populated(hosts, a), NEW p \in Pid,
         NEW y, Running(hosts[p], y), NEW r, Placed(hosts, p, y, r)
  PROVE  /\ Populated(r, a)
         /\ \A q \in Pid : hosts[q] # NotStarted => r[q] # NotStarted
<1>1. Steady(hosts[p], a = p) /\ hosts[p] # NotStarted
  BY DEF Populated, Running, NotStarted
<1>2. Steady(y, a = p) /\ y # NotStarted
  BY <1>1 DEF Steady, Running, NotStarted
<1>3. SameBesides(p, a, a) /\ Due(hosts, p) /\ Steadily(y, a, p)
  BY <1>1, <1>2, SameAsEver DEF Due, Steadily
<1> QED BY <1>3, ProcessBecomes

\* r is hosts with p dead, which was started.
Dying(hosts, p, r) ==
  hosts[p] # NotStarted /\ r = [hosts EXCEPT ![p] = Dead(hosts[p])]

\* A process that dies.
LEMMA Dies ==
  ASSUME MaxHosts \in Nat, NEW hosts, NEW a, Populated(hosts, a), NEW p \in Pid,
         NEW r, Dying(hosts, p, r)
  PROVE  /\ Populated(r, a)
         /\ \A q \in Pid : hosts[q] # NotStarted => r[q] # NotStarted
<1>0. hosts[p] # NotStarted /\ r = [hosts EXCEPT ![p] = Dead(hosts[p])]
  BY DEF Dying
<1>1. PICK h, y : h = hosts[p] /\ y = Dead(hosts[p])
  OBVIOUS
<1>2. h \in Process
  BY <1>1 DEF Populated
<1>3. y \in Process /\ ~y.alive /\ y.objects = 0 /\ y.at = "dead"
  BY <1>1, <1>2 DEF Dead, Process, Place
<1>4. Steady(y, a = p) /\ y # NotStarted
  BY <1>3 DEF Steady, NotStarted
<1>5. SameBesides(p, a, a) /\ Due(hosts, p) /\ Steadily(y, a, p) /\ Placed(hosts, p, y, r)
  BY <1>0, <1>1, <1>4, SameAsEver DEF Due, Steadily, Placed
<1> QED BY <1>5, ProcessBecomes

\* An object of a process goes, the last one perhaps.
LEMMA LetGo ==
  ASSUME NEW hosts, NEW a \in Pid \cup {Nothing}, Populated(hosts, a),
         NEW r, r = Released(hosts, a)
  PROVE  /\ Populated(r, Nothing)
         /\ \A q \in Pid : /\ hosts[q] # NotStarted <=> r[q] # NotStarted
                           /\ hosts[q].alive <=> r[q].alive
<1>0. /\ hosts \in [Pid -> Process] /\ MaxHosts \in Nat
      /\ \A q \in Pid : Steady(hosts[q], a = q)
  BY PluginHostAssumption DEF Populated
<1>1. CASE a = Nothing
  <2>1. r = hosts
    BY <1>1 DEF Released
  <2> QED BY <1>1, <2>1
<1>2. CASE a \in Pid /\ ~hosts[a].alive
  <2>1. r = hosts
    BY <1>2 DEF Released
  <2>2. \A q \in Pid : Steady(hosts[q], FALSE)
    BY <1>0, <1>2 DEF Steady
  <2>3. Populated(hosts, Nothing)
    <3>1. \A q \in Pid : Nothing # q
      BY PluginHostAssumption
    <3> QED BY <1>0, <2>2, <3>1 DEF Populated, Steady
  <2> QED BY <2>1, <2>3
<1>3. CASE a \in Pid /\ hosts[a].alive
  <2>1. PICK h : h = hosts[a]
    OBVIOUS
  <2>2. h \in Process /\ h.alive /\ h.at # "dead" /\ h.objects = 1
    BY <1>0, <1>3, <2>1 DEF Steady
  <2>3. PICK y : y = [h EXCEPT !.objects = 0, !.quit = TRUE]
    OBVIOUS
  <2>4. r = [hosts EXCEPT ![a] = y]
    <3>1. a # Nothing
      BY <1>3, PluginHostAssumption
    <3>2. PICK g : g = [h EXCEPT !.objects = h.objects - 1]
      OBVIOUS
    <3>3. g.objects = 0 /\ [g EXCEPT !.quit = TRUE] = y
      BY <2>2, <2>3, <3>2 DEF Process
    <3>4. Asked(g) = y
      BY <3>3 DEF Asked, Count
    <3>5. r = [hosts EXCEPT ![a] = Asked([hosts[a] EXCEPT !.objects = hosts[a].objects - 1])]
      BY <1>3, <3>1 DEF Released
    <3> QED BY <2>1, <3>2, <3>4, <3>5
  <2>5. y \in Process /\ y.alive /\ y.at # "dead" /\ y.objects = 0
    BY <2>2, <2>3 DEF Process
  <2>6. y # NotStarted /\ h # NotStarted
    BY <2>2, <2>5 DEF NotStarted
  <2>7. Steady(y, Nothing = a)
    BY <1>3, <2>5, PluginHostAssumption DEF Steady
  <2>8. SameBesides(a, a, Nothing)
    BY PluginHostAssumption DEF SameBesides
  <2>9. Populated(r, Nothing)
    <3>1. Due(hosts, a) /\ Steadily(y, Nothing, a) /\ Placed(hosts, a, y, r)
      BY <2>1, <2>4, <2>6, <2>7 DEF Due, Steadily, Placed
    <3> QED BY <1>0, <1>3, <2>8, <3>1, ProcessBecomes
  <2>10. r[a] = y /\ \A q \in Pid : q # a => r[q] = hosts[q]
    BY <1>0, <1>3, <2>4
  <2> QED BY <2>1, <2>2, <2>5, <2>6, <2>9, <2>10
<1> QED BY <1>1, <1>2, <1>3

\* No process that was started is as if it never had been.
Persist(hosts, r) == \A q \in Pid : hosts[q] # NotStarted => r[q] # NotStarted

\* A step that leaves the call as it is.
LEMMA CallStays ==
  ASSUME CallInv, UNCHANGED <<caller, time, asked, killed, cancelled, held, map, worker, result>>,
         canceller' \in Pid \cup {Nothing}, Populated(host', held'), Persist(host, host')
  PROVE  CallInv'
<1>1. Talking'
  BY DEF CallInv, Talking
<1>2. Named'
  <2>1. CASE caller \in Waits /\ map.pid # Nothing
    <3>1. host[map.pid] # NotStarted /\ map.pid \in Pid
      BY <2>1 DEF CallInv, Named, Talking, Header
    <3> QED BY <3>1 DEF Persist, Named
  <2>2. CASE ~(caller \in Waits /\ map.pid # Nothing)
    BY <2>2 DEF Named
  <2> QED BY <2>1, <2>2
<1> QED BY <1>1, <1>2 DEF CallInv

\* What a process does by itself.
LEMMA ProcessKeeps ==
  ASSUME CallInv, NEW p \in Pid,
         \/ IdleTimer(p) \/ HostExit(p) \/ ServeCancel(p)
         \/ Hang(p) \/ PluginCrash(p)
  PROVE  CallInv'
<1>1. UNCHANGED <<caller, time, asked, killed, cancelled, held, map, worker, result, canceller>>
  BY DEF IdleTimer, HostExit, ServeCancel, Hang, PluginCrash, callVars
<1>2. PICK h : h = host[p]
  OBVIOUS
<1>3. h \in Process /\ h.alive /\ h.at # "dead" /\ MaxHosts \in Nat /\ Populated(host, held)
  <2>1. h.alive
    BY <1>2 DEF IdleTimer, HostExit, ServeCancel, Hang, PluginCrash, InPlugin
  <2>2. Steady(h, held = p)
    BY <1>2 DEF CallInv, Populated
  <2> QED BY <2>1, <2>2, PluginHostAssumption DEF Steady, CallInv
<1>4. ASSUME NEW y, Running(h, y), host' = [host EXCEPT ![p] = y] PROVE CallInv'
  <2>1. Running(host[p], y) /\ Placed(host, p, y, host')
    BY <1>2, <1>4 DEF Placed
  <2>2. Populated(host', held) /\ Persist(host, host')
    BY <1>3, <2>1, RunsOn DEF Persist
  <2> QED BY <1>1, <2>2, CallStays DEF CallInv, Talking
<1>5. ASSUME host' = [host EXCEPT ![p] = Dead(host[p])] PROVE CallInv'
  <2>1. host[p] # NotStarted
    BY <1>2, <1>3 DEF NotStarted
  <2>2. PICK r : r = host'
    OBVIOUS
  <2>3. Dying(host, p, r)
    BY <1>5, <2>1, <2>2 DEF Dying
  <2>4. Populated(host', held) /\ Persist(host, host')
    BY <1>3, <2>2, <2>3, Dies DEF Persist
  <2> QED BY <1>1, <2>4, CallStays DEF CallInv, Talking
<1>6. CASE IdleTimer(p)
  <2>1. PICK y : y = Asked(h)
    OBVIOUS
  <2>2. Running(h, y)
    BY <1>3, <2>1 DEF Asked, Count, Running, Process
  <2>3. host' = [host EXCEPT ![p] = y]
    BY <1>2, <1>6, <2>1 DEF IdleTimer
  <2> QED BY <1>4, <2>2, <2>3
<1>7. CASE ServeCancel(p)
  <2>1. PICK y : y = [h EXCEPT !.waiting = FALSE, !.cancel = TRUE]
    OBVIOUS
  <2>2. Running(h, y)
    BY <1>3, <2>1 DEF Running, Process
  <2>3. host' = [host EXCEPT ![p] = y]
    BY <1>2, <1>7, <2>1 DEF ServeCancel
  <2> QED BY <1>4, <2>2, <2>3
<1>8. CASE Hang(p)
  <2>1. PICK y : y = [h EXCEPT !.at = "hung"]
    OBVIOUS
  <2>2. Running(h, y)
    BY <1>3, <2>1 DEF Running, Process, Place
  <2>3. host' = [host EXCEPT ![p] = y]
    BY <1>2, <1>8, <2>1 DEF Hang
  <2> QED BY <1>4, <2>2, <2>3
<1>9. CASE HostExit(p) \/ PluginCrash(p)
  <2>1. host' = [host EXCEPT ![p] = Dead(host[p])]
    BY <1>9 DEF HostExit, PluginCrash
  <2> QED BY <1>5, <2>1
<1> QED BY <1>6, <1>7, <1>8, <1>9

\* What it does for the call it serves.
LEMMA ServingKeeps ==
  ASSUME CallInv, NEW p \in Pid,
         \/ HeaderRefused(p) \/ Serve(p) \/ Scan(p)
         \/ Load(p) \/ Return(p)
  PROVE  CallInv'
<1>1. PICK h : h = host[p]
  OBVIOUS
<1>2. /\ worker = "calling" /\ host[p].alive
      /\ UNCHANGED <<caller, time, asked, killed, cancelled, held, canceller, result>>
  BY DEF HeaderRefused, Serve, Scan, Load, Return, Called, Answer, Goes
<1>3. h \in Process /\ h.alive /\ h.at # "dead" /\ MaxHosts \in Nat /\ Populated(host, held)
  <2>1. Steady(h, held = p)
    BY <1>1 DEF CallInv, Populated
  <2> QED BY <1>1, <1>2, <2>1, PluginHostAssumption DEF Steady, CallInv
<1>4. caller \in Waits /\ map \in Header
  <2>1. Nothing # "calling"
    BY PluginHostAssumption DEF Answered
  <2> QED BY <1>2, <2>1 DEF CallInv, Talking
<1>5. ASSUME NEW y, Running(h, y), host' = [host EXCEPT ![p] = y]
      PROVE  Populated(host', held) /\ Persist(host, host')
  <2>1. Running(host[p], y) /\ Placed(host, p, y, host')
    BY <1>1, <1>5 DEF Placed
  <2> QED BY <1>3, <2>1, RunsOn DEF Persist
<1>6. ASSUME NEW g, g \in Asking(h), NEW statuses, statuses \subseteq Answered,
             Answer(p, g, statuses)
      PROVE  CallInv'
  <2>1. PICK y : y = [g EXCEPT !.at = "loop"]
    OBVIOUS
  <2>2. Running(h, y)
    BY <1>3, <1>6, <2>1 DEF Asking, Running, Process, Place
  <2>3. host' = [host EXCEPT ![p] = y] /\ worker' \in Answered /\ map' = map
    BY <1>6, <2>1 DEF Answer, Answered, HostStatus
  <2>4. Populated(host', held') /\ Persist(host, host')
    BY <1>2, <1>5, <2>2, <2>3
  <2>5. Talking'
    BY <1>2, <1>4, <2>3 DEF CallInv, Talking
  <2>6. Named'
    <3>1. map.pid # Nothing => host[map.pid] # NotStarted /\ map.pid \in Pid
      BY <1>4 DEF CallInv, Named, Header
    <3> QED BY <1>2, <2>3, <2>4, <3>1 DEF Named, Persist
  <2> QED BY <2>4, <2>5, <2>6 DEF CallInv
<1>7. ASSUME NEW at \in Place, at # "dead", Goes(p, at),
             map' = map \/ map' = [map EXCEPT !.pid = p]
      PROVE  CallInv'
  <2>1. PICK y : y = [h EXCEPT !.at = at]
    OBVIOUS
  <2>2. Running(h, y)
    BY <1>3, <1>7, <2>1 DEF Running, Process
  <2>3. host' = [host EXCEPT ![p] = y] /\ worker' = worker
    BY <1>1, <1>7, <2>1 DEF Goes
  <2>4. Populated(host', held') /\ Persist(host, host')
    BY <1>2, <1>5, <2>2, <2>3
  <2>5. map' \in Header
    BY <1>4, <1>7 DEF Header
  <2>6. Talking'
    BY <1>2, <1>4, <2>3, <2>5 DEF CallInv, Talking
  <2>7. Named'
    <3>1. map.pid # Nothing => host[map.pid] # NotStarted /\ map.pid \in Pid
      BY <1>4 DEF CallInv, Named, Header
    <3>2. host[p] # NotStarted
      BY <1>1, <1>3 DEF NotStarted
    <3>3. map'.pid = map.pid \/ map'.pid = p
      BY <1>4, <1>7 DEF Header
    <3> QED BY <1>2, <2>4, <3>1, <3>2, <3>3 DEF Named, Persist
  <2> QED BY <2>4, <2>6, <2>7 DEF CallInv
<1>8. h \in Asking(h)
  BY DEF Asking
<1>9. CASE HeaderRefused(p)
  BY <1>1, <1>6, <1>8, <1>9 DEF HeaderRefused, Answered, HostStatus
<1>10. CASE Serve(p)
  BY <1>7, <1>10 DEF Serve, Place
<1>11. CASE Scan(p)
  <2>1. CASE Answer(p, host[p], ScanFails)
    BY <1>1, <1>6, <1>8, <2>1 DEF ScanFails, Answered, HostStatus
  <2>2. CASE Goes(p, "load") /\ UNCHANGED map
    BY <1>7, <2>2 DEF Place
  <2> QED BY <1>11, <2>1, <2>2 DEF Scan
<1>12. CASE Load(p)
  <2>1. CASE Answer(p, host[p], {"PluginLoadFailed"})
    BY <1>1, <1>6, <1>8, <2>1 DEF Answered, HostStatus
  <2>2. CASE Goes(p, "filter") /\ UNCHANGED map
    BY <1>7, <2>2 DEF Place
  <2> QED BY <1>12, <2>1, <2>2 DEF Load
<1>13. CASE Return(p)
  <2>1. PICK g \in Asking(h) : Answer(p, g, Outcomes(g))
    BY <1>1, <1>13 DEF Return
  <2>2. Outcomes(g) \subseteq Answered
    BY DEF Outcomes, Answered, HostStatus
  <2> QED BY <1>6, <2>1, <2>2
<1> QED BY <1>9, <1>10, <1>11, <1>12, <1>13

\* The steps of the calling threads and the worker that touch no process.
LEMMA CallKeeps ==
  ASSUME CallInv,
         \/ Look \/ Tick
         \/ CallDies \/ CallFails \/ CancelReturns
  PROVE  CallInv'
<1>1. /\ UNCHANGED <<host, held, map, result, killed, asked, cancelled>>
      /\ caller' \in Waits <=> caller \in Waits
  BY DEF Look, Tick, CallDies, CallFails, CancelReturns, callVars, Waits
<1>2. "calling" # Nothing
  BY PluginHostAssumption DEF Answered
<1>3. Talking'
  <2>1. CASE Look
    BY <2>1 DEF Look, CallInv, Talking, callVars, Waits
  <2>2. CASE Tick
    BY <2>2 DEF Tick, CallInv, Talking, Waits
  <2>3. CASE CallDies \/ CallFails
    <3>1. caller \in Waits /\ worker' \in Answered /\ UNCHANGED <<caller, time, canceller>>
      BY <1>2, <2>3 DEF CallDies, CallFails, CallInv, Talking, Answered, HostStatus
    <3> QED BY <1>1, <3>1 DEF CallInv, Talking
  <2>4. CASE CancelReturns
    BY <2>4 DEF CancelReturns, CallInv, Talking, callVars
  <2> QED BY <2>1, <2>2, <2>3, <2>4
<1> QED BY <1>1, <1>3 DEF CallInv, Named, Populated, StartedOf

\* Asking the call to end, from another thread.
LEMMA CancelKeeps ==
  ASSUME CallInv, Cancel
  PROVE  CallInv'
<1>1. /\ cancelled' = TRUE /\ MaxHosts \in Nat /\ Populated(host, held)
      /\ UNCHANGED <<caller, time, asked, killed, held, worker, result>>
  BY PluginHostAssumption DEF Cancel, CallInv
<1>2. Populated(host', held) /\ Persist(host, host') /\ canceller' \in Pid \cup {Nothing}
  <2>1. CASE held # Nothing /\ host[held].alive
    <3>1. held \in Pid /\ canceller' = held /\ host' = [host EXCEPT ![held].waiting = TRUE]
      BY <2>1 DEF Cancel, CallInv, Talking
    <3>2. PICK p, h, y, r : p = held /\ h = host[p] /\ y = [h EXCEPT !.waiting = TRUE] /\ r = host'
      OBVIOUS
    <3>3. p \in Pid /\ Steady(h, TRUE) /\ h.alive
      BY <2>1, <3>1, <3>2 DEF CallInv, Populated
    <3>4. Running(host[p], y) /\ Placed(host, p, y, r)
      BY <3>1, <3>2, <3>3 DEF Running, Placed, Steady, Process
    <3>5. Populated(r, held) /\ Persist(host, r)
      BY <1>1, <3>3, <3>4, RunsOn DEF Persist
    <3> QED BY <1>1, <3>1, <3>2, <3>5
  <2>2. CASE ~(held # Nothing /\ host[held].alive)
    <3>1. UNCHANGED <<canceller, host>>
      BY <2>2 DEF Cancel
    <3> QED BY <1>1, <3>1 DEF CallInv, Talking, Persist
  <2> QED BY <2>1, <2>2
<1>3. caller \in Waits => map \in Header /\ map' \in Header /\ map'.pid = map.pid
  <2>1. ASSUME caller \in Waits PROVE map \in Header /\ map # Nothing
    BY <2>1, PluginHostAssumption DEF CallInv, Talking, Header
  <2> QED BY <2>1 DEF Cancel, Header
<1>4. caller \notin Waits => map' = Nothing
  BY DEF Cancel, CallInv, Talking
<1>5. Talking'
  BY <1>1, <1>2, <1>3, <1>4 DEF CallInv, Talking
<1>6. Named'
  <2>1. CASE caller \in Waits /\ map.pid # Nothing
    <3>1. host[map.pid] # NotStarted /\ map.pid \in Pid
      BY <1>3, <2>1 DEF CallInv, Named, Header
    <3> QED BY <1>1, <1>2, <1>3, <2>1, <3>1 DEF Persist, Named
  <2>2. CASE ~(caller \in Waits /\ map.pid # Nothing)
    BY <1>1, <1>3, <2>2 DEF Named
  <2> QED BY <2>1, <2>2
<1> QED BY <1>1, <1>2, <1>5, <1>6 DEF CallInv

\* A turn of the loop, which may terminate the process named in the header.
LEMMA TurnKeeps ==
  ASSUME CallInv, Turn
  PROVE  CallInv'
<1> DEFINE asks == ~asked /\ (cancelled \/ time > 0)
<1>1. /\ caller = "turn" /\ caller' \in Waits /\ MaxHosts \in Nat /\ Populated(host, held)
      /\ asked' = (asked \/ asks) /\ map' = [map EXCEPT !.cancel = map.cancel \/ asks]
      /\ UNCHANGED <<time, cancelled, held, worker, canceller, result>>
  BY PluginHostAssumption DEF Turn, CallInv, Waits
<1>2. map \in Header /\ worker \in Answered /\ result = Nothing
  BY <1>1 DEF CallInv, Talking, Waits
<1>3. asks \in BOOLEAN /\ asked \in BOOLEAN
  BY DEF CallInv, Talking
<1> HIDE DEF asks
<1>4. map' \in Header /\ map'.pid = map.pid /\ asked' \in BOOLEAN
  BY <1>1, <1>2, <1>3 DEF Header
<1>5. killed' \in BOOLEAN /\ Populated(host', held) /\ Persist(host, host')
  <2>1. CASE MayKill /\ map.pid # Nothing
    <3>1. map.pid \in Pid /\ host[map.pid] # NotStarted
      BY <1>1, <1>2, <2>1 DEF Header, CallInv, Named, Waits
    <3>2. killed' \in BOOLEAN /\ host' = [host EXCEPT ![map.pid] = Dead(host[map.pid])]
      BY <2>1 DEF Turn, CallInv, Talking
    <3>3. PICK p, r : p = map.pid /\ r = host'
      OBVIOUS
    <3>4. Dying(host, p, r) /\ p \in Pid
      BY <3>1, <3>2, <3>3 DEF Dying
    <3>5. Populated(r, held) /\ Persist(host, r)
      BY <1>1, <3>4, Dies DEF Persist
    <3> QED BY <3>2, <3>3, <3>5
  <2>2. CASE ~(MayKill /\ map.pid # Nothing)
    BY <1>1, <2>2 DEF Turn, CallInv, Talking, Persist
  <2> QED BY <2>1, <2>2
<1>6. Nothing \notin Blames
  BY PluginHostAssumption DEF Blames, Answered, HostStatus
<1>7. Talking'
  BY <1>1, <1>2, <1>4, <1>5, <1>6 DEF CallInv, Talking
<1>8. Named'
  <2>1. map.pid # Nothing => host[map.pid] # NotStarted /\ map.pid \in Pid
    BY <1>1, <1>2 DEF CallInv, Named, Header, Waits
  <2> QED BY <1>4, <1>5, <2>1 DEF Named, Persist
<1> QED BY <1>1, <1>5, <1>7, <1>8 DEF CallInv

\* A call that is over leaves no header and no worker.
LEMMA OverKeeps ==
  ASSUME caller' \in {"idle", "gone"}, map' = Nothing, worker' = Nothing,
         time' \in 0..3, asked' \in BOOLEAN, killed' \in BOOLEAN, cancelled' \in BOOLEAN,
         held' \in Pid \cup {Nothing}, canceller' \in Pid \cup {Nothing},
         killed' => result' \notin Blames, Populated(host', held')
  PROVE  CallInv'
BY DEF CallInv, Talking, Named, Waits

\* Judging the call, and deleting the client.
LEMMA EndKeeps ==
  ASSUME CallInv, Judge \/ Delete
  PROVE  CallInv'
<1>1. /\ caller' \in {"idle", "gone"} /\ map' = Nothing /\ worker' = Nothing /\ held' = Nothing
      /\ UNCHANGED <<time, asked, killed, cancelled, canceller>>
  BY DEF Judge, Delete, callVars, CallInv, Talking, Waits
<1>2. Populated(host', Nothing)
  <2>1. PICK r : r = Released(host, held)
    OBVIOUS
  <2>2. host' = r /\ held \in Pid \cup {Nothing} /\ Populated(host, held)
    BY <2>1 DEF Judge, Delete, CallInv, Talking
  <2> QED BY <2>1, <2>2, LetGo
<1>3. killed => result' \notin Blames
  <2>1. CASE Judge
    BY <2>1 DEF Judge, Verdict, Blames
  <2>2. CASE Delete
    BY <2>2 DEF Delete, CallInv, Talking
  <2> QED BY <2>1, <2>2
<1> QED BY <1>1, <1>2, <1>3, OverKeeps DEF CallInv, Talking

\* Activation gives p: a process that lives, or the next to be started.
Takes(hosts, p) ==
  /\ p \in Pid
  /\ \/ hosts[p].alive
     \/ hosts[p] = NotStarted /\ 1..(p - 1) \subseteq StartedOf(hosts)

\* What activation finds is such a process.
LEMMA FoundIsTaken ==
  ASSUME NEW a, Populated(host, a), NEW p \in Found
  PROVE  Takes(host, p)
<1>1. CASE Alive # {}
  BY <1>1 DEF Found, Alive, Takes
<1>2. CASE Alive = {}
  <2>1. Started = StartedOf(host)
    BY DEF Started, StartedOf
  <2>2. p \in Pid \ StartedOf(host) /\ 1..(p - 1) \subseteq StartedOf(host)
    BY <1>2, <2>1 DEF Found
  <2> QED BY <2>2 DEF Takes, StartedOf
<1> QED BY <1>1, <1>2

\* It still is once the object held has gone.
LEMMA TakenAfterRelease ==
  ASSUME NEW a \in Pid \cup {Nothing}, Populated(host, a),
         NEW p, Takes(host, p),
         NEW hosts, hosts = Released(host, a)
  PROVE  Populated(hosts, Nothing) /\ Takes(hosts, p)
<1>1. /\ Populated(hosts, Nothing)
      /\ \A q \in Pid : /\ host[q] # NotStarted <=> hosts[q] # NotStarted
                        /\ host[q].alive <=> hosts[q].alive
  BY LetGo
<1>2. StartedOf(hosts) = StartedOf(host)
  <2>1. \A q \in Pid : hosts[q] # NotStarted <=> host[q] # NotStarted
    BY <1>1
  <2> QED BY <2>1, Zenon DEF StartedOf
<1>3. /\ p \in Pid /\ (hosts[p].alive <=> host[p].alive)
      /\ hosts[p] = NotStarted <=> host[p] = NotStarted
  BY <1>1 DEF Takes
<1> QED BY <1>1, <1>2, <1>3 DEF Takes

\* What a process is that activation gives.
LEMMA TakenIs ==
  ASSUME NEW hosts, NEW a, Populated(hosts, a), NEW p, Takes(hosts, p)
  PROVE  /\ hosts[p] \in Process /\ hosts[p].at # "dead" /\ Due(hosts, p) /\ p \in Pid
         /\ hosts[p].objects = IF a = p THEN 1 ELSE 0
<1>1. /\ p \in Pid /\ Steady(hosts[p], a = p)
      /\ hosts[p].alive \/ hosts[p] = NotStarted
  BY DEF Populated, Takes
<1>2. NotStarted.at = "loop" /\ NotStarted.objects = 0 /\ ~NotStarted.alive
  BY DEF NotStarted
<1>3. Due(hosts, p)
  BY <1>1, <1>2 DEF Takes, Due
<1> QED BY <1>1, <1>2, <1>3 DEF Steady

\* y is process p of hosts come up, with as many objects.
Up(hosts, p, objects, y) == y = [hosts[p] EXCEPT !.alive = TRUE, !.objects = objects]

\* A process that lives with its number of objects is in order.
LEMMA UpIsSteady ==
  ASSUME NEW hosts, NEW a, Populated(hosts, a), NEW p, Takes(hosts, p),
         NEW b, NEW n, n = IF b = p THEN 1 ELSE 0, NEW y, Up(hosts, p, n, y)
  PROVE  Steadily(y, b, p) /\ y \in Process /\ y.alive /\ y.at # "dead" /\ y.objects = n
<1>1. PICK h : h = hosts[p]
  OBVIOUS
<1>2. h \in Process /\ h.at # "dead"
  BY <1>1, TakenIs
<1>3. y = [h EXCEPT !.alive = TRUE, !.objects = n] /\ n \in Nat
  BY <1>1 DEF Up
<1>4. y \in Process /\ y.alive /\ y.at # "dead" /\ y.objects = n
  BY <1>2, <1>3 DEF Process
<1>5. y # NotStarted
  BY <1>4 DEF NotStarted
<1>6. Steady(y, b = p)
  BY <1>4, <1>5 DEF Steady
<1> QED BY <1>4, <1>5, <1>6 DEF Steadily

\* A process comes up and makes no object, or makes the only one.
LEMMA ComesUp ==
  ASSUME NEW hosts, Populated(hosts, Nothing), NEW p, Takes(hosts, p)
  PROVE  /\ Populated([hosts EXCEPT ![p].alive = TRUE], Nothing)
         /\ Populated(Created(hosts, p), p)
<1>1. /\ hosts[p] \in Process /\ Due(hosts, p) /\ p \in Pid
      /\ hosts[p].objects = 0 /\ MaxHosts \in Nat
  <2>1. Nothing # p
    BY PluginHostAssumption DEF Takes
  <2> QED BY <2>1, TakenIs, PluginHostAssumption
<1>2. PICK h, y, z : h = hosts[p] /\ Up(hosts, p, 0, y) /\ Up(hosts, p, 1, z)
  BY DEF Up
<1>3. y = [h EXCEPT !.alive = TRUE] /\ z = [h EXCEPT !.alive = TRUE, !.objects = h.objects + 1]
  <2>1. y = [h EXCEPT !.alive = TRUE, !.objects = 0] /\ z = [h EXCEPT !.alive = TRUE, !.objects = 1]
    BY <1>2 DEF Up
  <2>2. h \in Process /\ h.objects = 0
    BY <1>1, <1>2
  <2>3. [h EXCEPT !.alive = TRUE, !.objects = 0] = [h EXCEPT !.alive = TRUE]
    BY <2>2 DEF Process
  <2> QED BY <2>1, <2>2, <2>3
<1>4. PICK r, s : r = [hosts EXCEPT ![p].alive = TRUE] /\ s = Created(hosts, p)
  OBVIOUS
<1>5. Placed(hosts, p, y, r) /\ Placed(hosts, p, z, s)
  <2>1. r = [hosts EXCEPT ![p] = [hosts[p] EXCEPT !.alive = TRUE]]
    BY <1>4
  <2>2. s = [hosts EXCEPT ![p] = [hosts[p] EXCEPT !.alive = TRUE, !.objects = hosts[p].objects + 1]]
    BY <1>1, <1>4 DEF Created, Populated, Process
  <2> QED BY <1>2, <1>3, <2>1, <2>2 DEF Placed
<1>6. Steadily(y, Nothing, p)
  <2>1. Nothing # p
    BY <1>1, PluginHostAssumption
  <2>2. 0 = IF Nothing = p THEN 1 ELSE 0
    BY <2>1
  <2> QED BY <1>2, <2>2, UpIsSteady
<1>7. Steadily(z, p, p)
  BY <1>2, UpIsSteady
<1>8. Populated(r, Nothing)
  BY <1>1, <1>5, <1>6, SameAsEver, ProcessBecomes
<1>9. SameBesides(p, Nothing, p)
  BY PluginHostAssumption DEF SameBesides
<1>10. Populated(s, p)
  BY <1>1, <1>5, <1>7, <1>9, ProcessBecomes
<1> QED BY <1>4, <1>8, <1>10

\* A call that fails before the host is called.
LEMMA FailsKeeps ==
  ASSUME CallInv, Apply,
         NEW r, NEW keeps \in Pid \cup {Nothing}, Fails(r, keeps),
         Populated(r, keeps)
  PROVE  CallInv'
<1>1. /\ caller' = "idle" /\ map' = Nothing /\ worker' = Nothing /\ host' = r /\ held' = keeps
      /\ time' = 0 /\ asked' = FALSE /\ killed' = FALSE /\ cancelled' = FALSE
      /\ canceller' = canceller
  BY DEF Fails, Apply
<1>2. /\ canceller' \in Pid \cup {Nothing} /\ held' \in Pid \cup {Nothing}
      /\ Populated(host', held')
  BY <1>1 DEF CallInv, Talking
<1>3. time' \in 0..3 /\ caller' \in {"idle", "gone"} /\ (killed' => result' \notin Blames)
  BY <1>1
<1>4. asked' \in BOOLEAN /\ killed' \in BOOLEAN /\ cancelled' \in BOOLEAN
  BY <1>1
<1> QED BY <1>1, <1>2, <1>3, <1>4, OverKeeps

\* A call that begins.
LEMMA ApplyKeeps ==
  ASSUME CallInv, Apply
  PROVE  CallInv'
<1>1. PICK hosts : hosts = Released(host, held)
  OBVIOUS
<1>2. held \in Pid \cup {Nothing} /\ Populated(host, held)
  BY DEF CallInv, Talking
<1>3. Populated(hosts, Nothing)
  BY <1>1, <1>2, LetGo
<1>4. CASE TooLarge
  BY <1>2, <1>4, FailsKeeps DEF TooLarge
<1>5. CASE Fails(hosts, Nothing)
  BY <1>3, <1>5, FailsKeeps
<1>6. ASSUME NEW p \in Found,
             \/ Fails([hosts EXCEPT ![p].alive = TRUE], Nothing)
             \/ Fails(Created(hosts, p), p)
             \/ /\ caller' = "watch" /\ host' = Created(hosts, p) /\ held' = p
                /\ map' = ShmHeader
                /\ worker' = "calling"
                /\ result' = Nothing
      PROVE  CallInv'
  <2>1. Takes(host, p)
    BY <1>2, FoundIsTaken
  <2>2. Takes(hosts, p)
    BY <1>1, <1>2, <2>1, TakenAfterRelease
  <2>3. PICK r, s : r = [hosts EXCEPT ![p].alive = TRUE] /\ s = Created(hosts, p)
    OBVIOUS
  <2>4. Populated(r, Nothing) /\ Populated(s, p) /\ p \in Pid
    BY <1>3, <2>2, <2>3, ComesUp DEF Takes
  <2>5. CASE Fails(r, Nothing)
    BY <2>4, <2>5, FailsKeeps
  <2>6. CASE Fails(s, p)
    BY <2>4, <2>6, FailsKeeps
  <2>7. CASE /\ caller' = "watch" /\ host' = s /\ held' = p
             /\ map' = ShmHeader /\ worker' = "calling" /\ result' = Nothing
    <3>1. map' \in Header /\ map'.pid = Nothing /\ worker' \in Answered /\ caller' \in Waits
      BY <2>7 DEF ShmHeader, Header, Answered, Waits
    <3>2. /\ time' = 0 /\ asked' = FALSE /\ killed' = FALSE /\ cancelled' = FALSE
          /\ canceller' \in Pid \cup {Nothing}
      BY DEF Apply, CallInv, Talking
    <3>3. asked' \in BOOLEAN /\ killed' \in BOOLEAN /\ cancelled' \in BOOLEAN
      BY <3>2
    <3>4. time' \in 0..3
      BY <3>2
    <3>5. Talking'
      BY <2>4, <2>7, <3>1, <3>2, <3>3, <3>4 DEF Talking
    <3> QED BY <2>4, <2>7, <3>1, <3>5 DEF CallInv, Named
  <2> QED BY <1>6, <2>3, <2>5, <2>6, <2>7
<1> QED BY <1>1, <1>4, <1>5, <1>6 DEF Apply

\* Looking through the plug-ins with a process of its own or another's.
LEMMA EnumerateKeeps ==
  ASSUME CallInv, Enumerate
  PROVE  CallInv'
<1>1. /\ UNCHANGED <<caller, time, asked, killed, cancelled, held, map, worker, canceller, result>>
      /\ held \in Pid \cup {Nothing} /\ Populated(host, held) /\ MaxHosts \in Nat
  BY PluginHostAssumption DEF Enumerate, callVars, CallInv, Talking
<1>2. PICK p \in Found :
        \E hosts \in Scanned(Created(host, p), p) : host' = Released(hosts, p)
  BY DEF Enumerate
<1>3. PICK c : c = Created(host, p)
  OBVIOUS
<1>4. PICK g \in Scanned(c, p) : host' = Released(g, p)
  BY <1>2, <1>3
<1>5. Takes(host, p)
  BY <1>1, FoundIsTaken
<1>6. PICK h : h = host[p]
  OBVIOUS
<1>7. /\ h \in Process /\ h.at # "dead" /\ Due(host, p) /\ p \in Pid
      /\ h.objects = IF held = p THEN 1 ELSE 0
  BY <1>1, <1>5, <1>6, TakenIs
<1>8. PICK z, n : z = [h EXCEPT !.alive = TRUE, !.objects = n] /\ n = h.objects + 1
  OBVIOUS
<1>9. z \in Process /\ z.alive /\ z.objects = h.objects + 1 /\ z.at # "dead"
  <2>1. n \in Nat /\ h \in Process /\ h.at # "dead"
    BY <1>7, <1>8 DEF Process
  <2>2. z \in Process /\ z.alive /\ z.objects = n /\ z.at = h.at
    BY <1>8, <2>1 DEF Process
  <2> QED BY <1>8, <2>1, <2>2
<1>10. c = [host EXCEPT ![p] = z] /\ host \in [Pid -> Process]
  BY <1>1, <1>3, <1>6, <1>7, <1>8 DEF Created, Populated, Process
<1>11. p # Nothing
  BY <1>7, PluginHostAssumption
<1>12. PICK r : r = host'
  OBVIOUS
<1>13. PICK y : Placed(host, p, y, r) /\ Steadily(y, held, p)
  <2>1. CASE g = c
    <3>1. PICK x : x = [z EXCEPT !.objects = z.objects - 1]
      OBVIOUS
    <3>2. x \in Process /\ x.alive /\ x.at # "dead" /\ x.objects = h.objects
      BY <1>7, <1>9, <3>1 DEF Process
    <3>3. PICK w : w = Asked(x)
      OBVIOUS
    <3>4. w \in Process /\ w.alive /\ w.at # "dead" /\ w.objects = h.objects
      BY <3>2, <3>3 DEF Asked, Process
    <3>5. w # NotStarted
      BY <3>4 DEF NotStarted
    <3>6. Steadily(w, held, p)
      BY <1>7, <3>4, <3>5 DEF Steadily, Steady
    <3>7. c[p] = z
      BY <1>7, <1>10
    <3>8. r = [c EXCEPT ![p] = w]
      BY <1>4, <1>9, <1>11, <1>12, <2>1, <3>1, <3>3, <3>7 DEF Released
    <3>9. Placed(host, p, w, r)
      BY <1>7, <1>10, <3>8 DEF Placed
    <3> QED BY <3>6, <3>9
  <2>2. CASE g = [c EXCEPT ![p] = Dead(c[p])]
    <3>1. c[p] = z
      BY <1>7, <1>10
    <3>2. PICK w : w = Dead(z)
      OBVIOUS
    <3>3. w \in Process /\ ~w.alive /\ w.at = "dead" /\ w.objects = 0
      BY <1>9, <3>2 DEF Dead, Process, Place
    <3>4. w # NotStarted
      BY <3>3 DEF NotStarted
    <3>5. Steadily(w, held, p)
      BY <3>3, <3>4 DEF Steadily, Steady
    <3>6. g = [c EXCEPT ![p] = w]
      BY <2>2, <3>1, <3>2
    <3>7. g = [host EXCEPT ![p] = w] /\ g[p] = w
      BY <1>7, <1>10, <3>6
    <3>8. r = g
      BY <1>4, <1>12, <3>3, <3>7 DEF Released
    <3> QED BY <3>5, <3>7, <3>8 DEF Placed
  <2> QED BY <1>4, <2>1, <2>2 DEF Scanned
<1>14. Populated(r, held) /\ Persist(host, r)
  BY <1>1, <1>7, <1>13, SameAsEver, ProcessBecomes DEF Persist
<1>15. Populated(host', held') /\ Persist(host, host') /\ canceller' \in Pid \cup {Nothing}
  BY <1>1, <1>12, <1>14 DEF CallInv, Talking
<1> QED BY <1>1, <1>15, CallStays

\* Nothing has been started.
LEMMA NothingStarted ==
  ASSUME FilterInit
  PROVE  CallInv
<1>1. /\ host = [p \in Pid |-> NotStarted] /\ MaxHosts \in Nat
      /\ \A p \in Pid : Nothing # p
  BY PluginHostAssumption DEF FilterInit
<1>2. NotStarted \in Process /\ ~NotStarted.alive /\ NotStarted.objects = 0
  BY DEF NotStarted, Process, Place
<1>3. Populated(host, held)
  <2>1. \A p \in Pid : host[p] = NotStarted /\ Steady(host[p], held = p)
    BY <1>1, <1>2 DEF FilterInit, Steady
  <2>2. StartedOf(host) = 1..0 /\ 0 \in 0..MaxHosts
    BY <1>1, <2>1 DEF StartedOf
  <2>3. host \in [Pid -> Process]
    BY <1>1, <1>2
  <2> QED BY <2>1, <2>2, <2>3 DEF Populated
<1>4. caller \notin Waits /\ caller = "idle" /\ map = Nothing /\ worker = Nothing
  BY DEF FilterInit, Waits
<1>5. /\ asked \in BOOLEAN /\ killed \in BOOLEAN /\ cancelled \in BOOLEAN
  BY DEF FilterInit
<1>6. killed = FALSE /\ held = Nothing /\ canceller = Nothing /\ time = 0 /\ time \in 0..3
  BY DEF FilterInit
<1>7. Talking
  BY <1>4, <1>5, <1>6 DEF Talking
<1>8. Named
  BY <1>4 DEF Named
<1> QED BY <1>3, <1>7, <1>8 DEF CallInv

\* Every step keeps the invariant.
LEMMA FilterStepsKeep ==
  ASSUME CallInv, [FilterNext]_filterVars
  PROVE  CallInv'
<1>1. CASE UNCHANGED filterVars
  BY <1>1 DEF filterVars, CallInv, Talking, Named, Populated, StartedOf
<1>2. CASE FilterNext
  <2>1. ASSUME NEW p \in Pid, HostStep(p) \/ Hang(p) \/ PluginCrash(p)
        PROVE  CallInv'
    BY <2>1, ProcessKeeps, ServingKeeps DEF HostStep
  <2> QED BY <1>2, <2>1, ApplyKeeps, EnumerateKeeps, CallKeeps, CancelKeeps, TurnKeeps,
       EndKeeps DEF FilterNext
<1> QED BY <1>1, <1>2

\* What the invariant says of blame.
LEMMA BlameFollows ==
  ASSUME CallInv
  PROVE  BlameIsFair
<1>1. /\ caller \in {"idle", "watch", "turn", "join", "gone"} /\ time \in 0..3
      /\ {asked, killed, cancelled} \subseteq BOOLEAN
      /\ {held, canceller} \subseteq Pid \cup {Nothing}
      /\ killed => result \notin {"PluginCrashed", "Ok", "Cancelled", "PluginRefused"}
  BY DEF CallInv, Talking, Waits, Blames
<1>2. \A p \in Pid : /\ host[p].objects \in Nat
                     /\ host[p].at \in {"loop", "scan", "load", "filter", "hung", "dead"}
                     /\ host[p].alive => host[p].at # "dead"
  <2> TAKE p \in Pid
  <2>1. Steady(host[p], held = p)
    BY DEF CallInv, Populated
  <2> QED BY <2>1 DEF Steady, Process, Place
<1>3. CASE caller \in Waits
  <2>1. map \in Header /\ worker \in Answered /\ caller \notin {"idle", "gone"}
    BY <1>3 DEF CallInv, Talking, Waits
  <2>2. worker # Nothing /\ map # Nothing
    BY <2>1, PluginHostAssumption DEF Header, Answered
  <2> QED BY <1>1, <1>3, <1>2, <2>1, <2>2 DEF BlameIsFair, FilterTypeOK, Header
<1>4. CASE caller \notin Waits
  <2>1. map = Nothing /\ worker = Nothing /\ caller \in {"idle", "gone"}
    BY <1>1, <1>4 DEF CallInv, Talking, Waits
  <2> QED BY <1>1, <1>2, <2>1 DEF BlameIsFair, FilterTypeOK
<1> QED BY <1>3, <1>4

\* What apply() tells of a host it terminated itself is that time ran out, never
\* that the plug-in crashed, refused, was cancelled or succeeded, whenever the
\* answer, the death of the process and the two time-outs come (apply and cancel of
\* host_client.cpp); for every number of calls and processes.
THEOREM BlameAlwaysFair == FilterSpec => []BlameIsFair
<1>1. FilterInit => CallInv
  BY NothingStarted
<1>2. CallInv /\ [FilterNext]_filterVars => CallInv'
  BY FilterStepsKeep
<1>3. CallInv => BlameIsFair
  BY BlameFollows
<1> QED BY <1>1, <1>2, <1>3, PTL DEF FilterSpec
=============================================================================
