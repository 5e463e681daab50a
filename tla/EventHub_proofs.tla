-------------------------- MODULE EventHub_proofs --------------------------
(***************************************************************************)
(* For every set of threads and subscribers, every capacity and both       *)
(* overflow policies: no event is lost uncounted, a subscriber sees the    *)
(* events of a thread in order, and is quiet once it is unsubscribed.      *)
(*                                                                         *)
(* The counts alone are not inductive, because between the copy of the     *)
(* list and the last offer an event is in nobody's queue: what a           *)
(* subscriber is owed is delivered, summarized, queued, in its callback's  *)
(* hands, or under way with a thread that still has to offer it.           *)
(***************************************************************************)
EXTENDS EventHub, SequenceTheorems, FiniteSetTheorems, TLAPS

(* What the operations on queues and lists return.                           *)

\* A sequence that one more element is appended to.
LEMMA Appended ==
  ASSUME NEW S, NEW q \in Seq(S), NEW e \in S, NEW w, w = Append(q, e)
  PROVE  /\ w \in Seq(S) /\ Len(w) = Len(q) + 1 /\ Len(q) \in Nat
         /\ \A i \in 1..Len(q) : w[i] = q[i]
         /\ w[Len(q) + 1] = e
BY AppendProperties

\* A sequence that has lost its first element.
LEMMA Shortened ==
  ASSUME NEW S, NEW q \in Seq(S), q # <<>>, NEW w, w = Tail(q)
  PROVE  /\ w \in Seq(S) /\ Len(w) = Len(q) - 1 /\ Len(w) \in Nat
         /\ \A i \in 1..Len(w) : w[i] = q[i + 1] /\ i + 1 \in 1..Len(q)
         /\ Len(q) >= 1 /\ 1 \in 1..Len(q) /\ Head(q) = q[1] /\ Head(q) \in S
BY HeadTailProperties

\* The elements of a sequence from the m-th to the n-th.
LEMMA Cut ==
  ASSUME NEW S, NEW q \in Seq(S), NEW m \in Nat \ {0}, NEW n \in Nat, n <= Len(q), m <= n + 1,
         NEW w, w = SubSeq(q, m, n)
  PROVE  /\ w \in Seq(S) /\ Len(w) = (n - m) + 1
         /\ \A i \in 1..Len(w) : w[i] = q[(m + i) - 1]
<1>1. Len(q) \in Nat /\ DOMAIN q = 1..Len(q)
  OBVIOUS
<1>2. \A i \in m..n : i \in 1..Len(q)
  BY <1>1
<1>3. \A i \in m..n : q[i] \in S
  BY <1>2, ElementOfSeq
<1>4. /\ SubSeq(q, m, n) \in Seq(S)
      /\ Len(SubSeq(q, m, n)) = IF m <= n THEN n - m + 1 ELSE 0
      /\ \A i \in 1..(n - m + 1) : SubSeq(q, m, n)[i] = q[m + i - 1]
  BY <1>3, SubSeqProperties
<1>5. (IF m <= n THEN n - m + 1 ELSE 0) = (n - m) + 1
  OBVIOUS
<1> QED BY <1>4, <1>5

\* Without its first element, a list without repetitions has no longer that one.
LEMMA FirstGone ==
  ASSUME NEW S, NEW q \in Seq(S), q # <<>>, IsInjective(q), NEW w, w = Tail(q)
  PROVE  w \in Seq(S) /\ IsInjective(w) /\ ToSet(w) = ToSet(q) \ {Head(q)} /\ Head(q) \in ToSet(q)
<1>1. /\ w \in Seq(S) /\ Len(w) = Len(q) - 1 /\ Len(q) \in Nat
      /\ \A i \in 1..Len(w) : w[i] = q[i + 1] /\ i + 1 \in 1..Len(q)
      /\ Len(q) >= 1 /\ 1 \in 1..Len(q) /\ Head(q) = q[1]
  BY Shortened
<1>2. DOMAIN q = 1..Len(q) /\ DOMAIN w = 1..Len(w)
  BY <1>1
<1>3. IsInjective(w)
  BY <1>1, <1>2 DEF IsInjective
<1>4. 1 \in DOMAIN q /\ Head(q) \in ToSet(q)
  BY <1>1, <1>2 DEF ToSet
<1>5. ASSUME NEW x \in ToSet(w) PROVE x \in ToSet(q) \ {Head(q)}
  <2>1. PICK i \in 1..Len(w) : x = w[i]
    BY <1>2 DEF ToSet
  <2>2. x = q[i + 1] /\ i + 1 \in DOMAIN q /\ i + 1 # 1
    BY <1>1, <1>2, <2>1
  <2> QED BY <1>1, <1>4, <2>2 DEF ToSet, IsInjective
<1>6. ASSUME NEW x \in ToSet(q) \ {Head(q)} PROVE x \in ToSet(w)
  <2>1. PICK i \in 1..Len(q) : x = q[i]
    BY <1>2 DEF ToSet
  <2>2. i # 1 /\ i - 1 \in 1..Len(w)
    BY <1>1, <2>1
  <2>3. w[i - 1] = q[(i - 1) + 1] /\ (i - 1) + 1 = i
    BY <1>1, <2>2
  <2> QED BY <1>2, <2>1, <2>2, <2>3 DEF ToSet
<1> QED BY <1>1, <1>3, <1>4, <1>5, <1>6

\* With a new element appended.
LEMMA OneMore ==
  ASSUME NEW S, NEW q \in Seq(S), NEW e \in S, e \notin ToSet(q), IsInjective(q)
  PROVE  /\ Append(q, e) \in Seq(S) /\ IsInjective(Append(q, e))
         /\ ToSet(Append(q, e)) = ToSet(q) \cup {e}
<1>0. PICK w : w = Append(q, e)
  OBVIOUS
<1>1. /\ w \in Seq(S) /\ Len(w) = Len(q) + 1 /\ Len(q) \in Nat
      /\ \A i \in 1..Len(q) : w[i] = q[i]
      /\ w[Len(q) + 1] = e
  BY <1>0, Appended
<1>2. DOMAIN q = 1..Len(q) /\ DOMAIN w = 1..Len(w)
  BY <1>1
<1>3. \A i \in 1..Len(w) : i \in 1..Len(q) \/ i = Len(q) + 1
  BY <1>1
<1>4. \A i \in 1..Len(q) : q[i] # e /\ i \in 1..Len(w)
  BY <1>1, <1>2 DEF ToSet
<1>5. IsInjective(w)
  BY <1>1, <1>2, <1>3, <1>4 DEF IsInjective
<1>6. Len(q) + 1 \in 1..Len(w)
  BY <1>1
<1>7. ToSet(w) = ToSet(q) \cup {e}
  BY <1>1, <1>2, <1>3, <1>4, <1>6 DEF ToSet
<1> QED BY <1>0, <1>1, <1>5, <1>7

\* With the element at one place erased.
LEMMA OneErased ==
  ASSUME NEW S, NEW q \in Seq(S), NEW k \in 1..Len(q), IsInjective(q), NEW w, w = RemoveAt(q, k)
  PROVE  w \in Seq(S) /\ IsInjective(w) /\ ToSet(w) = ToSet(q) \ {q[k]}
<1>1. Len(q) \in Nat /\ DOMAIN q = 1..Len(q)
  OBVIOUS
<1>2. PICK a, b : a = SubSeq(q, 1, k - 1) /\ b = SubSeq(q, k + 1, Len(q))
  OBVIOUS
<1>3. /\ a \in Seq(S) /\ Len(a) = k - 1 /\ \A i \in 1..Len(a) : a[i] = q[i]
      /\ b \in Seq(S) /\ Len(b) = Len(q) - k /\ \A i \in 1..Len(b) : b[i] = q[k + i]
  <2>1. /\ a \in Seq(S) /\ Len(a) = ((k - 1) - 1) + 1
        /\ \A i \in 1..Len(a) : a[i] = q[(1 + i) - 1]
    <3>1. k - 1 \in Nat /\ k - 1 <= Len(q) /\ 1 <= (k - 1) + 1
      BY <1>1
    <3> QED BY <1>2, <3>1, Cut
  <2>2. /\ b \in Seq(S) /\ Len(b) = (Len(q) - (k + 1)) + 1
        /\ \A i \in 1..Len(b) : b[i] = q[((k + 1) + i) - 1]
    <3>1. PICK l \in Nat : l = Len(q)
      BY <1>1
    <3>2. k + 1 \in Nat \ {0} /\ l <= Len(q) /\ k + 1 <= l + 1
      BY <1>1, <3>1
    <3>3. b = SubSeq(q, k + 1, l)
      BY <1>2, <3>1
    <3> QED BY <3>1, <3>2, <3>3, Cut
  <2> QED BY <1>1, <2>1, <2>2
<1>4. w = a \o b
  BY <1>2 DEF RemoveAt
<1>5. /\ w \in Seq(S) /\ Len(w) = Len(a) + Len(b)
      /\ \A i \in 1..Len(w) : w[i] = IF i <= Len(a) THEN a[i] ELSE b[i - Len(a)]
  <2>1. PICK l, r : l = Len(a) /\ r = Len(b)
    OBVIOUS
  <2>2. /\ a \o b \in Seq(S) /\ Len(a \o b) = l + r
        /\ \A i \in 1..l + r : (a \o b)[i] = IF i <= l THEN a[i] ELSE b[i - l]
    BY <1>3, <2>1, ConcatProperties
  <2> QED BY <1>4, <2>1, <2>2
<1>6. \A i \in 1..Len(w) : \E j \in 1..Len(q) : w[i] = q[j] /\ j = IF i < k THEN i ELSE i + 1
  BY <1>1, <1>3, <1>5
<1>7. DOMAIN w = 1..Len(w)
  BY <1>5
<1>8. IsInjective(w)
  <2> SUFFICES ASSUME NEW i \in 1..Len(w), NEW m \in 1..Len(w), w[i] = w[m] PROVE i = m
    BY <1>7 DEF IsInjective
  <2>1. PICK j \in 1..Len(q), p \in 1..Len(q) :
          /\ w[i] = q[j] /\ j = IF i < k THEN i ELSE i + 1
          /\ w[m] = q[p] /\ p = IF m < k THEN m ELSE m + 1
    BY <1>6
  <2>2. j = p
    BY <1>1, <2>1 DEF IsInjective
  <2> QED BY <2>1, <2>2
<1>9. ASSUME NEW x \in ToSet(w) PROVE x \in ToSet(q) \ {q[k]}
  <2>1. PICK i \in 1..Len(w) : x = w[i]
    BY <1>7 DEF ToSet
  <2>2. PICK j \in 1..Len(q) : x = q[j] /\ j # k
    BY <1>6, <2>1
  <2> QED BY <1>1, <2>2 DEF ToSet, IsInjective
<1>10. ASSUME NEW x \in ToSet(q) \ {q[k]} PROVE x \in ToSet(w)
  <2>1. PICK j \in 1..Len(q) : x = q[j] /\ j # k
    BY <1>1 DEF ToSet
  <2>2. PICK i \in 1..Len(w) : i = IF j < k THEN j ELSE j - 1
    BY <1>1, <1>3, <1>5, <2>1
  <2>3. w[i] = q[j]
    BY <1>1, <1>3, <1>5, <2>1, <2>2
  <2> QED BY <1>7, <2>1, <2>2, <2>3 DEF ToSet
<1> QED BY <1>5, <1>8, <1>9, <1>10

-----------------------------------------------------------------------------

\* Life: a subscriber that never was on the list is offered nothing; one on the
\* list is not being stopped; one being stopped had been started, and a stopped one
\* has been waited for or is about to be.
Life(s) ==
  /\ sub[s].thread = "none" /\ s \notin ToSet(subs) => sub[s] = Unborn /\ Underway(s) = {}
  /\ s \in ToSet(subs) => ~sub[s].stopping /\ s \notin ToSet(closing)
  /\ s \in ToSet(closing) => sub[s].thread # "none"
  /\ sub[s].stopping => s \in ToSet(closing) \/ sub[s].thread = "ended"

LifeInv ==
  /\ IsInjective(subs)
  /\ \A t \in Thread : IsInjective(firing[t].offers)
  /\ \A s \in Sub : Life(s)

\* The events that reached a subscriber, wherever they are now.
InHand(b)  == IF b.thread = "calling" THEN 1 ELSE 0
Reached(b) == (b.delivered + b.summarized) + (Len(b.q) + InHand(b))

Accounted(s) ==
  /\ IsFiniteSet(Underway(s))
  /\ s \in ToSet(subs) /\ ~sub[s].detached =>
       sub[s].owed = Reached(sub[s]) + Cardinality(Underway(s))

CountInv == \A s \in Sub : Accounted(s)

\* The event a thread is offering is its own and its newest.
Ahead(t) ==
  Firing(t) => /\ firing[t].ev \in 1..seq
               /\ firedBy[firing[t].ev] = t

\* Of n events, fired by fb, those in queue q are ahead of what was seen, and those
\* of one thread are in order.
Ordered(q, n, fb, seen) ==
  \A i \in 1..Len(q) :
    /\ q[i] \in 1..n
    /\ seen[fb[q[i]]] < q[i]
    /\ \A j \in 1..Len(q) : i < j /\ fb[q[i]] = fb[q[j]] => q[i] < q[j]

\* What thread t fired of q is older than e.
Behind(q, fb, t, e) == \A i \in 1..Len(q) : fb[q[i]] = t => q[i] < e

\* A queue is in order, and behind what is under way to it.
InLine(s) ==
  /\ Ordered(sub[s].q, seq, firedBy, newest[s])
  /\ \A t \in Underway(s) :
       newest[s][t] < firing[t].ev /\ Behind(sub[s].q, firedBy, t, firing[t].ev)

OrderInv ==
  /\ \A t \in Thread : Ahead(t)
  /\ \A s \in Sub : InLine(s)

IInv == TypeOK /\ LifeInv /\ CountInv /\ OrderInv

-----------------------------------------------------------------------------
(* What the operations do to one subscriber.                                *)

\* What stays the same of subscriber b in c, but for queue and loss.
Like(b, c) ==
  /\ c.thread = b.thread /\ c.delivered = b.delivered
  /\ c.stopping = b.stopping /\ c.owed = b.owed

\* A subscriber with another queue.
LEMMA QueueReplaced ==
  ASSUME NEW b \in Subscriber, NEW w \in Seq(Nat), NEW c, c = [b EXCEPT !.q = w]
  PROVE  /\ c \in Subscriber /\ c.q = w /\ Like(b, c)
         /\ c.summarized = b.summarized /\ c.detached = b.detached
BY DEF Subscriber, Like

\* A subscriber that is owed another number of events.
LEMMA OwedReplaced ==
  ASSUME NEW b \in Subscriber, NEW n \in Nat, NEW c, c = [b EXCEPT !.owed = n]
  PROVE  /\ c \in Subscriber /\ c.owed = n /\ c.q = b.q /\ c.thread = b.thread
         /\ c.delivered = b.delivered /\ c.summarized = b.summarized
         /\ c.stopping = b.stopping /\ c.detached = b.detached
         /\ n = b.owed => c = b
BY DEF Subscriber

\* A notify changes nothing but that a sleeping worker is ready.
LEMMA NotifiedIs ==
  ASSUME NEW b \in Subscriber, NEW c, c = Notified(b)
  PROVE  /\ c \in Subscriber
         /\ c.q = b.q /\ c.delivered = b.delivered /\ c.summarized = b.summarized
         /\ c.stopping = b.stopping /\ c.detached = b.detached /\ c.owed = b.owed
         /\ c.thread # b.thread => b.thread = "asleep" /\ c.thread = "ready"
BY DEF Notified, Subscriber

\* An offer takes the event, or a newer one for an older one that it counts, or
\* cuts the subscriber off; one that is stopping or cut off stays as it is.
OfferTaken(b, c, e) ==
  /\ c \in Subscriber /\ Len(c.q) <= Capacity
  /\ c.delivered = b.delivered /\ c.stopping = b.stopping /\ c.owed = b.owed
  /\ c.thread # b.thread => b.thread = "asleep" /\ c.thread = "ready"
  /\ b.stopping \/ b.detached => c = b
  /\ ~b.stopping /\ ~c.detached =>
       ~b.detached /\ c.summarized + Len(c.q) = b.summarized + Len(b.q) + 1
  /\ \/ c.q = b.q \/ c.q = <<>> \/ c.q = Append(b.q, e)
     \/ b.q # <<>> /\ c.q = Append(Tail(b.q), e)

\* An offer does one of these.
LEMMA OfferedIs ==
  ASSUME NEW s \in Sub, NEW b \in Subscriber, NEW e \in Nat, Len(b.q) <= Capacity,
         NEW c, c = Offered(s, b, e)
  PROVE  OfferTaken(b, c, e)
<1>1. Capacity \in Nat \ {0}
  BY EventHubAssumption
<1>2. b.q \in Seq(Nat) /\ b.summarized \in Nat
  BY DEF Subscriber
<1>3. CASE b.stopping \/ b.detached
  BY <1>2, <1>3 DEF Offered, OfferTaken
<1>4. CASE ~(b.stopping \/ b.detached) /\ Len(b.q) < Capacity
  <2>1. PICK w \in Seq(Nat) : w = Append(b.q, e) /\ Len(w) = Len(b.q) + 1
    <3>1. PICK w, q : q = b.q /\ w = Append(q, e)
      OBVIOUS
    <3>2. q \in Seq(Nat)
      BY <1>2, <3>1
    <3>3. w \in Seq(Nat) /\ Len(w) = Len(q) + 1
      BY <3>1, <3>2, Appended
    <3> QED BY <3>1, <3>3
  <2>2. PICK d : d = [b EXCEPT !.q = w]
    OBVIOUS
  <2>3. c = Notified(d)
    BY <1>4, <2>1, <2>2 DEF Offered, Queued
  <2>4. d \in Subscriber /\ d.q = w /\ Like(b, d) /\ d.summarized = b.summarized /\ d.detached = b.detached
    BY <2>2, QueueReplaced
  <2>5. /\ c \in Subscriber /\ c.q = w /\ c.delivered = b.delivered /\ c.summarized = b.summarized
        /\ c.stopping = b.stopping /\ c.detached = b.detached /\ c.owed = b.owed
        /\ c.thread # b.thread => b.thread = "asleep" /\ c.thread = "ready"
    BY <2>3, <2>4, NotifiedIs DEF Like
  <2>6. Len(b.q) \in Nat /\ Len(w) <= Capacity
    BY <1>1, <1>2, <1>4, <2>1
  <2>7. ~b.stopping /\ ~b.detached
    BY <1>4
  <2>8. c.summarized + Len(c.q) = b.summarized + Len(b.q) + 1
    <3>1. c.summarized = b.summarized /\ Len(c.q) = Len(b.q) + 1
      BY <2>1, <2>5
    <3> QED BY <1>2, <2>6, <3>1
  <2> QED BY <2>1, <2>5, <2>6, <2>7, <2>8 DEF OfferTaken
<1>5. CASE ~(b.stopping \/ b.detached) /\ ~(Len(b.q) < Capacity) /\ s \in Detaching
  <2>1. PICK w \in Seq(Nat) : w = <<>> /\ Len(w) = 0
    BY EmptySeq
  <2>2. PICK d : d = [b EXCEPT !.detached = TRUE, !.q = w]
    OBVIOUS
  <2>3. c = Notified(d)
    BY <1>5, <2>1, <2>2 DEF Offered
  <2>4. d \in Subscriber /\ d.q = w /\ Like(b, d) /\ d.detached = TRUE
    BY <2>2 DEF Subscriber, Like
  <2> QED BY <1>1, <1>5, <2>1, <2>3, <2>4, NotifiedIs DEF OfferTaken, Like
<1>6. CASE ~(b.stopping \/ b.detached) /\ ~(Len(b.q) < Capacity) /\ s \notin Detaching
  <2>1. b.q # <<>>
    BY <1>1, <1>2, <1>6
  <2>2. PICK w \in Seq(Nat) : w = Tail(b.q) /\ Len(w) = Len(b.q) - 1
    BY <1>2, <2>1, Shortened
  <2>3. PICK x \in Seq(Nat) : x = Append(w, e) /\ Len(x) = Len(b.q)
    <3>1. PICK x : x = Append(w, e)
      OBVIOUS
    <3>2. w \in Seq(Nat) /\ Len(w) + 1 = Len(b.q)
      BY <1>2, <2>2
    <3>3. x \in Seq(Nat) /\ Len(x) = Len(w) + 1
      BY <3>1, Appended
    <3> QED BY <3>1, <3>2, <3>3
  <2>4. PICK d : d = [b EXCEPT !.q = w, !.summarized = @ + 1]
    OBVIOUS
  <2>5. d \in Subscriber /\ d.q = w /\ Like(b, d) /\ d.summarized = b.summarized + 1 /\ d.detached = b.detached
    <3>1. PICK n \in Nat : n = b.summarized + 1
      BY <1>2
    <3>2. d = [b EXCEPT !.q = w, !.summarized = n]
      BY <2>4, <3>1
    <3> QED BY <3>1, <3>2 DEF Subscriber, Like
  <2>6. PICK f : f = [d EXCEPT !.q = x]
    OBVIOUS
  <2>7. c = Notified(f)
    BY <1>6, <2>2, <2>3, <2>4, <2>5, <2>6 DEF Offered, Queued
  <2>8. f \in Subscriber /\ f.q = x /\ Like(b, f) /\ f.summarized = b.summarized + 1 /\ f.detached = b.detached
    BY <2>5, <2>6, QueueReplaced DEF Like
  <2>9. /\ c \in Subscriber /\ c.q = x /\ c.delivered = b.delivered /\ c.summarized = b.summarized + 1
        /\ c.stopping = b.stopping /\ c.detached = b.detached /\ c.owed = b.owed
        /\ c.thread # b.thread => b.thread = "asleep" /\ c.thread = "ready"
    BY <2>7, <2>8, NotifiedIs DEF Like
  <2>10. Len(b.q) \in Nat /\ Len(x) <= Capacity /\ c.q = Append(Tail(b.q), e)
    BY <1>1, <1>2, <2>2, <2>3, <2>9
  <2>11. ~b.stopping /\ ~b.detached
    BY <1>6
  <2>12. c.summarized + Len(c.q) = b.summarized + Len(b.q) + 1
    BY <1>2, <2>3, <2>9, <2>10
  <2> QED BY <2>1, <2>3, <2>9, <2>10, <2>11, <2>12 DEF OfferTaken
<1> QED BY <1>3, <1>4, <1>5, <1>6

\* What reached a subscriber is a number.
LEMMA ReachedNat == ASSUME NEW b \in Subscriber PROVE Reached(b) \in Nat
<1>1. b.delivered \in Nat /\ b.summarized \in Nat /\ InHand(b) \in Nat /\ b.q \in Seq(Nat)
  BY DEF Subscriber, InHand
<1>2. PICK l \in Nat : l = Len(b.q)
  BY <1>1
<1>3. Reached(b) = (b.delivered + b.summarized) + (l + InHand(b))
  BY <1>2 DEF Reached
<1> QED BY <1>1, <1>3

\* The types, in the form the steps use.
LEMMA Types ==
  ASSUME TypeOK
  PROVE  /\ seq \in Nat /\ subs \in Seq(Sub) /\ closing \in Seq(Sub) /\ Len(firedBy) = seq
         /\ firing \in [Thread -> Dispatch] /\ sub \in [Sub -> Subscriber]
         /\ firedBy \in Seq(Thread) /\ newest \in [Sub -> [Thread -> 0..seq]]
         /\ \A t \in Thread : firing[t].ev \in Nat /\ firing[t].offers \in Seq(Sub)
         /\ \A s \in Sub :
              /\ sub[s] \in Subscriber
              /\ sub[s].q \in Seq(Nat) /\ Len(sub[s].q) \in Nat /\ Len(sub[s].q) <= Capacity
              /\ sub[s].delivered \in Nat /\ sub[s].summarized \in Nat /\ sub[s].owed \in Nat
              /\ sub[s].stopping \in BOOLEAN /\ sub[s].detached \in BOOLEAN
              /\ sub[s].thread \in {"none", "ready", "asleep", "calling", "ended"}
BY DEF TypeOK, Dispatch, Subscriber

-----------------------------------------------------------------------------
(* What the queues are after an operation.                                  *)

\* A queue stays in order without its first event, which is then what was seen last.
LEMMA OldestTaken ==
  ASSUME NEW q \in Seq(Nat), q # <<>>, NEW n \in Nat, NEW fb, NEW T, NEW seen \in [T -> 0..n],
         fb[Head(q)] \in T, Ordered(q, n, fb, seen),
         NEW w, w = Tail(q)
  PROVE  /\ Ordered(w, n, fb, seen)
         /\ Ordered(w, n, fb, [seen EXCEPT ![fb[Head(q)]] = Head(q)])
         /\ \A t, e : Behind(q, fb, t, e) => Behind(w, fb, t, e)
         /\ Head(q) \in 1..n /\ seen[fb[Head(q)]] < Head(q)
         /\ \A e : Behind(q, fb, fb[Head(q)], e) => Head(q) < e
<1>1. /\ w \in Seq(Nat) /\ Len(w) = Len(q) - 1 /\ Len(q) \in Nat
      /\ \A i \in 1..Len(w) : w[i] = q[i + 1] /\ i + 1 \in 1..Len(q)
      /\ Len(q) >= 1 /\ 1 \in 1..Len(q) /\ Head(q) = q[1]
  BY Shortened
<1>2. Ordered(w, n, fb, seen)
  <2> SUFFICES ASSUME NEW i \in 1..Len(w)
               PROVE  /\ w[i] \in 1..n
                      /\ seen[fb[w[i]]] < w[i]
                      /\ \A j \in 1..Len(w) : i < j /\ fb[w[i]] = fb[w[j]] => w[i] < w[j]
    BY DEF Ordered
  <2>1. w[i] \in 1..n /\ seen[fb[w[i]]] < w[i]
    BY <1>1 DEF Ordered
  <2>2. ASSUME NEW j \in 1..Len(w), i < j, fb[w[i]] = fb[w[j]] PROVE w[i] < w[j]
    <3>1. i + 1 < j + 1
      BY <2>2
    <3> QED BY <1>1, <2>2, <3>1 DEF Ordered
  <2> QED BY <2>1, <2>2
<1>3. \A i \in 1..Len(w) : fb[w[i]] = fb[Head(q)] => Head(q) < w[i]
  <2> TAKE i \in 1..Len(w)
  <2>1. 1 < i + 1
    OBVIOUS
  <2> QED BY <1>1, <2>1 DEF Ordered
<1>4. Ordered(w, n, fb, [seen EXCEPT ![fb[Head(q)]] = Head(q)])
  BY <1>2, <1>3 DEF Ordered
<1> QED BY <1>1, <1>2, <1>4 DEF Ordered, Behind

\* A queue stays in order when the newest event of a thread is appended.
LEMMA NewestAppended ==
  ASSUME NEW q \in Seq(Nat), NEW n \in Nat, NEW fb, NEW seen, NEW e \in 1..n,
         Ordered(q, n, fb, seen), seen[fb[e]] < e, Behind(q, fb, fb[e], e),
         NEW w, w = Append(q, e)
  PROVE  Ordered(w, n, fb, seen)
<1>1. /\ w \in Seq(Nat) /\ Len(w) = Len(q) + 1 /\ Len(q) \in Nat
      /\ \A i \in 1..Len(q) : w[i] = q[i]
      /\ w[Len(q) + 1] = e
  BY Appended
<1>2. \A i \in 1..Len(w) : \/ i \in 1..Len(q) /\ w[i] = q[i]
                           \/ i = Len(q) + 1 /\ w[i] = e
  BY <1>1
<1>3. Ordered(w, n, fb, seen)
  <2> SUFFICES ASSUME NEW i \in 1..Len(w)
               PROVE  /\ w[i] \in 1..n
                      /\ seen[fb[w[i]]] < w[i]
                      /\ \A j \in 1..Len(w) : i < j /\ fb[w[i]] = fb[w[j]] => w[i] < w[j]
    BY DEF Ordered
  <2>1. w[i] \in 1..n /\ seen[fb[w[i]]] < w[i]
    BY <1>2 DEF Ordered
  <2>2. ASSUME NEW j \in 1..Len(w), i < j, fb[w[i]] = fb[w[j]] PROVE w[i] < w[j]
    <3>1. i \in 1..Len(q) /\ w[i] = q[i]
      BY <1>1, <1>2, <2>2
    <3> QED BY <1>2, <2>2, <3>1 DEF Ordered, Behind
  <2> QED BY <2>1, <2>2
<1> QED BY <1>3

\* It is no event of another thread.
LEMMA OthersBehind ==
  ASSUME NEW q \in Seq(Nat), NEW fb, NEW e \in Nat, NEW w, w = Append(q, e),
         NEW t, NEW x, t # fb[e], Behind(q, fb, t, x)
  PROVE  Behind(w, fb, t, x)
<1>1. /\ w \in Seq(Nat) /\ Len(w) = Len(q) + 1 /\ Len(q) \in Nat
      /\ \A i \in 1..Len(q) : w[i] = q[i]
      /\ w[Len(q) + 1] = e
  BY Appended
<1>2. \A i \in 1..Len(w) : \/ i \in 1..Len(q) /\ w[i] = q[i]
                           \/ i = Len(q) + 1 /\ w[i] = e
  BY <1>1
<1> QED BY <1>2 DEF Behind

-----------------------------------------------------------------------------
(* The invariant is kept, one lemma for each step.                          *)

\* At first nothing was fired and nobody is on the list.
LEMMA InitIInv == Init => IInv
<1> SUFFICES ASSUME Init PROVE IInv
  OBVIOUS
<1>1. Unborn \in Subscriber /\ Outside \in Dispatch
  BY DEF Unborn, Subscriber, Outside, Dispatch
<1>2. TypeOK
  BY <1>1, EventHubAssumption DEF Init, TypeOK, Unborn
<1>3. \A s \in Sub : Underway(s) = {}
  BY DEF Init, Outside, Underway, ToSet
<1>4. ToSet(subs) = {} /\ ToSet(closing) = {}
  BY DEF Init, ToSet
<1>5. LifeInv
  BY <1>3, <1>4 DEF Init, LifeInv, Life, IsInjective, Outside, Unborn
<1>6. CountInv
  BY <1>3, <1>4, FS_EmptySet DEF CountInv, Accounted
<1>7. OrderInv
  BY <1>3 DEF Init, OrderInv, Ahead, InLine, Ordered, Firing, Outside, Unborn
<1> QED BY <1>2, <1>5, <1>6, <1>7 DEF IInv

\* Firing owes one event to everybody on the list, and it is under way.
LEMMA FireKeeps ==
  ASSUME TypeOK, LifeInv, CountInv, OrderInv, NEW t \in Thread, Fire(t)
  PROVE  IInv'
<1>1. /\ seq' = seq + 1 /\ subs' = subs /\ closing' = closing /\ newest' = newest
      /\ firedBy' = Append(firedBy, t)
      /\ firing' = [firing EXCEPT ![t] = IF subs = <<>> THEN Outside ELSE [ev |-> seq + 1, offers |-> subs]]
      /\ sub' = [s \in Sub |-> [sub[s] EXCEPT !.owed = @ + (IF s \in ToSet(subs) THEN 1 ELSE 0)]]
      /\ firing[t].offers = <<>>
  BY DEF Fire, Firing
<1>2. /\ \A u \in Thread \ {t} : firing'[u] = firing[u]
      /\ firing'[t] \in Dispatch /\ firing'[t].offers = subs
      /\ subs # <<>> => firing'[t].ev = seq + 1
  BY <1>1 DEF TypeOK, Dispatch, Outside
<1>3. \A s \in Sub :
        /\ sub'[s] \in Subscriber /\ sub'[s].q = sub[s].q /\ sub'[s].thread = sub[s].thread
        /\ sub'[s].delivered = sub[s].delivered /\ sub'[s].summarized = sub[s].summarized
        /\ sub'[s].stopping = sub[s].stopping /\ sub'[s].detached = sub[s].detached
        /\ sub'[s].owed = sub[s].owed + (IF s \in ToSet(subs) THEN 1 ELSE 0)
        /\ s \notin ToSet(subs) => sub'[s] = sub[s]
  <2> TAKE s \in Sub
  <2>1. PICK n \in Nat : n = sub[s].owed + (IF s \in ToSet(subs) THEN 1 ELSE 0)
    <3>1. sub[s].owed \in Nat /\ (IF s \in ToSet(subs) THEN 1 ELSE 0) \in Nat
      BY Types
    <3>2. sub[s].owed + (IF s \in ToSet(subs) THEN 1 ELSE 0) \in Nat
      BY <3>1
    <3> QED BY <3>2
  <2>2. sub'[s] = [sub[s] EXCEPT !.owed = n]
    BY <1>1, <2>1
  <2>3. PICK b \in Subscriber : b = sub[s]
    BY Types
  <2> QED BY <2>1, <2>2, <2>3, OwedReplaced, Types
<1>4. TypeOK'
  <2>1. firing' \in [Thread -> Dispatch]
    BY <1>1, <1>2, Types
  <2>2. firedBy' \in Seq(Thread) /\ Len(firedBy') = seq'
    BY <1>1, Types
  <2>3. sub' \in [Sub -> Subscriber]
    BY <1>1, <1>3
  <2>4. newest' \in [Sub -> [Thread -> 0..seq']]
    <3>1. 0..seq \subseteq 0..seq'
      BY <1>1, Types
    <3> QED BY <1>1, <3>1, Types
  <2>5. \A s \in Sub : Len(sub'[s].q) <= Capacity
    BY <1>3, Types
  <2>6. seq' \in Nat /\ subs' \in Seq(Sub) /\ closing' \in Seq(Sub)
    BY <1>1, Types
  <2> QED BY <2>1, <2>2, <2>3, <2>4, <2>5, <2>6 DEF TypeOK
<1>5. \A s \in Sub : t \notin Underway(s) /\ Underway(s)' = Underway(s) \cup (IF s \in ToSet(subs) THEN {t} ELSE {})
  <2> TAKE s \in Sub
  <2>1. s \notin ToSet(firing[t].offers)
    BY <1>1 DEF ToSet
  <2>2. ToSet(firing'[t].offers) = ToSet(subs)
    BY <1>2
  <2>3. \A u \in Thread \ {t} : ToSet(firing'[u].offers) = ToSet(firing[u].offers)
    BY <1>2
  <2> QED BY <2>1, <2>2, <2>3 DEF Underway
<1>6. LifeInv'
  <2>1. IsInjective(subs')
    BY <1>1 DEF LifeInv
  <2>2. \A u \in Thread : IsInjective(firing'[u].offers)
    BY <1>2, <2>1, <1>1 DEF LifeInv
  <2>3. ASSUME NEW s \in Sub PROVE Life(s)'
    <3>1. Life(s) /\ ToSet(subs') = ToSet(subs) /\ ToSet(closing') = ToSet(closing)
      BY <1>1 DEF LifeInv
    <3>2. s \notin ToSet(subs) => sub'[s] = sub[s] /\ Underway(s)' = Underway(s)
      BY <1>3, <1>5
    <3> QED BY <1>3, <3>1, <3>2 DEF Life
  <2> QED BY <2>1, <2>2, <2>3 DEF LifeInv
<1>7. CountInv'
  <2> SUFFICES ASSUME NEW s \in Sub PROVE Accounted(s)'
    BY DEF CountInv
  <2>1. CASE s \in ToSet(subs)
    <3>1. IsFiniteSet(Underway(s)) /\ Cardinality(Underway(s)) \in Nat
      BY FS_CardinalityType DEF CountInv, Accounted
    <3>2. Underway(s)' = Underway(s) \cup {t} /\ t \notin Underway(s)
      BY <1>5, <2>1
    <3>3. PICK U, V : U = Underway(s) /\ V = Underway(s)'
      OBVIOUS
    <3>4. IsFiniteSet(V) /\ Cardinality(V) = Cardinality(U) + 1
      <4>1. IsFiniteSet(U) /\ V = U \cup {t} /\ t \notin U
        BY <3>1, <3>2, <3>3
      <4> QED BY <4>1, FS_AddElement
    <3>5. Reached(sub'[s]) = Reached(sub[s]) /\ Reached(sub[s]) \in Nat
      <4>1. PICK b, c : b = sub[s] /\ c = sub'[s]
        OBVIOUS
      <4>2. /\ b \in Subscriber /\ c.delivered = b.delivered /\ c.summarized = b.summarized
            /\ c.q = b.q /\ c.thread = b.thread
        BY <1>3, <4>1, Types
      <4>3. Reached(c) = Reached(b)
        BY <4>2 DEF Reached, InHand
      <4> QED BY <4>1, <4>2, <4>3, ReachedNat
    <3>6. Accounted(s) /\ sub'[s].owed = sub[s].owed + 1 /\ ToSet(subs') = ToSet(subs)
      BY <1>1, <1>3, <2>1 DEF CountInv
    <3>7. Cardinality(Underway(s)') = Cardinality(Underway(s)) + 1 /\ IsFiniteSet(Underway(s)')
      BY <3>3, <3>4
    <3>8. sub'[s].detached = sub[s].detached
      BY <1>3
    <3> QED BY <2>1, <3>1, <3>5, <3>6, <3>7, <3>8 DEF Accounted
  <2>2. CASE s \notin ToSet(subs)
    <3>1. Underway(s)' = Underway(s)
      BY <1>5, <2>2
    <3> QED BY <1>1, <2>2, <3>1 DEF CountInv, Accounted, ToSet
  <2> QED BY <2>1, <2>2
<1>8. /\ \A e \in 1..seq : firedBy'[e] = firedBy[e]
      /\ firedBy'[seq + 1] = t
  BY <1>1, Types
<1>9. \A u \in Thread : Ahead(u)'
  <2>1. Ahead(t)'
    <3>1. firing'[t].offers # <<>> => firing'[t].ev = seq + 1
      BY <1>2
    <3>2. seq + 1 \in 1..seq'
      BY <1>1, Types
    <3> QED BY <1>8, <3>1, <3>2 DEF Ahead, Firing
  <2>2. ASSUME NEW u \in Thread \ {t} PROVE Ahead(u)'
    BY <1>1, <1>2, <1>8, Types DEF OrderInv, Ahead, Firing
  <2> QED BY <2>1, <2>2
<1>10. ASSUME NEW s \in Sub PROVE InLine(s)'
  <2>1. \A i \in 1..Len(sub[s].q) : sub[s].q[i] \in 1..seq /\ firedBy'[sub[s].q[i]] = firedBy[sub[s].q[i]]
    BY <1>8 DEF OrderInv, InLine, Ordered
  <2>2. \A u \in Underway(s)' : u = t \/ u \in Underway(s)
    BY <1>5
  <2>3. t \in Underway(s)' => firing'[t].ev = seq + 1
    <3>1. t \in Underway(s)' => s \in ToSet(subs)
      BY <1>5
    <3>2. s \in ToSet(subs) => subs # <<>>
      BY DEF ToSet
    <3> QED BY <1>2, <3>1, <3>2
  <2>4. newest[s] \in [Thread -> 0..seq]
    BY Types
  <2>5. \A u \in Underway(s) : u \in Thread \ {t}
    BY <1>5 DEF Underway
  <2>6. ASSUME NEW i \in 1..Len(sub'[s].q)
        PROVE  /\ sub'[s].q[i] \in 1..seq'
               /\ newest'[s][firedBy'[sub'[s].q[i]]] < sub'[s].q[i]
               /\ \A j \in 1..Len(sub'[s].q) :
                    i < j /\ firedBy'[sub'[s].q[i]] = firedBy'[sub'[s].q[j]] => sub'[s].q[i] < sub'[s].q[j]
    <3>1. sub'[s].q = sub[s].q /\ newest'[s] = newest[s] /\ InLine(s)
      BY <1>1, <1>3 DEF OrderInv
    <3>2. 1..seq \subseteq 1..seq'
      BY <1>1, Types
    <3> QED BY <2>1, <2>6, <3>1, <3>2 DEF InLine, Ordered
  <2>7. ASSUME NEW u \in Underway(s)'
        PROVE  /\ newest'[s][u] < firing'[u].ev
               /\ \A i \in 1..Len(sub'[s].q) :
                    firedBy'[sub'[s].q[i]] = u => sub'[s].q[i] < firing'[u].ev
    <3>0. sub'[s].q = sub[s].q /\ newest'[s] = newest[s] /\ InLine(s)
      BY <1>1, <1>3 DEF OrderInv
    <3>1. CASE u = t
      <4>1. firing'[t].ev = seq + 1 /\ newest[s][t] \in 0..seq
        BY <2>3, <2>4, <2>7, <3>1
      <4> QED BY <2>1, <3>0, <3>1, <4>1, Types
    <3>2. CASE u \in Underway(s)
      <4>1. firing'[u] = firing[u]
        BY <1>2, <2>5, <3>2
      <4> QED BY <2>1, <3>0, <3>2, <4>1 DEF InLine, Behind
    <3> QED BY <2>2, <3>1, <3>2
  <2> QED BY <2>6, <2>7 DEF InLine, Ordered, Behind
<1> QED BY <1>4, <1>6, <1>7, <1>9, <1>10 DEF IInv, OrderInv

\* A step that touches neither a queue nor what is under way keeps the order.
LEMMA OrderFrame ==
  ASSUME OrderInv, UNCHANGED <<seq, firing, firedBy, newest>>, \A s \in Sub : sub'[s].q = sub[s].q
  PROVE  OrderInv'
<1>1. \A t \in Thread : Ahead(t)'
  BY DEF OrderInv, Ahead, Firing
<1>2. ASSUME NEW s \in Sub PROVE InLine(s)'
  <2>1. Underway(s)' = Underway(s)
    BY DEF Underway
  <2> QED BY <2>1 DEF OrderInv, InLine
<1> QED BY <1>1, <1>2 DEF OrderInv

\* A step that delivers nothing new to those that stay on the list keeps the count.
LEMMA CountFrame ==
  ASSUME CountInv, UNCHANGED firing,
         \A s \in Sub : s \in ToSet(subs') /\ ~sub'[s].detached =>
           /\ s \in ToSet(subs) /\ ~sub[s].detached
           /\ sub'[s].owed = sub[s].owed /\ Reached(sub'[s]) = Reached(sub[s])
  PROVE  CountInv'
<1> SUFFICES ASSUME NEW s \in Sub PROVE Accounted(s)'
  BY DEF CountInv
<1>1. Underway(s)' = Underway(s)
  BY DEF Underway
<1> QED BY <1>1 DEF CountInv, Accounted

\* What one offer leaves for the thread to do.
LEMMA FurtherIs ==
  ASSUME NEW f \in Dispatch, f.offers # <<>>, IsInjective(f.offers), NEW g, g = Further(f)
  PROVE  /\ g \in Dispatch /\ IsInjective(g.offers)
         /\ ToSet(g.offers) = ToSet(f.offers) \ {Head(f.offers)}
         /\ Head(f.offers) \in ToSet(f.offers) /\ Head(f.offers) \in Sub
         /\ g.offers # <<>> => g.ev = f.ev
<1>1. f.ev \in Nat /\ f.offers \in Seq(Sub) /\ f = [ev |-> f.ev, offers |-> f.offers]
  BY DEF Dispatch
<1>2. PICK w : w = Tail(f.offers)
  OBVIOUS
<1>3. /\ w \in Seq(Sub) /\ IsInjective(w) /\ ToSet(w) = ToSet(f.offers) \ {Head(f.offers)}
      /\ Head(f.offers) \in ToSet(f.offers)
  BY <1>1, <1>2, FirstGone
<1>4. Head(f.offers) \in Sub /\ Len(w) = Len(f.offers) - 1 /\ Len(f.offers) \in Nat
  BY <1>1, <1>2, Shortened
<1>5. CASE Len(f.offers) = 1
  <2>1. g = Outside /\ w = <<>>
    BY <1>3, <1>4, <1>5, EmptySeq DEF Further
  <2>2. g.offers = w /\ g \in Dispatch /\ w = <<>>
    BY <2>1 DEF Outside, Dispatch
  <2> QED BY <1>3, <1>4, <2>2
<1>6. CASE Len(f.offers) # 1
  <2>1. g = [f EXCEPT !.offers = w]
    BY <1>2, <1>6 DEF Further
  <2>2. g.offers = w /\ g.ev = f.ev /\ g \in Dispatch
    BY <1>1, <1>3, <2>1 DEF Dispatch
  <2> QED BY <1>3, <1>4, <2>2
<1> QED BY <1>5, <1>6

\* An event a subscriber takes has reached it.
LEMMA TakenReached ==
  ASSUME NEW b \in Subscriber, NEW c, NEW e, OfferTaken(b, c, e), ~b.stopping, ~c.detached
  PROVE  ~b.detached /\ Reached(c) = Reached(b) + 1 /\ c.owed = b.owed
<1>1. c \in Subscriber /\ InHand(c) = InHand(b) /\ InHand(b) \in Nat
  BY DEF OfferTaken, InHand
<1>2. PICK l, m : l = Len(b.q) /\ m = Len(c.q) /\ l \in Nat /\ m \in Nat
  <2>1. b.q \in Seq(Nat) /\ c.q \in Seq(Nat)
    BY <1>1 DEF Subscriber
  <2>2. Len(b.q) \in Nat /\ Len(c.q) \in Nat
    BY <2>1
  <2> QED BY <2>2
<1>3. b.delivered \in Nat /\ b.summarized \in Nat /\ c.summarized \in Nat
  BY <1>1 DEF Subscriber
<1>4. c.summarized + m = b.summarized + l + 1 /\ c.delivered = b.delivered /\ c.owed = b.owed /\ ~b.detached
  BY <1>2 DEF OfferTaken
<1>5. Reached(b) = (b.delivered + b.summarized) + (l + InHand(b))
  BY <1>2 DEF Reached
<1>6. Reached(c) = (b.delivered + c.summarized) + (m + InHand(b))
  BY <1>1, <1>2, <1>4 DEF Reached
<1>7. Reached(c) = Reached(b) + 1
  <2>1. PICK d, k, o, h : d = b.delivered /\ k = b.summarized /\ o = c.summarized /\ h = InHand(b)
    OBVIOUS
  <2>2. /\ d \in Nat /\ k \in Nat /\ o \in Nat /\ h \in Nat /\ l \in Nat /\ m \in Nat
        /\ o + m = k + l + 1
    BY <1>1, <1>2, <1>3, <1>4, <2>1
  <2>3. (d + o) + (m + h) = ((d + k) + (l + h)) + 1
    BY <2>2
  <2> QED BY <1>5, <1>6, <2>1, <2>3
<1> QED BY <1>4, <1>7

\* An offer takes the event from what is under way to the queue.
LEMMA OfferKeeps ==
  ASSUME TypeOK, LifeInv, CountInv, OrderInv, NEW t \in Thread, Offer(t)
  PROVE  IInv'
<1>1. PICK f, s, g : f = firing[t] /\ s = Head(f.offers) /\ g = Further(f)
  OBVIOUS
<1>2. f \in Dispatch /\ f.offers # <<>> /\ IsInjective(f.offers) /\ f.ev \in Nat
  BY <1>1 DEF TypeOK, Offer, Firing, LifeInv, Dispatch
<1>3. /\ g \in Dispatch /\ IsInjective(g.offers)
      /\ ToSet(g.offers) = ToSet(f.offers) \ {s} /\ s \in ToSet(f.offers) /\ s \in Sub
      /\ g.offers # <<>> => g.ev = f.ev
  BY <1>1, <1>2, FurtherIs
<1>4. PICK b, c : b = sub[s] /\ c = Offered(s, b, f.ev)
  OBVIOUS
<1>5. /\ sub' = [sub EXCEPT ![s] = c] /\ firing' = [firing EXCEPT ![t] = g]
      /\ UNCHANGED <<seq, subs, closing, firedBy, newest>>
  BY <1>1, <1>4 DEF Offer, hub, history
<1>6. b \in Subscriber /\ b.q \in Seq(Nat) /\ Len(b.q) <= Capacity
  BY <1>3, <1>4, Types
<1>7. OfferTaken(b, c, f.ev)
  BY <1>2, <1>3, <1>4, <1>6, OfferedIs
<1>8. c \in Subscriber /\ Len(c.q) <= Capacity
  BY <1>7 DEF OfferTaken
<1>9. /\ sub' \in [Sub -> Subscriber] /\ sub'[s] = c /\ \A r \in Sub \ {s} : sub'[r] = sub[r]
      /\ firing' \in [Thread -> Dispatch] /\ firing'[t] = g /\ \A u \in Thread \ {t} : firing'[u] = firing[u]
  BY <1>3, <1>5, <1>8, Types
<1>10. TypeOK'
  <2>1. \A r \in Sub : Len(sub'[r].q) <= Capacity
    BY <1>8, <1>9, Types
  <2> QED BY <1>5, <1>9, <2>1 DEF TypeOK
<1>11. /\ t \in Underway(s) /\ Underway(s)' = Underway(s) \ {t}
       /\ \A r \in Sub \ {s} : Underway(r)' = Underway(r)
  BY <1>1, <1>3, <1>9 DEF Underway
<1>12. LifeInv'
  <2>1. IsInjective(subs') /\ \A u \in Thread : IsInjective(firing'[u].offers)
    BY <1>3, <1>5, <1>9 DEF LifeInv
  <2>2. ASSUME NEW r \in Sub PROVE Life(r)'
    <3>1. Life(r) /\ ToSet(subs') = ToSet(subs) /\ ToSet(closing') = ToSet(closing)
      BY <1>5 DEF LifeInv
    <3>2. CASE r = s
      <4>1. /\ c.thread = "none" => b.thread = "none"
            /\ b.thread = "none" => c.thread = "none"
            /\ b.thread = "ended" => c.thread = "ended"
            /\ c.stopping = b.stopping
        BY <1>7 DEF OfferTaken
      <4> QED BY <1>4, <1>9, <1>11, <3>1, <3>2, <4>1 DEF Life
    <3>3. CASE r # s
      BY <1>9, <1>11, <3>1, <3>3 DEF Life
    <3> QED BY <3>2, <3>3
  <2> QED BY <2>1, <2>2 DEF LifeInv
<1>13. CountInv'
  <2> SUFFICES ASSUME NEW r \in Sub PROVE Accounted(r)'
    BY DEF CountInv
  <2>1. Accounted(r) /\ ToSet(subs') = ToSet(subs)
    BY <1>5 DEF CountInv
  <2>2. CASE r # s
    <3>1. sub'[r] = sub[r] /\ Underway(r)' = Underway(r)
      BY <1>9, <1>11, <2>2
    <3> QED BY <2>1, <3>1 DEF Accounted
  <2>3. CASE r = s
    <3>1. PICK U, V : U = Underway(s) /\ V = Underway(s)'
      OBVIOUS
    <3>2. IsFiniteSet(U) /\ Cardinality(U) \in Nat
      BY <2>1, <2>3, <3>1, FS_CardinalityType DEF Accounted
    <3>3. IsFiniteSet(V) /\ Cardinality(V) = Cardinality(U) - 1
      <4>1. V = U \ {t} /\ t \in U
        BY <1>11, <3>1
      <4> QED BY <3>2, <4>1, FS_RemoveElement
    <3>4. ASSUME s \in ToSet(subs), ~c.detached
          PROVE  c.owed = Reached(c) + Cardinality(V)
      <4>1. ~b.stopping
        BY <1>3, <1>4, <3>4 DEF LifeInv, Life
      <4>2. ~b.detached /\ Reached(c) = Reached(b) + 1 /\ c.owed = b.owed
        BY <1>6, <1>7, <3>4, <4>1, TakenReached
      <4>3. b.owed = Reached(b) + Cardinality(U)
        BY <1>4, <2>1, <2>3, <3>1, <3>4, <4>2 DEF Accounted
      <4>4. Reached(b) \in Nat
        BY <1>6, ReachedNat
      <4> QED BY <3>2, <3>3, <4>2, <4>3, <4>4
    <3> QED BY <1>9, <2>1, <2>3, <3>1, <3>3, <3>4 DEF Accounted
  <2> QED BY <2>2, <2>3
<1>14. ASSUME NEW u \in Thread PROVE Ahead(u)'
  <2>1. firing'[u].offers # <<>> => firing[u].offers # <<>> /\ firing'[u].ev = firing[u].ev
    BY <1>1, <1>2, <1>3, <1>9
  <2> QED BY <1>5, <2>1 DEF OrderInv, Ahead, Firing
<1>15. ASSUME NEW r \in Sub PROVE InLine(r)'
  <2>1. \A u \in Underway(r)' : u \in Underway(r) /\ firing'[u].ev = firing[u].ev
    <3> SUFFICES ASSUME NEW u \in Underway(r)' PROVE u \in Underway(r) /\ firing'[u].ev = firing[u].ev
      OBVIOUS
    <3>1. u \in Thread /\ u \in Underway(r)
      BY <1>11 DEF Underway
    <3>2. firing'[u].offers # <<>>
      BY DEF Underway, ToSet
    <3> QED BY <1>1, <1>3, <1>9, <3>1, <3>2
  <2>2. InLine(r) /\ newest' = newest /\ firedBy' = firedBy /\ seq' = seq
    BY <1>5 DEF OrderInv
  <2>3. CASE r # s
    <3>1. sub'[r] = sub[r]
      BY <1>9, <2>3
    <3> QED BY <2>1, <2>2, <3>1 DEF InLine
  <2>4. CASE r = s
    <3>1. /\ f.ev \in 1..seq /\ firedBy[f.ev] = t /\ newest[s][t] < f.ev
          /\ Ordered(b.q, seq, firedBy, newest[s]) /\ Behind(b.q, firedBy, t, f.ev)
      BY <1>1, <1>2, <1>4, <1>11, <2>2, <2>4 DEF OrderInv, Ahead, Firing, InLine
    <3>2. \A u \in Underway(s)' : u # t /\ Behind(b.q, firedBy, u, firing[u].ev)
      BY <1>4, <1>11, <2>1, <2>2, <2>4 DEF InLine
    <3>3. seq \in Nat /\ newest[s] \in [Thread -> 0..seq]
      BY <1>3, Types
    <3>4. ASSUME NEW w, c.q = w,
                 Ordered(w, seq, firedBy, newest[s]),
                 \A u \in Underway(s)' : Behind(w, firedBy, u, firing[u].ev)
          PROVE  InLine(r)'
      BY <1>9, <2>1, <2>2, <2>4, <3>4 DEF InLine
    <3>5. CASE c.q = b.q
      BY <3>1, <3>2, <3>4, <3>5
    <3>6. CASE c.q = <<>>
      <4>1. Ordered(<<>>, seq, firedBy, newest[s]) /\ \A u, x : Behind(<<>>, firedBy, u, x)
        BY DEF Ordered, Behind
      <4> QED BY <3>4, <3>6, <4>1
    <3>7. CASE c.q = Append(b.q, f.ev)
      <4>1. PICK w : w = Append(b.q, f.ev)
        OBVIOUS
      <4>2. Ordered(w, seq, firedBy, newest[s])
        BY <1>6, <3>1, <3>3, <4>1, NewestAppended
      <4>3. \A u \in Underway(s)' : Behind(w, firedBy, u, firing[u].ev)
        <5> SUFFICES ASSUME NEW u \in Underway(s)' PROVE Behind(w, firedBy, u, firing[u].ev)
          OBVIOUS
        <5>1. PICK x : x = firing[u].ev /\ Behind(b.q, firedBy, u, x) /\ u # firedBy[f.ev]
          BY <3>1, <3>2
        <5>2. PICK q, e : q = b.q /\ e = f.ev
          OBVIOUS
        <5>3. q \in Seq(Nat) /\ e \in Nat
          BY <1>2, <1>6, <5>2
        <5>4. w = Append(q, e) /\ u # firedBy[e] /\ Behind(q, firedBy, u, x)
          BY <4>1, <5>1, <5>2
        <5>5. Behind(w, firedBy, u, x)
          BY <5>3, <5>4, OthersBehind
        <5> QED BY <5>1, <5>5
      <4> QED BY <3>4, <3>7, <4>1, <4>2, <4>3
    <3>8. CASE b.q # <<>> /\ c.q = Append(Tail(b.q), f.ev)
      <4>1. PICK v, w : v = Tail(b.q) /\ w = Append(v, f.ev)
        OBVIOUS
      <4>2. firedBy[Head(b.q)] \in Thread
        <5>1. Head(b.q) = b.q[1] /\ 1 \in 1..Len(b.q)
          BY <1>6, <3>8, Shortened
        <5>2. Head(b.q) \in 1..seq
          BY <3>1, <5>1 DEF Ordered
        <5> QED BY <5>2, Types
      <4>3. /\ v \in Seq(Nat) /\ Ordered(v, seq, firedBy, newest[s]) /\ Behind(v, firedBy, t, f.ev)
            /\ \A u \in Underway(s)' : Behind(v, firedBy, u, firing[u].ev)
        <5>1. v \in Seq(Nat)
          BY <1>6, <3>8, <4>1, Shortened
        <5>2. Ordered(v, seq, firedBy, newest[s]) /\ \A u, x : Behind(b.q, firedBy, u, x) => Behind(v, firedBy, u, x)
          BY <1>6, <3>1, <3>3, <3>8, <4>1, <4>2, OldestTaken
        <5> QED BY <3>1, <3>2, <5>1, <5>2
      <4>4. Ordered(w, seq, firedBy, newest[s])
        BY <3>1, <3>3, <4>1, <4>3, NewestAppended
      <4>5. \A u \in Underway(s)' : Behind(w, firedBy, u, firing[u].ev)
        <5> SUFFICES ASSUME NEW u \in Underway(s)' PROVE Behind(w, firedBy, u, firing[u].ev)
          OBVIOUS
        <5>1. PICK x : x = firing[u].ev /\ Behind(v, firedBy, u, x) /\ u # firedBy[f.ev]
          BY <3>1, <3>2, <4>3
        <5>2. v \in Seq(Nat) /\ w = Append(v, f.ev)
          BY <4>1, <4>3
        <5>3. Behind(w, firedBy, u, x)
          BY <1>2, <5>1, <5>2, OthersBehind
        <5> QED BY <5>1, <5>3
      <4> QED BY <3>4, <3>8, <4>1, <4>4, <4>5
    <3> QED BY <1>7, <3>5, <3>6, <3>7, <3>8 DEF OfferTaken
  <2> QED BY <2>3, <2>4
<1> QED BY <1>10, <1>12, <1>13, <1>14, <1>15 DEF IInv, OrderInv

\* The worker takes its oldest event, sleeps, or ends.
LEMMA WorkKeeps ==
  ASSUME TypeOK, LifeInv, CountInv, OrderInv, NEW s \in Sub, Work(s)
  PROVE  IInv'
<1>1. PICK b, c : /\ b = sub[s]
                  /\ c = CASE ~Awake(b)   -> [b EXCEPT !.thread = "asleep"]
                            [] b.q # <<>>  -> [b EXCEPT !.thread = "calling", !.q = Tail(@)]
                            [] OTHER       -> [b EXCEPT !.thread = "ended"]
  OBVIOUS
<1>2. /\ b.thread = "ready" /\ sub' = [sub EXCEPT ![s] = c]
      /\ newest' = IF b.q = <<>> THEN newest ELSE [newest EXCEPT ![s][firedBy[Head(b.q)]] = Head(b.q)]
      /\ UNCHANGED <<seq, subs, closing, firing, firedBy>>
  BY <1>1 DEF Work, hub
<1>3. /\ b \in Subscriber /\ b.q \in Seq(Nat) /\ Len(b.q) <= Capacity
      /\ seq \in Nat /\ newest[s] \in [Thread -> 0..seq]
  BY <1>1, Types
<1>4. /\ c \in Subscriber /\ Len(c.q) <= Capacity /\ Reached(c) = Reached(b) /\ c.owed = b.owed
      /\ c.stopping = b.stopping /\ c.detached = b.detached /\ c.thread # "none"
      /\ c.q = IF b.q = <<>> THEN b.q ELSE Tail(b.q)
  <2>1. CASE b.q # <<>>
    <3>1. PICK w : w = Tail(b.q)
      OBVIOUS
    <3>2. w \in Seq(Nat) /\ Len(w) = Len(b.q) - 1 /\ Len(b.q) \in Nat /\ Len(w) \in Nat
      BY <1>3, <2>1, <3>1, Shortened
    <3>3. c = [b EXCEPT !.thread = "calling", !.q = w]
      BY <1>1, <2>1, <3>1 DEF Awake
    <3>4. /\ c \in Subscriber /\ c.owed = b.owed /\ c.stopping = b.stopping /\ c.detached = b.detached
          /\ c.thread = "calling" /\ c.q = w /\ c.delivered = b.delivered /\ c.summarized = b.summarized
      BY <1>3, <3>2, <3>3 DEF Subscriber
    <3>5. b.delivered \in Nat /\ b.summarized \in Nat
      BY <1>3 DEF Subscriber
    <3>6. InHand(c) = 1 /\ InHand(b) = 0
      BY <1>2, <3>4 DEF InHand
    <3>7. PICK l, m : l = Len(b.q) /\ m = Len(w) /\ l = m + 1 /\ m \in Nat
      <4>1. Len(b.q) = Len(w) + 1
        BY <3>2
      <4> QED BY <3>2, <4>1
    <3>8. Reached(c) = (b.delivered + b.summarized) + (m + 1)
      BY <3>4, <3>6, <3>7 DEF Reached
    <3>9. Reached(b) = (b.delivered + b.summarized) + (l + 0)
      BY <3>6, <3>7 DEF Reached
    <3>10. Reached(c) = Reached(b)
      BY <3>5, <3>7, <3>8, <3>9
    <3>11. Len(c.q) <= Capacity
      BY <1>3, <3>2, <3>4, EventHubAssumption
    <3> QED BY <2>1, <3>1, <3>4, <3>10, <3>11
  <2>2. CASE b.q = <<>>
    <3>1. PICK th \in {"asleep", "ended"} : c = [b EXCEPT !.thread = th]
      BY <1>1, <2>2
    <3>2. /\ c \in Subscriber /\ c.owed = b.owed /\ c.stopping = b.stopping /\ c.detached = b.detached
          /\ c.thread = th /\ c.q = b.q /\ c.delivered = b.delivered /\ c.summarized = b.summarized
      BY <1>3, <3>1 DEF Subscriber
    <3>3. InHand(c) = 0 /\ InHand(b) = 0
      BY <1>2, <3>2 DEF InHand
    <3>4. Reached(c) = Reached(b)
      BY <3>2, <3>3 DEF Reached
    <3> QED BY <1>3, <2>2, <3>1, <3>2, <3>4
  <2> QED BY <2>1, <2>2
<1>5. /\ sub' \in [Sub -> Subscriber] /\ sub'[s] = c /\ \A r \in Sub \ {s} : sub'[r] = sub[r]
  BY <1>2, <1>4, Types
<1>6. Underway(s)' = Underway(s) /\ \A r \in Sub : Underway(r)' = Underway(r)
  BY <1>2 DEF Underway
<1>7. InLine(s) /\ \A t \in Thread : Ahead(t)
  BY DEF OrderInv
<1>8. ASSUME b.q # <<>>
      PROVE  /\ firedBy[Head(b.q)] \in Thread /\ Head(b.q) \in 1..seq
             /\ newest'[s] = [newest[s] EXCEPT ![firedBy[Head(b.q)]] = Head(b.q)]
             /\ \A r \in Sub \ {s} : newest'[r] = newest[r]
  <2>1. Head(b.q) = b.q[1] /\ 1 \in 1..Len(b.q)
    BY <1>3, <1>8, Shortened
  <2>2. Head(b.q) \in 1..seq
    BY <1>1, <1>7, <2>1 DEF InLine, Ordered
  <2>3. firedBy[Head(b.q)] \in Thread
    BY <2>2, Types
  <2> QED BY <1>2, <1>8, <2>2, <2>3, Types
<1>9. TypeOK'
  <2>1. \A r \in Sub : Len(sub'[r].q) <= Capacity
    BY <1>4, <1>5, Types
  <2>2. newest' \in [Sub -> [Thread -> 0..seq']]
    <3>1. CASE b.q = <<>>
      BY <1>2, <3>1, Types
    <3>2. CASE b.q # <<>>
      <4>1. PICK u, e : u = firedBy[Head(b.q)] /\ e = Head(b.q) /\ u \in Thread /\ e \in 0..seq
        BY <1>8, <3>2
      <4>2. newest' = [newest EXCEPT ![s] = [newest[s] EXCEPT ![u] = e]]
        BY <1>2, <3>2, <4>1
      <4>3. [newest[s] EXCEPT ![u] = e] \in [Thread -> 0..seq]
        BY <1>3, <4>1
      <4> QED BY <1>2, <4>2, <4>3, Types
    <3> QED BY <3>1, <3>2
  <2> QED BY <1>2, <1>5, <2>1, <2>2 DEF TypeOK
<1>10. LifeInv'
  <2>1. ASSUME NEW r \in Sub PROVE Life(r)'
    <3>1. Life(r) /\ ToSet(subs') = ToSet(subs) /\ ToSet(closing') = ToSet(closing)
      BY <1>2 DEF LifeInv
    <3>2. CASE r # s
      BY <1>5, <1>6, <3>1, <3>2 DEF Life
    <3>3. CASE r = s
      BY <1>1, <1>2, <1>4, <1>5, <3>1, <3>3 DEF Life
    <3> QED BY <3>2, <3>3
  <2> QED BY <1>2, <2>1 DEF LifeInv
<1>11. CountInv'
  BY <1>1, <1>2, <1>4, <1>5, CountFrame
<1>12. ASSUME NEW t \in Thread PROVE Ahead(t)'
  BY <1>2, <1>7 DEF Ahead, Firing
<1>13. ASSUME NEW r \in Sub PROVE InLine(r)'
  <2>1. CASE r # s
    <3>1. sub'[r] = sub[r] /\ newest'[r] = newest[r]
      <4>1. CASE b.q = <<>>
        BY <1>2, <1>5, <2>1, <4>1
      <4>2. CASE b.q # <<>>
        BY <1>5, <1>8, <2>1, <4>2
      <4> QED BY <4>1, <4>2
    <3> QED BY <1>2, <1>6, <3>1 DEF OrderInv, InLine
  <2>2. CASE r = s /\ b.q = <<>>
    <3>1. sub'[r].q = sub[r].q /\ newest' = newest
      BY <1>1, <1>2, <1>4, <1>5, <2>2
    <3> QED BY <1>2, <1>6, <1>7, <2>2, <3>1 DEF InLine
  <2>3. CASE r = s /\ b.q # <<>>
    <3>1. PICK w, u, e, seen :
            /\ w = Tail(b.q) /\ e = Head(b.q) /\ u = firedBy[e]
            /\ seen = [newest[s] EXCEPT ![u] = e]
      OBVIOUS
    <3>2. Ordered(b.q, seq, firedBy, newest[s]) /\ u \in Thread
      BY <1>1, <1>7, <1>8, <2>3, <3>1 DEF InLine
    <3>3. Ordered(w, seq, firedBy, seen)
      BY <1>3, <2>3, <3>1, <3>2, OldestTaken
    <3>4. /\ \A t, x : Behind(b.q, firedBy, t, x) => Behind(w, firedBy, t, x)
          /\ \A x : Behind(b.q, firedBy, u, x) => e < x
      BY <1>3, <2>3, <3>1, <3>2, OldestTaken
    <3>5. ASSUME NEW t \in Underway(s)
          PROVE  seen[t] < firing[t].ev /\ Behind(w, firedBy, t, firing[t].ev)
      <4>1. newest[s][t] < firing[t].ev /\ Behind(b.q, firedBy, t, firing[t].ev)
        BY <1>1, <1>7 DEF InLine
      <4>2. t \in Thread
        BY DEF Underway
      <4>3. seen[t] = IF t = u THEN e ELSE newest[s][t]
        BY <1>3, <3>1, <4>2
      <4> QED BY <3>4, <4>1, <4>3
    <3>6. newest'[s] = seen /\ sub'[s].q = w
      BY <1>4, <1>5, <1>8, <2>3, <3>1
    <3> QED BY <1>2, <1>6, <2>3, <3>3, <3>5, <3>6 DEF InLine
  <2> QED BY <2>1, <2>2, <2>3
<1> QED BY <1>9, <1>10, <1>11, <1>12, <1>13 DEF IInv, OrderInv

\* What was in the callback's hands is delivered.
LEMMA ReturnKeeps ==
  ASSUME TypeOK, LifeInv, CountInv, OrderInv, NEW s \in Sub, Return(s)
  PROVE  IInv'
<1>1. PICK b, c, n : /\ b = sub[s] /\ n = b.delivered + 1
                     /\ c = [b EXCEPT !.thread = "ready", !.delivered = n]
  OBVIOUS
<1>2. /\ b.thread = "calling" /\ sub' = [sub EXCEPT ![s] = c]
      /\ UNCHANGED <<seq, subs, closing, firing, firedBy, newest>>
  BY <1>1 DEF Return, hub, history
<1>3. b \in Subscriber /\ b.delivered \in Nat /\ b.summarized \in Nat /\ n \in Nat
  BY <1>1, Types
<1>4. /\ c \in Subscriber /\ c.thread = "ready" /\ c.delivered = n
      /\ c.q = b.q /\ c.summarized = b.summarized
      /\ c.owed = b.owed /\ c.stopping = b.stopping /\ c.detached = b.detached
  BY <1>1, <1>3 DEF Subscriber
<1>5. Reached(c) = Reached(b)
  <2>1. InHand(c) = 0 /\ InHand(b) = 1
    BY <1>2, <1>4 DEF InHand
  <2>2. PICK l \in Nat : l = Len(b.q)
    BY <1>1, Types
  <2>3. Reached(b) = (b.delivered + b.summarized) + (l + 1) /\ Reached(c) = (n + b.summarized) + (l + 0)
    BY <1>4, <2>1, <2>2 DEF Reached
  <2>4. PICK d, m : d = b.delivered /\ m = b.summarized
    OBVIOUS
  <2>5. d \in Nat /\ m \in Nat /\ n = d + 1
    BY <1>1, <1>3, <2>4
  <2>6. (d + m) + (l + 1) = (n + m) + (l + 0)
    BY <2>5
  <2> QED BY <2>3, <2>4, <2>6
<1>6. sub' \in [Sub -> Subscriber] /\ sub'[s] = c /\ \A r \in Sub \ {s} : sub'[r] = sub[r]
  BY <1>2, <1>4, Types
<1>7. \A r \in Sub : sub'[r].q = sub[r].q
  BY <1>1, <1>4, <1>6
<1>8. TypeOK'
  BY <1>2, <1>6, <1>7 DEF TypeOK
<1>9. LifeInv'
  <2>1. ASSUME NEW r \in Sub PROVE Life(r)'
    <3>1. Life(r) /\ ToSet(subs') = ToSet(subs) /\ ToSet(closing') = ToSet(closing) /\ Underway(r)' = Underway(r)
      BY <1>2 DEF LifeInv, Underway
    <3>2. CASE r # s
      BY <1>6, <3>1, <3>2 DEF Life
    <3>3. CASE r = s
      BY <1>1, <1>2, <1>4, <1>6, <3>1, <3>3 DEF Life
    <3> QED BY <3>2, <3>3
  <2> QED BY <1>2, <2>1 DEF LifeInv
<1>10. CountInv'
  BY <1>1, <1>2, <1>4, <1>5, <1>6, CountFrame
<1> QED BY <1>2, <1>7, <1>8, <1>9, <1>10, OrderFrame DEF IInv

\* Nobody manages the hub while a thread is to be started or stopped.
LEMMA Managing ==
  ASSUME TypeOK, LifeInv, MayManage
  PROVE  /\ closing = <<>> /\ ToSet(closing) = {}
         /\ \A s \in Sub : s \in ToSet(subs) => sub[s].thread # "none"
BY DEF MayManage, Starting, ToSet

\* One that never was on the list gets on it.
LEMMA SubscribeKeeps ==
  ASSUME TypeOK, LifeInv, CountInv, OrderInv, NEW s \in Sub, Subscribe(s)
  PROVE  IInv'
<1>1. /\ MayManage /\ sub[s] = Unborn /\ subs' = Append(subs, s)
      /\ UNCHANGED <<seq, closing, firing, sub, firedBy, newest>>
  BY DEF Subscribe, history
<1>2. s \notin ToSet(subs) /\ closing = <<>> /\ ToSet(closing) = {} /\ subs \in Seq(Sub) /\ IsInjective(subs)
  BY <1>1, Managing, Types DEF Unborn, LifeInv
<1>3. subs' \in Seq(Sub) /\ IsInjective(subs') /\ ToSet(subs') = ToSet(subs) \cup {s}
  <2>1. subs' = Append(subs, s)
    BY <1>1
  <2> QED BY <1>2, <2>1, OneMore
<1>4. \A r \in Sub : Underway(r)' = Underway(r)
  BY <1>1 DEF Underway
<1>5. Underway(s) = {}
  BY <1>1, <1>2 DEF LifeInv, Life, Unborn
<1>6. TypeOK'
  BY <1>1, <1>3 DEF TypeOK
<1>7. LifeInv'
  <2>1. ASSUME NEW r \in Sub PROVE Life(r)'
    <3>1. Life(r) /\ ToSet(closing') = ToSet(closing) /\ sub' = sub
      BY <1>1 DEF LifeInv
    <3>2. ~sub[s].stopping
      BY <1>1 DEF Unborn
    <3> QED BY <1>2, <1>3, <1>4, <3>1, <3>2 DEF Life
  <2> QED BY <1>1, <1>3, <2>1 DEF LifeInv
<1>8. CountInv'
  <2> SUFFICES ASSUME NEW r \in Sub PROVE Accounted(r)'
    BY DEF CountInv
  <2>1. CASE r = s
    <3>1. Reached(sub'[s]) = 0 /\ sub'[s].owed = 0
      <4>1. InHand(Unborn) = 0 /\ Unborn.q = <<>> /\ Unborn.delivered = 0 /\ Unborn.summarized = 0
        BY DEF Unborn, InHand
      <4>2. Reached(Unborn) = (0 + 0) + (0 + 0)
        BY <4>1, EmptySeq DEF Reached
      <4> QED BY <1>1, <4>2 DEF Unborn
    <3>2. IsFiniteSet(Underway(s)') /\ Cardinality(Underway(s)') = 0
      BY <1>4, <1>5, FS_EmptySet
    <3> QED BY <2>1, <3>1, <3>2 DEF Accounted
  <2>2. CASE r # s
    <3>1. sub' = sub /\ Underway(r)' = Underway(r) /\ (r \in ToSet(subs') => r \in ToSet(subs))
      BY <1>1, <1>3, <1>4, <2>2
    <3> QED BY <3>1 DEF CountInv, Accounted
  <2> QED BY <2>1, <2>2
<1> QED BY <1>1, <1>6, <1>7, <1>8, OrderFrame DEF IInv

\* Its thread is started.
LEMMA StartKeeps ==
  ASSUME TypeOK, LifeInv, CountInv, OrderInv, NEW s \in Sub, Start(s)
  PROVE  IInv'
<1>1. PICK b, c : b = sub[s] /\ c = [b EXCEPT !.thread = "ready"]
  OBVIOUS
<1>2. /\ s \in ToSet(subs) /\ b.thread = "none" /\ sub' = [sub EXCEPT ![s] = c]
      /\ UNCHANGED <<seq, subs, closing, firing, firedBy, newest>>
  BY <1>1 DEF Start, Starting, hub, history
<1>3. b \in Subscriber
  BY <1>1, Types
<1>4. /\ c \in Subscriber /\ c.thread = "ready" /\ c.delivered = b.delivered
      /\ c.q = b.q /\ c.summarized = b.summarized
      /\ c.owed = b.owed /\ c.stopping = b.stopping /\ c.detached = b.detached
  BY <1>1, <1>3 DEF Subscriber
<1>5. Reached(c) = Reached(b)
  BY <1>2, <1>4 DEF Reached, InHand
<1>6. sub' \in [Sub -> Subscriber] /\ sub'[s] = c /\ \A r \in Sub \ {s} : sub'[r] = sub[r]
  BY <1>2, <1>4, Types
<1>7. \A r \in Sub : sub'[r].q = sub[r].q
  BY <1>1, <1>4, <1>6
<1>8. TypeOK'
  BY <1>2, <1>6, <1>7 DEF TypeOK
<1>9. LifeInv'
  <2>1. ASSUME NEW r \in Sub PROVE Life(r)'
    <3>1. Life(r) /\ ToSet(subs') = ToSet(subs) /\ ToSet(closing') = ToSet(closing) /\ Underway(r)' = Underway(r)
      BY <1>2 DEF LifeInv, Underway
    <3>2. CASE r # s
      BY <1>6, <3>1, <3>2 DEF Life
    <3>3. CASE r = s
      BY <1>1, <1>2, <1>4, <1>6, <3>1, <3>3 DEF Life
    <3> QED BY <3>2, <3>3
  <2> QED BY <1>2, <2>1 DEF LifeInv
<1>10. CountInv'
  BY <1>1, <1>2, <1>4, <1>5, <1>6, CountFrame
<1> QED BY <1>2, <1>7, <1>8, <1>9, <1>10, OrderFrame DEF IInv

\* One is off the list, and its thread will be stopped.
LEMMA UnsubscribeKeeps ==
  ASSUME TypeOK, LifeInv, CountInv, OrderInv, NEW s \in Sub, Unsubscribe(s)
  PROVE  IInv'
<1>1. PICK i \in DOMAIN subs :
        /\ MayManage /\ subs[i] = s /\ subs' = RemoveAt(subs, i) /\ closing' = <<s>>
        /\ UNCHANGED <<seq, firing, sub, firedBy, newest>>
  BY DEF Unsubscribe, history
<1>2. /\ closing = <<>> /\ ToSet(closing) = {} /\ subs \in Seq(Sub) /\ IsInjective(subs)
      /\ s \in ToSet(subs) /\ sub[s].thread # "none"
  BY <1>1, Managing, Types DEF LifeInv, ToSet
<1>3. subs' \in Seq(Sub) /\ IsInjective(subs') /\ ToSet(subs') = ToSet(subs) \ {s}
  <2>1. PICK w : w = RemoveAt(subs, i)
    OBVIOUS
  <2>2. i \in 1..Len(subs)
    BY <1>2
  <2> QED BY <1>1, <1>2, <2>1, <2>2, OneErased
<1>4. closing' \in Seq(Sub) /\ ToSet(closing') = {s}
  BY <1>1 DEF ToSet
<1>5. \A r \in Sub : Underway(r)' = Underway(r)
  BY <1>1 DEF Underway
<1>6. TypeOK'
  BY <1>1, <1>3, <1>4 DEF TypeOK
<1>7. LifeInv'
  <2>1. ASSUME NEW r \in Sub PROVE Life(r)'
    <3>1. Life(r) /\ sub' = sub
      BY <1>1 DEF LifeInv
    <3> QED BY <1>2, <1>3, <1>4, <1>5, <3>1 DEF Life
  <2> QED BY <1>1, <1>3, <2>1 DEF LifeInv
<1>8. CountInv'
  BY <1>1, <1>3, CountFrame
<1> QED BY <1>1, <1>6, <1>7, <1>8, OrderFrame DEF IInv

\* All are off the list, and their threads will be stopped.
LEMMA ClearKeeps ==
  ASSUME TypeOK, LifeInv, CountInv, OrderInv, Clear
  PROVE  IInv'
<1>1. MayManage /\ subs' = <<>> /\ closing' = subs /\ UNCHANGED <<seq, firing, sub, firedBy, newest>>
  BY DEF Clear, history
<1>2. /\ closing = <<>> /\ ToSet(closing) = {} /\ subs \in Seq(Sub)
      /\ \A s \in Sub : s \in ToSet(subs) => sub[s].thread # "none"
  BY <1>1, Managing, Types
<1>3. subs' \in Seq(Sub) /\ IsInjective(subs') /\ ToSet(subs') = {}
  BY <1>1, EmptySeq DEF ToSet, IsInjective
<1>4. \A r \in Sub : Underway(r)' = Underway(r)
  BY <1>1 DEF Underway
<1>5. TypeOK'
  BY <1>1, <1>2, <1>3 DEF TypeOK
<1>6. LifeInv'
  <2>1. ASSUME NEW r \in Sub PROVE Life(r)'
    <3>1. Life(r) /\ sub' = sub
      BY <1>1 DEF LifeInv
    <3> QED BY <1>1, <1>2, <1>3, <1>4, <3>1 DEF Life
  <2> QED BY <1>1, <1>3, <2>1 DEF LifeInv
<1>7. CountInv'
  BY <1>1, <1>3, CountFrame
<1> QED BY <1>1, <1>5, <1>6, <1>7, OrderFrame DEF IInv

\* The first of those to stop is told.
LEMMA StopKeeps ==
  ASSUME TypeOK, LifeInv, CountInv, OrderInv, Stop
  PROVE  IInv'
<1>1. PICK s, b, d, c : s = Head(closing) /\ b = sub[s] /\ d = [b EXCEPT !.stopping = TRUE] /\ c = Notified(d)
  OBVIOUS
<1>2. /\ closing # <<>> /\ sub' = [sub EXCEPT ![s] = c]
      /\ UNCHANGED <<seq, subs, closing, firing, firedBy, newest>>
  BY <1>1 DEF Stop, hub, history
<1>3. s \in Sub /\ s \in ToSet(closing)
  BY <1>1, <1>2, Types, Shortened DEF ToSet
<1>4. /\ d \in Subscriber /\ d.thread = b.thread /\ d.delivered = b.delivered
      /\ d.q = b.q /\ d.summarized = b.summarized /\ d.stopping = TRUE
      /\ d.owed = b.owed /\ d.detached = b.detached
  <2>1. b \in Subscriber
    BY <1>1, <1>3, Types
  <2> QED BY <1>1, <2>1 DEF Subscriber
<1>5. /\ c \in Subscriber /\ c.q = b.q
      /\ c.thread # b.thread => b.thread = "asleep" /\ c.thread = "ready"
  <2>1. c = Notified(d) /\ d \in Subscriber
    BY <1>1, <1>4
  <2>2. c \in Subscriber /\ c.q = d.q /\ (c.thread # d.thread => d.thread = "asleep" /\ c.thread = "ready")
    BY <2>1, NotifiedIs
  <2> QED BY <1>4, <2>2
<1>6. sub' \in [Sub -> Subscriber] /\ sub'[s] = c /\ \A r \in Sub \ {s} : sub'[r] = sub[r]
  BY <1>2, <1>3, <1>5, Types
<1>7. \A r \in Sub : sub'[r].q = sub[r].q
  BY <1>1, <1>5, <1>6
<1>8. s \notin ToSet(subs) /\ b.thread # "none"
  BY <1>1, <1>3 DEF LifeInv, Life
<1>9. TypeOK'
  BY <1>2, <1>6, <1>7 DEF TypeOK
<1>10. LifeInv'
  <2>1. ASSUME NEW r \in Sub PROVE Life(r)'
    <3>1. Life(r) /\ ToSet(subs') = ToSet(subs) /\ ToSet(closing') = ToSet(closing) /\ Underway(r)' = Underway(r)
      BY <1>2 DEF LifeInv, Underway
    <3>2. CASE r # s
      BY <1>6, <3>1, <3>2 DEF Life
    <3>3. CASE r = s
      BY <1>3, <1>5, <1>6, <1>8, <3>1, <3>3 DEF Life
    <3> QED BY <3>2, <3>3
  <2> QED BY <1>2, <2>1 DEF LifeInv
<1>11. CountInv'
  BY <1>2, <1>6, <1>8, CountFrame
<1> QED BY <1>2, <1>7, <1>9, <1>10, <1>11, OrderFrame DEF IInv

\* Its worker has ended, and it is done with.
LEMMA JoinKeeps ==
  ASSUME TypeOK, LifeInv, CountInv, OrderInv, Join
  PROVE  IInv'
<1>1. /\ closing # <<>> /\ sub[Head(closing)].thread = "ended" /\ closing' = Tail(closing)
      /\ UNCHANGED <<seq, subs, firing, sub, firedBy, newest>>
  BY DEF Join, history
<1>2. /\ closing' \in Seq(Sub) /\ ToSet(closing') \subseteq ToSet(closing)
      /\ \A r \in ToSet(closing) : r \in ToSet(closing') \/ r = Head(closing)
  <2>1. PICK q, w : q = closing /\ w = Tail(q)
    OBVIOUS
  <2>2. /\ w \in Seq(Sub) /\ Len(w) = Len(q) - 1 /\ Len(q) \in Nat
        /\ \A i \in 1..Len(w) : w[i] = q[i + 1] /\ i + 1 \in 1..Len(q)
        /\ Head(q) = q[1] /\ q \in Seq(Sub)
    BY <1>1, <2>1, Types, Shortened
  <2>3. DOMAIN q = 1..Len(q) /\ DOMAIN w = 1..Len(w)
    BY <2>2
  <2>4. ASSUME NEW r \in ToSet(w) PROVE r \in ToSet(q)
    <3>1. PICK i \in 1..Len(w) : r = w[i]
      BY <2>3 DEF ToSet
    <3>2. r = q[i + 1] /\ i + 1 \in DOMAIN q
      BY <2>2, <2>3, <3>1
    <3> QED BY <3>2 DEF ToSet
  <2>5. ASSUME NEW r \in ToSet(q), r # Head(q) PROVE r \in ToSet(w)
    <3>1. PICK i \in 1..Len(q) : r = q[i]
      BY <2>3 DEF ToSet
    <3>2. i # 1 /\ i - 1 \in 1..Len(w)
      BY <2>2, <2>5, <3>1
    <3>3. w[i - 1] = q[(i - 1) + 1] /\ (i - 1) + 1 = i
      BY <2>2, <3>2
    <3> QED BY <2>3, <3>1, <3>2, <3>3 DEF ToSet
  <2> QED BY <1>1, <2>1, <2>2, <2>4, <2>5
<1>3. \A r \in Sub : Underway(r)' = Underway(r)
  BY <1>1 DEF Underway
<1>4. TypeOK'
  BY <1>1, <1>2 DEF TypeOK
<1>5. LifeInv'
  <2>1. ASSUME NEW r \in Sub PROVE Life(r)'
    <3>1. Life(r) /\ sub' = sub /\ ToSet(subs') = ToSet(subs)
      BY <1>1 DEF LifeInv
    <3> QED BY <1>1, <1>2, <1>3, <3>1 DEF Life
  <2> QED BY <1>1, <2>1 DEF LifeInv
<1>6. CountInv'
  BY <1>1, CountFrame
<1> QED BY <1>1, <1>4, <1>5, <1>6, OrderFrame DEF IInv

\* A step that changes nothing.
LEMMA StutterKeeps ==
  ASSUME IInv, UNCHANGED vars
  PROVE  IInv'
<1>1. UNCHANGED <<seq, subs, closing, firing, sub, firedBy, newest>>
  BY DEF vars, hub, history
<1>2. TypeOK'
  BY <1>1 DEF IInv, TypeOK
<1>3. LifeInv'
  BY <1>1 DEF IInv, LifeInv, Life, Underway
<1>4. CountInv'
  BY <1>1, CountFrame DEF IInv
<1> QED BY <1>1, <1>2, <1>3, <1>4, OrderFrame DEF IInv

\* Every step keeps the invariant.
LEMMA NextKeeps ==
  ASSUME IInv, [Next]_vars
  PROVE  IInv'
<1> USE DEF IInv
<1>1. ASSUME NEW t \in Thread, Fire(t) \/ Offer(t) PROVE IInv'
  BY <1>1, FireKeeps, OfferKeeps
<1>2. ASSUME NEW s \in Sub, Work(s) \/ Return(s) PROVE IInv'
  BY <1>2, WorkKeeps, ReturnKeeps
<1>3. ASSUME NEW s \in Sub, Subscribe(s) \/ Start(s) \/ Unsubscribe(s) PROVE IInv'
  BY <1>3, SubscribeKeeps, StartKeeps, UnsubscribeKeeps
<1>4. CASE Clear \/ Stop \/ Join
  BY <1>4, ClearKeeps, StopKeeps, JoinKeeps
<1>5. CASE UNCHANGED vars
  BY <1>5, StutterKeeps
<1> QED BY <1>1, <1>2, <1>3, <1>4, <1>5 DEF Next

-----------------------------------------------------------------------------
(* The theorems.                                                            *)

\* The inductive invariant holds of every behaviour of the hub.
THEOREM Invariance == Spec => []IInv
<1>1. Init => IInv
  BY InitIInv
<1>2. IInv /\ [Next]_vars => IInv'
  BY NextKeeps
<1> QED BY <1>1, <1>2, PTL DEF Spec

\* The variables have their types, and no queue is longer than its capacity.
THEOREM TypeCorrect == Spec => []TypeOK
<1>1. IInv => TypeOK
  BY DEF IInv
<1> QED BY <1>1, Invariance, PTL

\* Whoever fires and whoever unsubscribes: every event fired while a subscriber
\* was on the list is delivered to it or counted as summarized, once it is idle.
THEOREM NoEventUncounted == Spec => []EverythingIsCounted
<1>1. IInv => EverythingIsCounted
  <2> SUFFICES ASSUME IInv, NEW s \in Sub,
                      Stats(s).alive, ~Stats(s).detached, Idle(sub[s]), Underway(s) = {}
               PROVE  Stats(s).delivered + Stats(s).summarized = sub[s].owed
    BY DEF IInv, EverythingIsCounted
  <2>1. s \in ToSet(subs) /\ ~sub[s].detached
    BY DEF Stats
  <2>2. sub[s].q = <<>> /\ sub[s].thread # "calling"
    BY <2>1 DEF Idle
  <2>3. sub[s].owed = Reached(sub[s]) + 0
    BY <2>1, FS_EmptySet DEF IInv, CountInv, Accounted
  <2>4. Reached(sub[s]) = (sub[s].delivered + sub[s].summarized) + (0 + 0)
    BY <2>2, EmptySeq DEF Reached, InHand
  <2>5. sub[s].delivered \in Nat /\ sub[s].summarized \in Nat
    BY Types DEF IInv
  <2> QED BY <2>3, <2>4, <2>5 DEF Stats
<1> QED BY <1>1, Invariance, PTL

\* What a callback sees of one thread never goes back.
THEOREM EventsSeenInOrder == Spec => SeenInOrder
<1>1. IInv /\ [Next]_vars => [\A s \in Sub : \A t \in Thread : newest'[s][t] >= newest[s][t]]_vars
  <2> SUFFICES ASSUME IInv, Next, NEW s \in Sub, NEW t \in Thread
               PROVE  newest'[s][t] >= newest[s][t]
    OBVIOUS
  <2>1. newest[s][t] \in Nat
    BY Types DEF IInv
  <2>2. CASE newest' = newest
    BY <2>1, <2>2
  <2>3. CASE \E r \in Sub : Work(r)
    <3>1. PICK r \in Sub : Work(r)
      BY <2>3
    <3>2. PICK q : q = sub[r].q
      OBVIOUS
    <3>3. newest' = IF q = <<>> THEN newest ELSE [newest EXCEPT ![r][firedBy[Head(q)]] = Head(q)]
      BY <3>1, <3>2 DEF Work
    <3>4. CASE q # <<>> /\ r = s
      <4>1. q \in Seq(Nat) /\ Ordered(q, seq, firedBy, newest[s])
        BY <3>2, <3>4, Types DEF IInv, OrderInv, InLine
      <4>2. Head(q) = q[1] /\ 1 \in 1..Len(q)
        BY <3>4, <4>1, Shortened
      <4>3. Head(q) \in 1..seq /\ newest[s][firedBy[Head(q)]] < Head(q)
        BY <4>1, <4>2 DEF Ordered
      <4>4. newest'[s][t] = IF t = firedBy[Head(q)] THEN Head(q) ELSE newest[s][t]
        BY <3>3, <3>4, Types DEF IInv
      <4> QED BY <2>1, <4>3, <4>4, Types DEF IInv
    <3>5. CASE q # <<>> /\ r # s
      BY <2>1, <3>3, <3>5, Types DEF IInv
    <3> QED BY <2>1, <3>3, <3>4, <3>5
  <2> QED BY <2>2, <2>3 DEF Next, Fire, Offer, Return, Subscribe, Start, Unsubscribe, Clear, Stop, Join, history
<1> QED BY <1>1, Invariance, PTL DEF Spec, SeenInOrder

\* When unsubscribe or clear has come back, the callback runs no more.
THEOREM UnsubscribedIsQuiet == Spec => QuietAfterUnsubscribe
<1> DEFINE Quiet == \A s \in Sub : sub[s].stopping /\ s \notin ToSet(closing) =>
                      /\ newest'[s] = newest[s]
                      /\ sub[s].thread # "calling"
<1>1. IInv /\ [Next]_vars => [Quiet]_vars
  <2> SUFFICES ASSUME IInv, Next, NEW s \in Sub, sub[s].stopping, s \notin ToSet(closing)
               PROVE  newest'[s] = newest[s] /\ sub[s].thread # "calling"
    OBVIOUS
  <2>1. sub[s].thread = "ended"
    BY DEF IInv, LifeInv, Life
  <2>2. ASSUME NEW r \in Sub, Work(r) PROVE newest'[s] = newest[s]
    <3>1. r # s
      BY <2>1, <2>2 DEF Work
    <3> QED BY <2>2, <3>1, Types DEF IInv, Work
  <2>3. CASE newest' = newest
    BY <2>1, <2>3
  <2> QED BY <2>1, <2>2, <2>3 DEF Next, Fire, Offer, Return, Subscribe, Start, Unsubscribe, Clear, Stop, Join, history
<1> QED BY <1>1, Invariance, PTL DEF Spec, QuietAfterUnsubscribe
=============================================================================
