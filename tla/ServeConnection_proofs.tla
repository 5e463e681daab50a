----------------------- MODULE ServeConnection_proofs -----------------------
(***************************************************************************)
(* For every size of the queues, the socket and the requests: a client can *)
(* work out at every line how many events were given to its connection,    *)
(* and a connection leaves nothing behind.                                 *)
(*                                                                         *)
(* The numbers a client adds up are right because an event passes from the *)
(* hub's queue to the worker's hand to the outbox to a line in the order   *)
(* of its number, and the outbox never holds anything but the end of what  *)
(* was offered: what it lost lies between the last line and its front.     *)
(***************************************************************************)
EXTENDS ServeConnection, SequenceTheorems, FiniteSetTheorems, TLAPS

(* What the operations on queues and lists return.                           *)

\* A sequence that one more element is appended to.
LEMMA Appended ==
  ASSUME NEW S, NEW q \in Seq(S), NEW e \in S, NEW w, w = Append(q, e)
  PROVE  /\ w \in Seq(S) /\ Len(w) = Len(q) + 1 /\ Len(q) \in Nat
         /\ \A i \in 1..Len(q) : w[i] = q[i]
         /\ w[Len(q) + 1] = e
BY AppendProperties

\* A sequence that has lost its first element.
LEMMA Shortened ==
  ASSUME NEW S, NEW q \in Seq(S), q # <<>>, NEW w, w = Tail(q)
  PROVE  /\ w \in Seq(S) /\ Len(w) = Len(q) - 1 /\ Len(w) \in Nat
         /\ \A i \in 1..Len(w) : w[i] = q[i + 1] /\ i + 1 \in 1..Len(q)
         /\ Len(q) >= 1 /\ 1 \in 1..Len(q) /\ Head(q) = q[1] /\ Head(q) \in S
BY HeadTailProperties

\* The elements of a sequence from the m-th to the n-th.
LEMMA Cut ==
  ASSUME NEW S, NEW q \in Seq(S), NEW m \in Nat \ {0}, NEW n \in Nat, n <= Len(q), m <= n + 1,
         NEW w, w = SubSeq(q, m, n)
  PROVE  /\ w \in Seq(S) /\ Len(w) = (n - m) + 1
         /\ \A i \in 1..Len(w) : w[i] = q[(m + i) - 1]
<1>1. Len(q) \in Nat /\ DOMAIN q = 1..Len(q)
  OBVIOUS
<1>2. \A i \in m..n : i \in 1..Len(q)
  BY <1>1
<1>3. \A i \in m..n : q[i] \in S
  BY <1>2, ElementOfSeq
<1>4. /\ SubSeq(q, m, n) \in Seq(S)
      /\ Len(SubSeq(q, m, n)) = IF m <= n THEN n - m + 1 ELSE 0
      /\ \A i \in 1..(n - m + 1) : SubSeq(q, m, n)[i] = q[m + i - 1]
  BY <1>3, SubSeqProperties
<1>5. (IF m <= n THEN n - m + 1 ELSE 0) = (n - m) + 1
  OBVIOUS
<1> QED BY <1>4, <1>5

\* One sequence after another.
LEMMA Joined ==
  ASSUME NEW S, NEW a \in Seq(S), NEW b \in Seq(S), NEW w, w = a \o b
  PROVE  /\ w \in Seq(S) /\ Len(w) = Len(a) + Len(b)
         /\ \A i \in 1..Len(a) : w[i] = a[i]
         /\ \A i \in 1..Len(b) : w[Len(a) + i] = b[i]
         /\ \A i \in 1..Len(w) : i \in 1..Len(a) \/ (i - Len(a)) \in 1..Len(b)
<1>1. PICK l \in Nat, m \in Nat : l = Len(a) /\ m = Len(b)
  OBVIOUS
<1>2. /\ a \o b \in Seq(S) /\ Len(a \o b) = l + m
      /\ \A i \in 1..l + m : (a \o b)[i] = IF i <= l THEN a[i] ELSE b[i - l]
  BY <1>1, ConcatProperties
<1>3. /\ w \in Seq(S) /\ Len(w) = l + m
      /\ \A i \in 1..l + m : w[i] = IF i <= l THEN a[i] ELSE b[i - l]
  BY <1>2
<1>4. \A i \in 1..l : w[i] = a[i]
  BY <1>3
<1>5. \A i \in 1..m : w[l + i] = b[i]
  <2> TAKE i \in 1..m
  <2>1. l + i \in 1..l + m /\ ~(l + i <= l) /\ (l + i) - l = i
    OBVIOUS
  <2> QED BY <1>3, <2>1
<1>6. \A i \in 1..l + m : i \in 1..l \/ (i - l) \in 1..m
  OBVIOUS
<1> QED BY <1>1, <1>3, <1>4, <1>5, <1>6

-----------------------------------------------------------------------------

Ascending(q) == \A i, j \in 1..Len(q) : i < j => q[i] < q[j]

\* What the hub queued, the worker holds and the outbox was offered is in the order
\* of the events, none twice.
Chain ==
  /\ Ascending(pushed.offered)
  /\ \A i \in 1..Len(pushed.offered) : i <= pushed.offered[i] /\ pushed.offered[i] <= session.seq
  /\ worker.holds <= session.seq
  /\ worker.holds # 0 => \A i \in 1..Len(pushed.offered) : pushed.offered[i] < worker.holds
  /\ Ascending(worker.q)
  /\ \A j \in 1..Len(worker.q) :
       /\ worker.holds < worker.q[j] /\ worker.q[j] <= session.seq
       /\ \A i \in 1..Len(pushed.offered) : pushed.offered[i] < worker.q[j]

\* One sequence is the end of another.
IsEnd(q, o) ==
  /\ Len(q) <= Len(o)
  /\ \A i \in 1..Len(q) : q[i] = o[(Len(o) - Len(q)) + i]

\* The outbox is the end of what was offered.
OutboxIsTheEnd == IsEnd(outbox.q, pushed.offered)

\* A line's event is the one that comes after the lines before it and what they,
\* and the line itself, tell as lost.
Before(n) == IF n = 1 THEN 0 ELSE pushed.told[n - 1]

Ledger ==
  /\ Len(pushed.told) = Len(pushed.lines)
  /\ \A n \in 1..Len(pushed.lines) :
       /\ pushed.told[n] = Before(n) + pushed.lines[n].dropped
       /\ n + pushed.told[n] <= Len(pushed.offered)
       /\ pushed.lines[n].push = pushed.offered[n + pushed.told[n]]
  /\ Len(pushed.offered) =
       (Len(pushed.lines) + Told) + ((loop.pending + outbox.dropped) + Len(outbox.q))

\* Between two connections.
Between ==
  loop.at \in {"accept", "ended"} =>
    worker = NoWorker /\ outbox = NoOutbox /\ pushed = Nothing /\ loop.pending = 0

IInv == TypeOK /\ Chain /\ OutboxIsTheEnd /\ Ledger /\ Between

-----------------------------------------------------------------------------
(* The types, variable by variable.                                         *)

SessionType == [subscribed : BOOLEAN, queue : Seq(1..MaxEvents), seq : 0..MaxEvents]
Place       == {"accept", "poll", "drain", "take", "read", "answer", "send", "leave", "ended", "killed"}
LoopType    == [at : Place, ready : SUBSET {"in", "out", "wake"}, pushOn : BOOLEAN, in : Seq(Request),
                out : Seq(Line), pending : 0..MaxEvents, gone : BOOLEAN, quit : BOOLEAN, conns : 0..MaxConns]
WorkerType  == [q : Seq(1..MaxEvents), holds : 0..MaxEvents, waking : BOOLEAN]
OutboxType  == [q : Seq(1..MaxEvents), dropped : 0..MaxEvents, awake : BOOLEAN]
ClientType  == [sent : Seq(Request), left : 0..MaxRequests, unread : 0..SocketRoom, closed : BOOLEAN]
PushedType  == [offered : Seq(1..MaxEvents), lines : Seq(Line), told : Seq(0..MaxEvents)]

\* The type invariant, and the limits of the queues, in terms of these types.
LEMMA Types ==
  TypeOK <=> /\ session \in SessionType /\ loop \in LoopType /\ worker \in WorkerType
             /\ outbox \in OutboxType /\ client \in ClientType /\ pushed \in PushedType
             /\ Len(session.queue) <= SessionCap /\ Len(outbox.q) <= OutboxCap /\ Len(worker.q) <= HubCap
BY DEF TypeOK, SessionType, LoopType, Place, WorkerType, OutboxType, ClientType, PushedType

\* ... and what a step has to show of its new values for it.
LEMMA TypesKept ==
  ASSUME session' \in SessionType, loop' \in LoopType, worker' \in WorkerType,
         outbox' \in OutboxType, client' \in ClientType, pushed' \in PushedType,
         Len(session'.queue) <= SessionCap, Len(outbox'.q) <= OutboxCap, Len(worker'.q) <= HubCap
  PROVE  TypeOK'
BY DEF TypeOK, SessionType, LoopType, Place, WorkerType, OutboxType, ClientType, PushedType

\* The fields that are numbers.
LEMMA Numbers ==
  ASSUME TypeOK
  PROVE  /\ session.seq \in 0..MaxEvents /\ loop.pending \in 0..MaxEvents /\ loop.conns \in 0..MaxConns
         /\ worker.holds \in 0..MaxEvents /\ outbox.dropped \in 0..MaxEvents
         /\ client.unread \in 0..SocketRoom /\ client.left \in 0..MaxRequests
BY Types DEF SessionType, LoopType, WorkerType, OutboxType, ClientType

\* The fields that are sequences.
LEMMA Fields ==
  ASSUME TypeOK
  PROVE  /\ session.queue \in Seq(1..MaxEvents) /\ loop.in \in Seq(Request) /\ loop.out \in Seq(Line)
         /\ worker.q \in Seq(1..MaxEvents) /\ outbox.q \in Seq(1..MaxEvents)
         /\ client.sent \in Seq(Request) /\ pushed.offered \in Seq(1..MaxEvents)
         /\ pushed.lines \in Seq(Line) /\ pushed.told \in Seq(0..MaxEvents)
BY Types DEF SessionType, LoopType, WorkerType, OutboxType, ClientType, PushedType

\* The constants are numbers.
LEMMA Bounds ==
  /\ OutboxCap \in Nat \ {0} /\ HubCap \in Nat \ {0} /\ SessionCap \in Nat \ {0}
  /\ PollMax \in Nat \ {0} /\ MaxPending \in Nat \ {0} /\ SocketRoom \in Nat \ {0}
  /\ MaxEvents \in Nat /\ MaxRequests \in Nat /\ MaxConns \in Nat
BY ServeAssumption

\* What the lines tell as lost is a number of events.
LEMMA ToldIs ==
  ASSUME TypeOK
  PROVE  Told \in 0..MaxEvents
<1>1. pushed.told \in Seq(0..MaxEvents) /\ 0 \in 0..MaxEvents
  BY Fields, Bounds
<1>2. CASE pushed.told = <<>>
  BY <1>1, <1>2 DEF Told
<1>3. CASE pushed.told # <<>>
  <2>1. Len(pushed.told) \in 1..Len(pushed.told)
    BY <1>1, <1>3, Shortened
  <2> QED BY <1>1, <1>3, <2>1, ElementOfSeq DEF Told, Last
<1> QED BY <1>2, <1>3

-----------------------------------------------------------------------------
(* What the queues are after an operation.                                  *)

Event == 1..MaxEvents

\* Sequences in the order of the events that lose their first.
LEMMA AscendingTail ==
  ASSUME NEW q \in Seq(Event), q # <<>>, Ascending(q)
  PROVE  /\ Tail(q) \in Seq(Event) /\ Len(Tail(q)) = Len(q) - 1 /\ Ascending(Tail(q)) /\ Head(q) \in Event
         /\ \A j \in 1..Len(Tail(q)) : Head(q) < Tail(q)[j] /\ \E i \in 1..Len(q) : Tail(q)[j] = q[i]
         /\ \E i \in 1..Len(q) : Head(q) = q[i]
<1>0. PICK w : w = Tail(q)
  OBVIOUS
<1>1. /\ w \in Seq(Event) /\ Len(w) = Len(q) - 1 /\ Len(q) \in Nat
      /\ \A i \in 1..Len(w) : w[i] = q[i + 1] /\ i + 1 \in 1..Len(q)
      /\ 1 \in 1..Len(q) /\ Head(q) = q[1] /\ Head(q) \in Event
  BY <1>0, Shortened
<1>2. Ascending(w)
  <2> SUFFICES ASSUME NEW i \in 1..Len(w), NEW j \in 1..Len(w), i < j PROVE w[i] < w[j]
    BY DEF Ascending
  <2>1. i + 1 < j + 1
    OBVIOUS
  <2> QED BY <1>1, <2>1 DEF Ascending
<1>3. ASSUME NEW j \in 1..Len(w) PROVE Head(q) < w[j]
  <2>1. 1 < j + 1
    OBVIOUS
  <2> QED BY <1>1, <2>1 DEF Ascending
<1> QED BY <1>0, <1>1, <1>2, <1>3

\* ... or get a last one.
LEMMA AscendingAppend ==
  ASSUME NEW q \in Seq(Event), NEW e \in Event, Ascending(q), \A i \in 1..Len(q) : q[i] < e
  PROVE  /\ Append(q, e) \in Seq(Event) /\ Len(Append(q, e)) = Len(q) + 1 /\ Ascending(Append(q, e))
         /\ \A j \in 1..Len(Append(q, e)) : Append(q, e)[j] = e \/ \E i \in 1..Len(q) : Append(q, e)[j] = q[i]
<1>0. PICK w : w = Append(q, e)
  OBVIOUS
<1>1. /\ w \in Seq(Event) /\ Len(w) = Len(q) + 1 /\ Len(q) \in Nat
      /\ \A i \in 1..Len(q) : w[i] = q[i]
      /\ w[Len(q) + 1] = e
  BY <1>0, Appended
<1>2. \A i \in 1..Len(w) : \/ i \in 1..Len(q) /\ w[i] = q[i]
                           \/ i = Len(q) + 1 /\ w[i] = e
  BY <1>1
<1>3. Ascending(w)
  <2> SUFFICES ASSUME NEW i \in 1..Len(w), NEW j \in 1..Len(w), i < j PROVE w[i] < w[j]
    BY DEF Ascending
  <2>1. i \in 1..Len(q) /\ w[i] = q[i]
    BY <1>1, <1>2
  <2> QED BY <1>2, <2>1 DEF Ascending
<1> QED BY <1>0, <1>1, <1>2, <1>3

\* The end of a sequence stays one without its first element.
LEMMA EndTail ==
  ASSUME NEW S, NEW q \in Seq(S), NEW o \in Seq(S), q # <<>>, IsEnd(q, o), NEW w, w = Tail(q)
  PROVE  w \in Seq(S) /\ IsEnd(w, o)
<1>1. /\ w \in Seq(S) /\ Len(w) = Len(q) - 1 /\ Len(q) \in Nat
      /\ \A i \in 1..Len(w) : w[i] = q[i + 1] /\ i + 1 \in 1..Len(q)
  BY Shortened
<1>2. Len(o) \in Nat
  OBVIOUS
<1>3. ASSUME NEW i \in 1..Len(w) PROVE w[i] = o[(Len(o) - Len(w)) + i]
  <2>1. (Len(o) - Len(q)) + (i + 1) = (Len(o) - Len(w)) + i
    BY <1>1, <1>2
  <2>2. q[i + 1] = o[(Len(o) - Len(q)) + (i + 1)]
    BY <1>1 DEF IsEnd
  <2> QED BY <1>1, <2>1, <2>2
<1> QED BY <1>1, <1>2, <1>3 DEF IsEnd

\* ... and when the same is appended to both.
LEMMA EndAppended ==
  ASSUME NEW S, NEW q \in Seq(S), NEW o \in Seq(S), NEW e \in S, IsEnd(q, o),
         NEW w, w = Append(q, e), NEW x, x = Append(o, e)
  PROVE  IsEnd(w, x)
<1>1. /\ w \in Seq(S) /\ Len(w) = Len(q) + 1 /\ Len(q) \in Nat
      /\ \A i \in 1..Len(q) : w[i] = q[i]
      /\ w[Len(q) + 1] = e
  BY Appended
<1>2. /\ x \in Seq(S) /\ Len(x) = Len(o) + 1 /\ Len(o) \in Nat
      /\ \A i \in 1..Len(o) : x[i] = o[i]
      /\ x[Len(o) + 1] = e
  BY Appended
<1>3. PICK l \in Nat, m \in Nat : l = Len(q) /\ m = Len(o) /\ l <= m
  BY <1>1, <1>2 DEF IsEnd
<1>4. Len(w) = l + 1 /\ Len(x) = m + 1 /\ (m + 1) - (l + 1) = m - l
  BY <1>1, <1>2, <1>3
<1>5. ASSUME NEW i \in 1..(l + 1) PROVE w[i] = x[(m - l) + i]
  <2>1. CASE i \in 1..l
    <3>1. (m - l) + i \in 1..m
      BY <1>3, <2>1
    <3> QED BY <1>1, <1>2, <1>3, <2>1, <3>1 DEF IsEnd
  <2>2. CASE i = l + 1
    <3>1. (m - l) + i = m + 1
      BY <1>3, <2>2
    <3> QED BY <1>1, <1>2, <1>3, <2>2, <3>1
  <2>3. i \in 1..l \/ i = l + 1
    BY <1>3, <1>5
  <2> QED BY <2>1, <2>2, <2>3
<1>6. Len(w) <= Len(x)
  BY <1>3, <1>4
<1>7. \A i \in 1..Len(w) : w[i] = x[(Len(x) - Len(w)) + i]
  BY <1>4, <1>5
<1> QED BY <1>6, <1>7 DEF IsEnd

\* The session's queue keeps within its limit.
LEMMA KeptIs ==
  ASSUME NEW q \in Seq(Event), NEW e \in Event, Len(q) <= SessionCap, NEW w, w = Kept(Append(q, e))
  PROVE  w \in Seq(Event) /\ Len(w) <= SessionCap
<1>1. PICK x : x = Append(q, e)
  OBVIOUS
<1>2. x \in Seq(Event) /\ Len(x) = Len(q) + 1 /\ Len(q) \in Nat
  BY <1>1, Appended
<1>3. w = Kept(x)
  BY <1>1
<1>4. CASE Len(x) > SessionCap
  <2>1. w = Tail(x) /\ x # <<>>
    BY <1>2, <1>3, <1>4, Bounds, EmptySeq DEF Kept
  <2>2. w \in Seq(Event) /\ Len(w) = Len(x) - 1
    BY <1>2, <2>1, Shortened
  <2> QED BY <1>2, <2>2, Bounds
<1>5. CASE ~(Len(x) > SessionCap)
  BY <1>2, <1>3, <1>5, Bounds DEF Kept
<1> QED BY <1>4, <1>5

\* Polling only takes away.
LEMMA DrainedIs ==
  ASSUME NEW q \in Seq(Event), NEW w, w = Drained(q)
  PROVE  w \in Seq(Event) /\ Len(w) <= Len(q)
<1>1. PICK l \in Nat : l = Len(q)
  OBVIOUS
<1>2. CASE l <= PollMax
  BY <1>1, <1>2, EmptySeq DEF Drained
<1>3. CASE ~(l <= PollMax)
  <2>1. w = SubSeq(q, PollMax + 1, l)
    BY <1>1, <1>3 DEF Drained
  <2>2. PollMax + 1 \in Nat \ {0} /\ l <= Len(q) /\ PollMax + 1 <= l + 1
    BY <1>1, <1>3, Bounds
  <2>3. w \in Seq(Event) /\ Len(w) = (l - (PollMax + 1)) + 1
    BY <2>1, <2>2, Cut
  <2> QED BY <1>1, <2>3, Bounds
<1> QED BY <1>2, <1>3

\* The lines made of what the outbox holds.
LEMMA LinesAre ==
  ASSUME NEW q \in Seq(Event), NEW lost \in 0..MaxEvents, NEW w, w = Lines(q, lost)
  PROVE  /\ w \in Seq(Line) /\ Len(w) = Len(q)
         /\ \A i \in 1..Len(w) : w[i].push = q[i] /\ w[i].dropped = IF i = 1 THEN lost ELSE 0
<1>1. PICK l \in Nat : l = Len(q) /\ DOMAIN q = 1..l
  OBVIOUS
<1>2. w = [i \in 1..l |-> [push |-> q[i], dropped |-> IF i = 1 THEN lost ELSE 0]]
  BY <1>1 DEF Lines
<1>3. ASSUME NEW i \in 1..l
      PROVE  w[i] = [push |-> q[i], dropped |-> IF i = 1 THEN lost ELSE 0] /\ w[i] \in Line
  <2>1. q[i] \in Event
    BY <1>1, ElementOfSeq
  <2>2. (IF i = 1 THEN lost ELSE 0) \in 0..MaxEvents
    BY Bounds
  <2> QED BY <1>2, <2>1, <2>2 DEF Line, Event
<1>4. w \in [1..l -> Line]
  BY <1>2, <1>3
<1>5. w \in Seq(Line) /\ Len(w) = l
  BY <1>2, <1>4
<1>6. \A i \in 1..Len(w) : w[i] = [push |-> q[i], dropped |-> IF i = 1 THEN lost ELSE 0]
  BY <1>3, <1>5
<1>7. \A i \in 1..Len(w) : w[i].push = q[i] /\ w[i].dropped = IF i = 1 THEN lost ELSE 0
  <2> TAKE i \in 1..Len(w)
  <2>1. PICK d : d = IF i = 1 THEN lost ELSE 0
    OBVIOUS
  <2>2. w[i] = [push |-> q[i], dropped |-> d]
    BY <1>6, <2>1
  <2> QED BY <2>1, <2>2
<1>8. Len(w) = Len(q)
  BY <1>1, <1>5
<1> QED BY <1>5, <1>7, <1>8

-----------------------------------------------------------------------------
(* The invariant is kept, one lemma for each step or for steps alike.       *)

\* At first there is no connection.
LEMMA InitIInv == Init => IInv
<1> SUFFICES ASSUME Init PROVE IInv
  OBVIOUS
<1>1. TypeOK
  <2>1. session \in SessionType /\ loop \in LoopType /\ worker \in WorkerType
    BY Bounds DEF Init, SessionType, LoopType, WorkerType, Idle, NoWorker, Place
  <2>2. outbox \in OutboxType /\ client \in ClientType /\ pushed \in PushedType
    BY Bounds DEF Init, OutboxType, ClientType, PushedType, NoOutbox, NoClient, Nothing
  <2>3. Len(session.queue) <= SessionCap /\ Len(outbox.q) <= OutboxCap /\ Len(worker.q) <= HubCap
    BY Bounds, EmptySeq DEF Init, NoOutbox, NoWorker
  <2> QED BY <2>1, <2>2, <2>3, Types
<1>2. Len(pushed.offered) = 0 /\ Len(outbox.q) = 0 /\ Len(worker.q) = 0 /\ worker.holds = 0
      /\ session.seq = 0 /\ Len(pushed.lines) = 0 /\ Len(pushed.told) = 0 /\ pushed.told = <<>>
      /\ loop.pending = 0 /\ outbox.dropped = 0
  BY EmptySeq DEF Init, NoOutbox, NoWorker, Nothing, Idle
<1>3. Chain
  BY <1>2 DEF Chain, Ascending
<1>4. OutboxIsTheEnd /\ Ledger
  BY <1>2 DEF OutboxIsTheEnd, IsEnd, Ledger, Told
<1>5. Between
  BY DEF Init, Between, Idle
<1> QED BY <1>1, <1>3, <1>4, <1>5 DEF IInv

\* A step that moves no event keeps the order and the numbers.
LEMMA NothingMoves ==
  ASSUME IInv, TypeOK', Between',
         UNCHANGED pushed, session'.seq = session.seq, loop'.pending = loop.pending,
         worker'.q = worker.q, worker'.holds = worker.holds,
         outbox'.q = outbox.q, outbox'.dropped = outbox.dropped
  PROVE  IInv'
<1>1. Chain'
  BY DEF IInv, Chain
<1>2. OutboxIsTheEnd'
  BY DEF IInv, OutboxIsTheEnd
<1>3. Ledger'
  BY DEF IInv, Ledger, Told, Before
<1> QED BY <1>1, <1>2, <1>3 DEF IInv

\* The loop goes from one step to the next, or a connection is accepted.
LEMMA LoopMovesKeep ==
  ASSUME IInv, Accept \/ Stop \/ Poll \/ Drain \/ Read \/ Answered \/ Send
  PROVE  IInv'
<1>0. TypeOK /\ Between
  BY DEF IInv
<1>1. CASE Accept
  <2>1. loop.at = "accept" /\ loop.conns < MaxConns
    BY <1>1 DEF Accept, At
  <2>2. loop' \in LoopType /\ loop'.pending = 0 /\ loop'.at = "poll"
    <3>1. PICK n : n = loop.conns + 1 /\ n \in 0..MaxConns
      BY <1>0, <2>1, Numbers, Bounds
    <3>2. loop' = [Idle EXCEPT !.at = "poll", !.conns = n]
      BY <1>1, <3>1 DEF Accept
    <3>3. Idle \in LoopType
      BY Bounds DEF Idle, LoopType, Place
    <3>4. Idle.pending = 0
      BY DEF Idle
    <3> QED BY <3>1, <3>2, <3>3, <3>4 DEF LoopType, Place
  <2>3. client' \in ClientType
    <3>1. NoClient \in ClientType /\ MaxRequests \in 0..MaxRequests
      BY Bounds DEF NoClient, ClientType
    <3>2. client' = [NoClient EXCEPT !.left = MaxRequests, !.closed = FALSE]
      BY <1>1 DEF Accept
    <3> QED BY <3>1, <3>2 DEF ClientType
  <2>4. UNCHANGED <<session, worker, outbox, pushed>>
    BY <1>1 DEF Accept
  <2>5. TypeOK'
    BY <1>0, <2>2, <2>3, <2>4, Types, TypesKept
  <2> QED BY <1>0, <2>1, <2>2, <2>4, <2>5, NothingMoves DEF Between
<1>2. CASE Stop
  <2>1. loop.at = "accept" /\ loop' = [loop EXCEPT !.at = "ended"] /\ UNCHANGED <<session, worker, outbox, client, pushed>>
    BY <1>2 DEF Stop, At
  <2>2. loop' \in LoopType /\ loop'.pending = loop.pending
    BY <1>0, <2>1, Types DEF LoopType, Place
  <2>3. TypeOK'
    BY <1>0, <2>1, <2>2, Types, TypesKept
  <2> QED BY <1>0, <2>1, <2>2, <2>3, NothingMoves DEF Between
<1>3. CASE Poll
  <2>1. PICK at \in {"leave", "drain", "read"}, r \in SUBSET {"in", "out", "wake"} :
          loop' = [loop EXCEPT !.at = at, !.ready = r] /\ UNCHANGED <<session, worker, outbox, client, pushed>>
    <3>1. Ready \in SUBSET {"in", "out", "wake"} /\ {} \in SUBSET {"in", "out", "wake"}
      BY DEF Ready
    <3>2. CASE loop' = [loop EXCEPT !.at = "leave", !.ready = {}]
      BY <1>3, <3>1, <3>2 DEF Poll
    <3>3. CASE loop' = [loop EXCEPT !.at = IF "wake" \in Ready THEN "drain" ELSE "read", !.ready = Ready]
      BY <1>3, <3>1, <3>3 DEF Poll
    <3> QED BY <1>3, <3>2, <3>3 DEF Poll
  <2>2. loop' \in LoopType /\ loop'.pending = loop.pending /\ loop'.at = at
    BY <1>0, <2>1, Types DEF LoopType, Place
  <2>3. TypeOK'
    BY <1>0, <2>1, <2>2, Types, TypesKept
  <2> QED BY <1>0, <2>1, <2>2, <2>3, NothingMoves DEF Between
<1>4. CASE Drain
  <2>1. /\ outbox' = [outbox EXCEPT !.awake = FALSE] /\ loop' = [loop EXCEPT !.at = "take"]
        /\ UNCHANGED <<session, worker, client, pushed>>
    BY <1>4 DEF Drain
  <2>2. loop' \in LoopType /\ loop'.pending = loop.pending /\ loop'.at = "take"
    BY <1>0, <2>1, Types DEF LoopType, Place
  <2>3. outbox' \in OutboxType /\ outbox'.q = outbox.q /\ outbox'.dropped = outbox.dropped
    BY <1>0, <2>1, Types DEF OutboxType
  <2>4. TypeOK'
    BY <1>0, <2>1, <2>2, <2>3, Types, TypesKept
  <2> QED BY <1>0, <2>1, <2>2, <2>3, <2>4, NothingMoves DEF Between
<1>5. CASE Read
  <2>1. CASE "in" \in loop.ready
    <3>1. PICK w : w = loop.in \o client.sent
      OBVIOUS
    <3>2. w \in Seq(Request)
      BY <1>0, <3>1, Fields
    <3>3. /\ loop' = [loop EXCEPT !.at = "answer", !.in = w, !.gone = client.closed]
          /\ client' = [client EXCEPT !.sent = <<>>] /\ UNCHANGED <<session, worker, outbox, pushed>>
      BY <1>5, <2>1, <3>1 DEF Read
    <3>4. client' \in ClientType /\ client.closed \in BOOLEAN
      <4>1. PICK e \in Seq(Request) : e = <<>>
        BY EmptySeq
      <4>2. client' = [client EXCEPT !.sent = e]
        BY <3>3, <4>1
      <4> QED BY <1>0, <4>2, Types DEF ClientType
    <3>5. loop' \in LoopType /\ loop'.pending = loop.pending /\ loop'.at = "answer"
      BY <1>0, <3>2, <3>3, <3>4, Types DEF LoopType, Place
    <3>6. TypeOK'
      BY <1>0, <3>3, <3>4, <3>5, Types, TypesKept
    <3> QED BY <1>0, <3>3, <3>5, <3>6, NothingMoves DEF Between
  <2>2. CASE "in" \notin loop.ready
    <3>1. loop' = [loop EXCEPT !.at = "send"] /\ UNCHANGED <<session, worker, outbox, client, pushed>>
      BY <1>5, <2>2 DEF Read
    <3>2. loop' \in LoopType /\ loop'.pending = loop.pending /\ loop'.at = "send"
      BY <1>0, <3>1, Types DEF LoopType, Place
    <3>3. TypeOK'
      BY <1>0, <3>1, <3>2, Types, TypesKept
    <3> QED BY <1>0, <3>1, <3>2, <3>3, NothingMoves DEF Between
  <2> QED BY <2>1, <2>2
<1>6. CASE Answered
  <2>1. loop' = [loop EXCEPT !.at = "send"] /\ UNCHANGED <<session, worker, outbox, client, pushed>>
    BY <1>6 DEF Answered
  <2>2. loop' \in LoopType /\ loop'.pending = loop.pending /\ loop'.at = "send"
    BY <1>0, <2>1, Types DEF LoopType, Place
  <2>3. TypeOK'
    BY <1>0, <2>1, <2>2, Types, TypesKept
  <2> QED BY <1>0, <2>1, <2>2, <2>3, NothingMoves DEF Between
<1>7. CASE Send
  <2>1. UNCHANGED <<session, worker, outbox, pushed>>
    BY <1>7 DEF Send
  <2>2. client' \in ClientType /\ loop' \in LoopType /\ loop'.pending = loop.pending /\ loop'.at \in {"poll", "killed"}
    <3>1. CASE client' = client /\ loop' = [loop EXCEPT !.at = "poll", !.gone = TRUE]
      BY <1>0, <3>1, Types DEF LoopType, Place
    <3>2. CASE client' = client /\ loop' = [loop EXCEPT !.at = "killed"]
      BY <1>0, <3>2, Types DEF LoopType, Place
    <3>3. CASE client' = client /\ loop' = [loop EXCEPT !.at = "poll", !.out = <<>>]
      <4>1. PICK e \in Seq(Line) : e = <<>>
        BY EmptySeq
      <4>2. loop' = [loop EXCEPT !.at = "poll", !.out = e]
        BY <3>3, <4>1
      <4> QED BY <1>0, <3>3, <4>2, Types DEF LoopType, Place
    <3>4. ASSUME NEW n, n = (IF Len(loop.out) <= SocketRoom - client.unread
                             THEN Len(loop.out) ELSE SocketRoom - client.unread),
                 loop' = [loop EXCEPT !.at = "poll", !.out = SubSeq(@, n + 1, Len(@))],
                 client' = [client EXCEPT !.unread = @ + n]
          PROVE  client' \in ClientType /\ loop' \in LoopType /\ loop'.pending = loop.pending /\ loop'.at = "poll"
      <4>1. PICK l, u : l = Len(loop.out) /\ u = client.unread /\ l \in Nat /\ u \in 0..SocketRoom
        <5>1. Len(loop.out) \in Nat
          BY <1>0, Fields
        <5> QED BY <1>0, <5>1, Numbers
      <4>2. n \in Nat /\ n <= l /\ u + n \in 0..SocketRoom
        <5>1. n = (IF l <= SocketRoom - u THEN l ELSE SocketRoom - u)
          BY <3>4, <4>1
        <5>2. l \in Nat /\ u \in 0..SocketRoom
          BY <4>1
        <5> HIDE <3>4
        <5> QED BY <5>1, <5>2, Bounds
      <4>3. PICK w : w = SubSeq(loop.out, n + 1, l)
        OBVIOUS
      <4>4. w \in Seq(Line)
        <5>1. loop.out \in Seq(Line) /\ n + 1 \in Nat \ {0} /\ l \in Nat /\ l <= Len(loop.out) /\ n + 1 <= l + 1
          BY <1>0, <4>1, <4>2, Fields
        <5> QED BY <4>3, <5>1, Cut
      <4>5. loop' = [loop EXCEPT !.at = "poll", !.out = w]
        BY <3>4, <4>1, <4>3
      <4>6. client' = [client EXCEPT !.unread = u + n]
        BY <3>4, <4>1
      <4>7. client' \in ClientType
        BY <1>0, <4>2, <4>6, Types DEF ClientType
      <4> QED BY <1>0, <4>4, <4>5, <4>7, Types DEF LoopType, Place
    <3> QED BY <1>0, <1>7, <3>1, <3>2, <3>3, <3>4, Types DEF Send
  <2>3. TypeOK'
    BY <1>0, <2>1, <2>2, Types, TypesKept
  <2> QED BY <1>0, <2>1, <2>2, <2>3, NothingMoves DEF Between
<1> QED BY <1>1, <1>2, <1>3, <1>4, <1>5, <1>6, <1>7

\* The client's steps touch nothing but its end of the socket.
LEMMA ClientKeeps ==
  ASSUME IInv, ClientSends \/ ClientReads \/ ClientCloses
  PROVE  IInv'
<1>0. TypeOK /\ Between
  BY DEF IInv
<1>1. UNCHANGED <<session, loop, worker, outbox, pushed>>
  BY DEF ClientSends, ClientReads, ClientCloses
<1>2. client' \in ClientType
  <2>1. CASE ClientSends
    <3>1. PICK r \in Request : client' = [client EXCEPT !.sent = Append(@, r), !.left = @ - 1] /\ client.left > 0
      BY <2>1 DEF ClientSends
    <3>2. PICK n : n = client.left - 1 /\ n \in 0..MaxRequests
      <4>1. client.left \in 0..MaxRequests /\ client.left > 0
        BY <1>0, <3>1, Numbers
      <4> QED BY <4>1, Bounds
    <3>3. PICK w : w = Append(client.sent, r) /\ w \in Seq(Request)
      <4>1. Append(client.sent, r) \in Seq(Request)
        BY <1>0, Fields, AppendProperties
      <4> QED BY <4>1
    <3>4. client' = [client EXCEPT !.sent = w, !.left = n]
      BY <3>1, <3>2, <3>3
    <3> QED BY <1>0, <3>2, <3>3, <3>4, Types DEF ClientType
  <2>2. CASE ClientReads
    <3>1. client' = [client EXCEPT !.unread = @ - 1] /\ client.unread > 0
      BY <2>2 DEF ClientReads
    <3>2. PICK n : n = client.unread - 1 /\ n \in 0..SocketRoom
      BY <1>0, <3>1, Numbers, Bounds
    <3>3. client' = [client EXCEPT !.unread = n]
      BY <3>1, <3>2
    <3> QED BY <1>0, <3>2, <3>3, Types DEF ClientType
  <2>3. CASE ClientCloses
    <3>1. PICK z : z = 0 /\ z \in 0..SocketRoom
      BY Bounds
    <3>2. client' = [client EXCEPT !.closed = TRUE, !.unread = z]
      BY <2>3, <3>1 DEF ClientCloses
    <3> QED BY <1>0, <3>1, <3>2, Types DEF ClientType
  <2> QED BY <2>1, <2>2, <2>3
<1>3. TypeOK'
  BY <1>0, <1>1, <1>2, Types, TypesKept
<1> QED BY <1>0, <1>1, <1>3, NothingMoves DEF Between

\* What the hub's queue is when an event was offered to it.
LEMMA HubOffersIs ==
  ASSUME NEW b \in WorkerType, NEW e \in Event, Len(b.q) <= HubCap, NEW c, c = HubOffers(b, e)
  PROVE  /\ c \in WorkerType /\ Len(c.q) <= HubCap /\ c.holds = b.holds
         /\ c.q = Append(b.q, e) \/ (b.q # <<>> /\ c.q = Append(Tail(b.q), e))
<1>1. b.q \in Seq(Event) /\ Len(b.q) \in Nat
  BY DEF WorkerType, Event
<1>2. CASE Len(b.q) < HubCap
  <2>1. PICK w : w = Append(b.q, e)
    OBVIOUS
  <2>2. w \in Seq(Event) /\ Len(w) = Len(b.q) + 1
    BY <1>1, <2>1, Appended
  <2>3. c = [b EXCEPT !.q = w]
    BY <1>2, <2>1 DEF HubOffers
  <2>4. c \in WorkerType /\ c.q = w /\ c.holds = b.holds
    BY <2>2, <2>3 DEF WorkerType, Event
  <2>5. Len(w) <= HubCap
    BY <1>1, <1>2, <2>2, Bounds
  <2> QED BY <2>1, <2>4, <2>5
<1>3. CASE ~(Len(b.q) < HubCap)
  <2>1. b.q # <<>>
    BY <1>1, <1>3, Bounds, EmptySeq
  <2>2. PICK v, w : v = Tail(b.q) /\ w = Append(v, e)
    OBVIOUS
  <2>3. v \in Seq(Event) /\ Len(v) = Len(b.q) - 1
    BY <1>1, <2>1, <2>2, Shortened
  <2>4. w \in Seq(Event) /\ Len(w) = Len(v) + 1
    <3>1. w = Append(v, e)
      BY <2>2
    <3> QED BY <2>3, <3>1, Appended
  <2>5. c = [b EXCEPT !.q = w]
    BY <1>3, <2>2 DEF HubOffers
  <2>6. c \in WorkerType /\ c.q = w /\ c.holds = b.holds
    BY <2>4, <2>5 DEF WorkerType, Event
  <2>7. Len(w) <= HubCap
    BY <1>1, <2>3, <2>4
  <2> QED BY <2>1, <2>2, <2>6, <2>7
<1> QED BY <1>2, <1>3

\* A request changes the session, and may fire an event.
LEMMA ExecutedIs ==
  ASSUME NEW b \in SessionType, Len(b.queue) <= SessionCap, NEW r \in Request,
         r = "draw" => b.seq < MaxEvents, NEW c, c = Executed(b, r)
  PROVE  /\ c \in SessionType /\ Len(c.queue) <= SessionCap
         /\ c.seq = IF r = "draw" THEN b.seq + 1 ELSE b.seq
<1>1. b.queue \in Seq(Event) /\ b.seq \in 0..MaxEvents /\ b.subscribed \in BOOLEAN
  BY DEF SessionType, Event
<1>2. CASE r = "draw"
  <2>1. PICK e : e = b.seq + 1 /\ e \in Event /\ e \in 0..MaxEvents
    BY <1>1, <1>2, Bounds DEF Event
  <2>2. PICK w : w = IF b.subscribed THEN Kept(Append(b.queue, e)) ELSE b.queue
    OBVIOUS
  <2>3. w \in Seq(Event) /\ Len(w) <= SessionCap
    <3>1. CASE b.subscribed
      BY <1>1, <2>1, <2>2, <3>1, KeptIs
    <3>2. CASE ~b.subscribed
      BY <1>1, <2>2, <3>2
    <3> QED BY <3>1, <3>2
  <2>4. c = [b EXCEPT !.seq = e, !.queue = w]
    BY <1>2, <2>1, <2>2 DEF Executed, Fired
  <2>5. c \in SessionType /\ c.queue = w /\ c.seq = e
    BY <2>1, <2>3, <2>4 DEF SessionType, Event
  <2> QED BY <1>2, <2>1, <2>3, <2>5
<1>3. CASE r = "subscribe"
  <2>1. c = [b EXCEPT !.subscribed = TRUE]
    BY <1>3 DEF Executed
  <2>2. c \in SessionType /\ c.queue = b.queue /\ c.seq = b.seq
    BY <2>1 DEF SessionType
  <2> QED BY <1>3, <2>2
<1>4. CASE r = "unsubscribe"
  <2>1. PICK w : w = <<>> /\ w \in Seq(Event) /\ Len(w) = 0
    BY EmptySeq
  <2>2. c = [b EXCEPT !.subscribed = FALSE, !.queue = w]
    BY <1>4, <2>1 DEF Executed
  <2>3. c \in SessionType /\ c.queue = w /\ c.seq = b.seq
    BY <2>1, <2>2 DEF SessionType, Event
  <2> QED BY <1>4, <2>1, <2>3, Bounds
<1>5. CASE r = "poll"
  <2>1. PICK w : w = Drained(b.queue)
    OBVIOUS
  <2>2. w \in Seq(Event) /\ Len(w) <= Len(b.queue)
    BY <1>1, <2>1, DrainedIs
  <2>3. c = [b EXCEPT !.queue = w]
    BY <1>5, <2>1 DEF Executed
  <2>4. c \in SessionType /\ c.queue = w /\ c.seq = b.seq
    BY <2>2, <2>3 DEF SessionType, Event
  <2>5. Len(w) <= SessionCap
    BY <1>1, <2>2, Bounds
  <2> QED BY <1>5, <2>4, <2>5
<1>6. CASE r \notin {"draw", "subscribe", "unsubscribe", "poll"}
  <2>1. c = b
    BY <1>6 DEF Executed
  <2> QED BY <1>6, <2>1
<1> QED BY <1>2, <1>3, <1>4, <1>5, <1>6

\* A request is answered; its event, the newest, goes to the hub's queue.
LEMMA HandleKeeps ==
  ASSUME IInv, Handle
  PROVE  IInv'
<1>0. TypeOK /\ Chain /\ OutboxIsTheEnd /\ Ledger
  BY DEF IInv
<1>1. PICK r, fires : r = Head(loop.in) /\ fires = (r = "draw" /\ session.seq < MaxEvents)
  OBVIOUS
<1>2. /\ loop.at = "answer" /\ loop.in # <<>>
      /\ session' = IF r = "draw" /\ ~fires THEN session ELSE Executed(session, r)
      /\ worker' = IF fires THEN HubOffers(worker, session.seq + 1) ELSE worker
      /\ loop' = [loop EXCEPT !.in = Tail(@), !.out = Append(@, Answer),
                              !.pushOn = session'.subscribed, !.quit = r = "quit"]
      /\ UNCHANGED <<outbox, client, pushed>>
  BY <1>1 DEF Handle, At
<1>3. session \in SessionType /\ Len(session.queue) <= SessionCap /\ worker \in WorkerType /\ Len(worker.q) <= HubCap
  BY <1>0, Types
<1>4. PICK rest : rest = Tail(loop.in)
  OBVIOUS
<1>5. rest \in Seq(Request) /\ r \in Request
  BY <1>0, <1>1, <1>2, <1>4, Fields, Shortened
<1>6. PICK e : e = session.seq + 1 /\ (fires => e \in Event)
  <2>1. session.seq \in 0..MaxEvents
    BY <1>0, Numbers
  <2>2. fires => session.seq + 1 \in Event
    <3>1. fires => session.seq < MaxEvents
      BY <1>1
    <3>2. session.seq < MaxEvents => session.seq + 1 \in Event
      BY <2>1, Bounds DEF Event
    <3> QED BY <3>1, <3>2
  <2> QED BY <2>2
<1>7. /\ session' \in SessionType /\ Len(session'.queue) <= SessionCap
      /\ session'.seq = IF fires THEN session.seq + 1 ELSE session.seq
  <2>1. CASE r = "draw" /\ ~fires
    BY <1>2, <1>3, <2>1
  <2>2. CASE ~(r = "draw" /\ ~fires)
    <3>1. session' = Executed(session, r) /\ (r = "draw" => session.seq < MaxEvents) /\ (fires <=> r = "draw")
      BY <1>1, <1>2, <2>2
    <3> QED BY <1>3, <1>5, <3>1, ExecutedIs
  <2> QED BY <2>1, <2>2
<1>8. /\ worker' \in WorkerType /\ Len(worker'.q) <= HubCap /\ worker'.holds = worker.holds
      /\ \/ worker'.q = worker.q
         \/ fires /\ worker'.q = Append(worker.q, e)
         \/ fires /\ worker.q # <<>> /\ worker'.q = Append(Tail(worker.q), e)
  <2>1. CASE fires
    BY <1>2, <1>3, <1>6, <2>1, HubOffersIs
  <2>2. CASE ~fires
    BY <1>2, <1>3, <2>2
  <2> QED BY <2>1, <2>2 DEF Handle
<1>9. loop' \in LoopType /\ loop'.at = "answer" /\ loop'.pending = loop.pending
  <2>1. PICK w : w = Append(loop.out, Answer)
    OBVIOUS
  <2>2. w \in Seq(Line)
    <3>1. Answer \in Line
      BY DEF Answer, Line
    <3>2. Append(loop.out, Answer) \in Seq(Line)
      BY <1>0, <3>1, Fields, AppendProperties
    <3> QED BY <2>1, <3>2
  <2>3. PICK on, quits : on = session'.subscribed /\ quits = (r = "quit") /\ on \in BOOLEAN /\ quits \in BOOLEAN
    BY <1>7 DEF SessionType
  <2>4. loop' = [loop EXCEPT !.in = rest, !.out = w, !.pushOn = on, !.quit = quits]
    BY <1>2, <1>4, <2>1, <2>3
  <2>5. loop \in LoopType
    BY <1>0, Types
  <2>6. /\ loop' \in LoopType /\ loop'.at = loop.at /\ loop'.pending = loop.pending
    BY <1>5, <2>2, <2>3, <2>4, <2>5 DEF LoopType
  <2> QED BY <1>2, <2>6
<1>10. TypeOK'
  BY <1>0, <1>2, <1>7, <1>8, <1>9, Types, TypesKept
<1>11. Between'
  BY <1>9 DEF Between
<1>12. OutboxIsTheEnd' /\ Ledger'
  BY <1>0, <1>2, <1>9 DEF OutboxIsTheEnd, Ledger, Told, Before
<1>13. Chain'
  <2>1. PICK q, v, o : q = worker.q /\ v = worker'.q /\ o = pushed.offered
    OBVIOUS
  <2>2. /\ Ascending(v)
        /\ \A j \in 1..Len(v) : (fires /\ v[j] = e) \/ \E i \in 1..Len(q) : v[j] = q[i]
    <3>1. q \in Seq(Event) /\ Ascending(q)
      BY <1>0, <2>1, Fields DEF Chain, Event
    <3>2. \A i \in 1..Len(q) : q[i] < e
      <4> TAKE i \in 1..Len(q)
      <4>1. q[i] \in Event /\ q[i] <= session.seq
        BY <1>0, <2>1, <3>1, ElementOfSeq DEF Chain
      <4>2. session.seq \in 0..MaxEvents
        BY <1>0, Numbers
      <4> QED BY <1>6, <4>1, <4>2, Bounds DEF Event
    <3>3. CASE v = q
      BY <3>1, <3>3
    <3>4. CASE fires /\ v = Append(q, e)
      BY <1>6, <3>1, <3>2, <3>4, AscendingAppend
    <3>5. CASE fires /\ q # <<>> /\ v = Append(Tail(q), e)
      <4>1. PICK w : w = Tail(q)
        OBVIOUS
      <4>2. /\ w \in Seq(Event) /\ Ascending(w)
            /\ \A j \in 1..Len(w) : \E i \in 1..Len(q) : w[j] = q[i]
        BY <3>1, <3>5, <4>1, AscendingTail
      <4>3. \A i \in 1..Len(w) : w[i] < e
        BY <3>2, <4>2
      <4>4. /\ Ascending(v)
            /\ \A j \in 1..Len(v) : v[j] = e \/ \E i \in 1..Len(w) : v[j] = w[i]
        <5>1. v = Append(w, e)
          BY <3>5, <4>1
        <5>2. e \in Event
          BY <1>6, <3>5
        <5> QED BY <4>2, <4>3, <5>1, <5>2, AscendingAppend
      <4> QED BY <3>5, <4>2, <4>4
    <3> QED BY <1>8, <2>1, <3>3, <3>4, <3>5
  <2>3. /\ session.seq \in 0..MaxEvents /\ session.seq <= session'.seq /\ (fires => e <= session'.seq)
        /\ worker.holds \in 0..MaxEvents /\ session'.seq \in Nat
    <3>1. session.seq \in 0..MaxEvents /\ worker.holds \in 0..MaxEvents
      BY <1>0, Numbers
    <3> QED BY <1>6, <1>7, <3>1, Bounds
  <2>4. \A i \in 1..Len(o) : o[i] \in Event /\ i <= o[i] /\ o[i] <= session.seq
    <3>1. o \in Seq(Event)
      BY <1>0, <2>1, Fields DEF Event
    <3> QED BY <1>0, <2>1, <3>1, ElementOfSeq DEF Chain
  <2>5. \A i \in 1..Len(q) : q[i] \in Event /\ q[i] <= session.seq /\ worker.holds < q[i]
                            /\ \A k \in 1..Len(o) : o[k] < q[i]
    <3>1. q \in Seq(Event)
      BY <1>0, <2>1, Fields DEF Event
    <3> QED BY <1>0, <2>1, <3>1, ElementOfSeq DEF Chain
  <2>6. worker.holds <= session.seq
    BY <1>0 DEF Chain
  <2>7. ASSUME NEW j \in 1..Len(v)
        PROVE  /\ worker.holds < v[j] /\ v[j] <= session'.seq
               /\ \A i \in 1..Len(o) : o[i] < v[j]
    <3>1. CASE fires /\ v[j] = e
      <4>1. session.seq < e
        BY <1>6, <2>3
      <4> QED BY <1>6, <2>3, <2>4, <2>6, <3>1, <4>1, Bounds DEF Event
    <3>2. CASE \E i \in 1..Len(q) : v[j] = q[i]
      BY <2>3, <2>5, <3>2, Bounds DEF Event
    <3> QED BY <2>2, <3>1, <3>2
  <2>8. \A i \in 1..Len(o) : i <= o[i] /\ o[i] <= session'.seq
    BY <2>3, <2>4, Bounds DEF Event
  <2>9. worker.holds <= session'.seq
    BY <2>3, <2>6, Bounds
  <2> QED BY <1>0, <1>2, <1>8, <2>1, <2>2, <2>7, <2>8, <2>9 DEF Chain
<1> QED BY <1>10, <1>11, <1>12, <1>13 DEF IInv

\* The worker takes the oldest event of its queue, and holds it if pushing is on.
LEMMA DeliverKeeps ==
  ASSUME IInv, Deliver
  PROVE  IInv'
<1>0. TypeOK /\ Chain /\ OutboxIsTheEnd /\ Ledger /\ Between
  BY DEF IInv
<1>1. PICK q, w, h : /\ q = worker.q /\ w = Tail(q) /\ h = IF loop.pushOn THEN Head(q) ELSE 0
  OBVIOUS
<1>2. /\ q # <<>> /\ worker.holds = 0 /\ worker' = [worker EXCEPT !.q = w, !.holds = h]
      /\ UNCHANGED <<session, loop, outbox, client, pushed>>
  BY <1>1 DEF Deliver
<1>3. q \in Seq(Event) /\ Ascending(q) /\ Len(q) <= HubCap /\ Len(q) \in Nat
  BY <1>0, <1>1, Fields, Types DEF Chain, Event
<1>4. /\ w \in Seq(Event) /\ Len(w) = Len(q) - 1 /\ Ascending(w) /\ Head(q) \in Event
      /\ \A j \in 1..Len(w) : Head(q) < w[j] /\ \E i \in 1..Len(q) : w[j] = q[i]
      /\ \E i \in 1..Len(q) : Head(q) = q[i]
  BY <1>1, <1>2, <1>3, AscendingTail
<1>5. h \in 0..MaxEvents /\ (h # 0 => h = Head(q))
  BY <1>1, <1>4, Bounds DEF Event
<1>6. worker' \in WorkerType /\ worker'.q = w /\ worker'.holds = h
  BY <1>0, <1>2, <1>4, <1>5, Types DEF WorkerType, Event
<1>7. TypeOK'
  <2>1. Len(w) <= HubCap
    BY <1>3, <1>4, Bounds
  <2> QED BY <1>0, <1>2, <1>6, <2>1, Types, TypesKept
<1>8. Between'
  BY <1>0, <1>1, <1>2 DEF Between, NoWorker
<1>9. OutboxIsTheEnd' /\ Ledger'
  BY <1>0, <1>2 DEF OutboxIsTheEnd, Ledger, Told, Before
<1>10. Chain'
  <2>1. PICK o, n : o = pushed.offered /\ n = session.seq
    OBVIOUS
  <2>2. /\ Ascending(o) /\ \A i \in 1..Len(o) : i <= o[i] /\ o[i] <= n
        /\ \A i \in 1..Len(q) : q[i] <= n /\ \A k \in 1..Len(o) : o[k] < q[i]
    BY <1>0, <1>1, <2>1 DEF Chain
  <2>3. Head(q) <= n /\ \A k \in 1..Len(o) : o[k] < Head(q)
    BY <1>4, <2>2
  <2>4. h <= n
    BY <1>0, <1>5, <2>1, <2>3, Numbers, Bounds
  <2>5. ASSUME NEW j \in 1..Len(w)
        PROVE  h < w[j] /\ w[j] <= n /\ \A k \in 1..Len(o) : o[k] < w[j]
    <3>1. w[j] \in Event
      BY <1>4, ElementOfSeq
    <3>2. h < w[j]
      BY <1>4, <1>5, <3>1, Bounds DEF Event
    <3> QED BY <1>4, <2>2, <3>2
  <2> QED BY <1>2, <1>4, <1>5, <1>6, <2>1, <2>2, <2>3, <2>4, <2>5 DEF Chain
<1> QED BY <1>7, <1>8, <1>9, <1>10 DEF IInv

\* As the events are numbered, no more are offered than were fired.
LEMMA OfferedBound ==
  ASSUME TypeOK, Chain
  PROVE  Len(pushed.offered) \in 0..MaxEvents
<1>1. PICK o, n : o = pushed.offered /\ n = Len(o)
  OBVIOUS
<1>2. o \in Seq(Event) /\ n \in Nat
  BY <1>1, Fields DEF Event
<1>3. \A i \in 1..n : i <= o[i]
  BY <1>1 DEF Chain
<1>4. CASE n = 0
  BY <1>1, <1>4, Bounds
<1>5. CASE n # 0
  <2>1. n \in 1..n
    BY <1>2, <1>5
  <2>2. o[n] \in Event /\ n <= o[n]
    BY <1>1, <1>2, <1>3, <2>1, ElementOfSeq
  <2> QED BY <1>1, <1>2, <2>2, Bounds DEF Event
<1> QED BY <1>4, <1>5

\* The held event is offered to the outbox, which loses its oldest when it is full.
LEMMA OfferKeeps ==
  ASSUME IInv, Offer
  PROVE  IInv'
<1>0. TypeOK /\ Chain /\ OutboxIsTheEnd /\ Ledger /\ Between
  BY DEF IInv
<1>1. PICK e, q, o, p, v, x, d :
        /\ e = worker.holds /\ q = outbox.q /\ o = pushed.offered
        /\ p = (IF Len(q) >= OutboxCap THEN Tail(q) ELSE q)
        /\ v = Append(p, e) /\ x = Append(o, e)
        /\ d = outbox.dropped + (IF Len(q) >= OutboxCap THEN 1 ELSE 0)
  OBVIOUS
<1>2. /\ e # 0 /\ outbox' = [outbox EXCEPT !.q = v, !.dropped = d]
      /\ worker' = [worker EXCEPT !.holds = 0, !.waking = TRUE]
      /\ pushed' = [pushed EXCEPT !.offered = x]
      /\ UNCHANGED <<session, loop, client>>
  BY <1>1 DEF Offer
<1>3. q \in Seq(Event) /\ o \in Seq(Event) /\ Len(q) \in Nat /\ Len(o) \in Nat /\ Len(q) <= OutboxCap /\ IsEnd(q, o)
  BY <1>0, <1>1, Fields, Types DEF Event, OutboxIsTheEnd
<1>4. e \in Event
  BY <1>0, <1>1, <1>2, Numbers, Bounds DEF Event
<1>5. /\ p \in Seq(Event) /\ IsEnd(p, o) /\ Len(p) \in Nat /\ Len(p) + 1 <= OutboxCap
      /\ d + (Len(p) + 1) = (outbox.dropped + Len(q)) + 1
  <2>1. outbox.dropped \in Nat
    BY <1>0, Numbers, Bounds
  <2>2. CASE Len(q) >= OutboxCap
    <3>0. Len(q) = OutboxCap /\ Len(q) # 0
      BY <1>3, <2>2, Bounds
    <3>1. q # <<>> /\ Len(q) = OutboxCap
      BY <3>0, EmptySeq
    <3>2. p = Tail(q) /\ d = outbox.dropped + 1
      BY <1>1, <2>2
    <3>3. p \in Seq(Event) /\ IsEnd(p, o)
      BY <1>3, <3>1, <3>2, EndTail
    <3>4. Len(p) = Len(q) - 1 /\ Len(p) \in Nat
      BY <1>3, <3>1, <3>2, Shortened
    <3> QED BY <1>3, <2>1, <3>1, <3>2, <3>3, <3>4
  <2>3. CASE ~(Len(q) >= OutboxCap)
    <3>1. p = q /\ d = outbox.dropped + 0
      BY <1>1, <2>3
    <3>2. Len(q) + 1 <= OutboxCap
      BY <1>3, <2>3, Bounds
    <3>3. outbox.dropped + 0 + (Len(q) + 1) = (outbox.dropped + Len(q)) + 1
      <4>1. \A m, l \in Nat : m + 0 + (l + 1) = (m + l) + 1
        OBVIOUS
      <4> QED BY <1>3, <2>1, <4>1
    <3> QED BY <1>3, <3>1, <3>2, <3>3
  <2> QED BY <2>2, <2>3
<1>6. v \in Seq(Event) /\ Len(v) = Len(p) + 1
  <2>1. v = Append(p, e)
    BY <1>1
  <2> QED BY <1>4, <1>5, <2>1, AppendProperties
<1>7. /\ x \in Seq(Event) /\ Len(x) = Len(o) + 1 /\ x[Len(o) + 1] = e
      /\ \A i \in 1..Len(o) : x[i] = o[i]
  <2>1. x = Append(o, e)
    BY <1>1
  <2> QED BY <1>3, <1>4, <2>1, AppendProperties
<1>8. IsEnd(v, x)
  BY <1>1, <1>3, <1>4, <1>5, EndAppended
<1>9. worker' \in WorkerType /\ worker'.q = worker.q /\ worker'.holds = 0
  <2>1. PICK z \in 0..MaxEvents : z = 0
    BY Bounds
  <2>2. worker' = [worker EXCEPT !.holds = z, !.waking = TRUE]
    BY <1>2, <2>1
  <2> QED BY <1>0, <2>1, <2>2, Types DEF WorkerType
<1>10. pushed' \in PushedType /\ pushed'.offered = x /\ pushed'.lines = pushed.lines /\ pushed'.told = pushed.told
  BY <1>0, <1>2, <1>7, Types DEF PushedType, Event
<1>11. outbox'.q = v /\ outbox'.dropped = d
  BY <1>0, <1>2, Types DEF OutboxType
<1>12. Chain'
  <2>1. PICK w, n : w = worker.q /\ n = session.seq
    OBVIOUS
  <2>2. /\ e <= n /\ \A i \in 1..Len(o) : o[i] < e
        /\ Ascending(o) /\ \A i \in 1..Len(o) : i <= o[i] /\ o[i] <= n
        /\ Ascending(w) /\ \A j \in 1..Len(w) : e < w[j] /\ w[j] <= n /\ \A i \in 1..Len(o) : o[i] < w[j]
    BY <1>0, <1>1, <1>2, <2>1 DEF Chain
  <2>3. n \in Nat /\ \A i \in 1..Len(o) : o[i] \in Event
    BY <1>0, <1>3, <2>1, Numbers, Bounds, ElementOfSeq
  <2>4. \A i \in 1..Len(x) : i \in 1..Len(o) \/ i = Len(o) + 1
    BY <1>3, <1>7
  <2>5. Ascending(x)
    <3>1. x = Append(o, e)
      BY <1>1
    <3> QED BY <1>3, <1>4, <2>2, <3>1, AscendingAppend
  <2>6. Len(o) + 1 <= e
    <3>1. CASE Len(o) = 0
      BY <1>4, <3>1, Bounds DEF Event
    <3>2. CASE Len(o) # 0
      <4>1. Len(o) \in 1..Len(o)
        BY <1>3, <3>2
      <4>2. Len(o) <= o[Len(o)] /\ o[Len(o)] < e /\ o[Len(o)] \in Event
        BY <2>2, <2>3, <4>1
      <4> QED BY <1>3, <1>4, <4>2, Bounds DEF Event
    <3> QED BY <3>1, <3>2
  <2>7. ASSUME NEW i \in 1..Len(x)
        PROVE  i <= x[i] /\ x[i] <= n /\ \A j \in 1..Len(w) : x[i] < w[j]
    <3>1. CASE i \in 1..Len(o)
      BY <1>7, <2>2, <3>1
    <3>2. CASE i = Len(o) + 1
      BY <1>7, <2>2, <2>6, <3>2
    <3> QED BY <2>4, <3>1, <3>2
  <2>8. ASSUME NEW j \in 1..Len(w) PROVE 0 < w[j]
    <3>1. w \in Seq(Event)
      BY <1>0, <2>1, Fields DEF Event
    <3>2. w[j] \in Event
      BY <3>1, ElementOfSeq
    <3> QED BY <3>2, Bounds DEF Event
  <2> QED BY <1>2, <1>9, <1>10, <2>1, <2>2, <2>3, <2>5, <2>7, <2>8 DEF Chain
<1>13. OutboxIsTheEnd'
  BY <1>8, <1>10, <1>11 DEF OutboxIsTheEnd
<1>14. PICK c, t, l : c = loop.pending /\ t = Told /\ l = Len(pushed.lines) /\ c \in Nat /\ t \in Nat /\ l \in Nat
  <2>1. loop.pending \in Nat
    BY <1>0, Numbers, Bounds
  <2>2. Told \in Nat
    BY <1>0, ToldIs, Bounds
  <2>3. Len(pushed.lines) \in Nat
    BY <1>0, Fields
  <2> QED BY <2>1, <2>2, <2>3
<1>15. Len(x) = (l + t) + ((c + d) + Len(v)) /\ d \in Nat
  <2>1. PICK od \in Nat : od = outbox.dropped
    BY <1>0, Numbers, Bounds
  <2>2. Len(o) = (l + t) + ((c + od) + Len(q))
    BY <1>0, <1>1, <1>14, <2>1 DEF Ledger
  <2>3. PICK m \in Nat, k \in Nat : m = Len(q) /\ k = Len(p)
    BY <1>3, <1>5
  <2>4. d + (k + 1) = (od + m) + 1 /\ d \in Nat
    <3>1. d = od \/ d = od + 1
      BY <1>1, <2>1
    <3> QED BY <1>5, <2>1, <2>3, <3>1
  <2>5. (l + t) + ((c + d) + (k + 1)) = ((l + t) + ((c + od) + m)) + 1
    <3>1. l \in Nat /\ t \in Nat /\ c \in Nat
      BY <1>14
    <3>2. (l + t) + ((c + d) + (k + 1)) = (l + t) + (c + (d + (k + 1)))
      BY <2>3, <2>4, <3>1
    <3>3. (l + t) + (c + ((od + m) + 1)) = ((l + t) + ((c + od) + m)) + 1
      BY <2>1, <2>3, <3>1
    <3> QED BY <2>4, <3>2, <3>3
  <2> QED BY <1>6, <1>7, <2>2, <2>3, <2>4, <2>5
<1>16. Ledger'
  <2>1. Told' = t /\ loop'.pending = c /\ Len(pushed'.lines) = l
    BY <1>2, <1>10, <1>14 DEF Told
  <2>2. Len(pushed'.offered) = (Len(pushed'.lines) + Told') + ((loop'.pending + outbox'.dropped) + Len(outbox'.q))
    BY <1>10, <1>11, <1>15, <2>1
  <2>3. \A n \in 1..Len(pushed.lines) :
          /\ pushed.told[n] = Before(n) + pushed.lines[n].dropped
          /\ n + pushed.told[n] <= Len(o)
          /\ pushed.lines[n].push = o[n + pushed.told[n]]
    BY <1>0, <1>1 DEF Ledger
  <2>4. ASSUME NEW n \in 1..Len(pushed.lines)
        PROVE  n + pushed.told[n] <= Len(x) /\ pushed.lines[n].push = x[n + pushed.told[n]]
    <3>1. pushed.told \in Seq(0..MaxEvents) /\ Len(pushed.told) = Len(pushed.lines)
      BY <1>0, Fields DEF Ledger
    <3>2. PICK k \in 0..MaxEvents : k = pushed.told[n]
      BY <3>1, ElementOfSeq
    <3>3. n + k <= Len(o) /\ pushed.lines[n].push = o[n + k]
      BY <2>3, <3>2
    <3>4. n + k \in 1..Len(o) /\ n + k <= Len(x)
      BY <1>3, <1>7, <3>3, Bounds
    <3> QED BY <1>7, <3>2, <3>3, <3>4
  <2> QED BY <1>0, <1>10, <2>2, <2>3, <2>4 DEF Ledger, Before
<1>17. TypeOK'
  <2>1. Len(x) \in 0..MaxEvents
    <3>1. x[Len(x)] \in Event /\ Len(x) \in 1..Len(x)
      BY <1>3, <1>7, <1>4
    <3>2. Len(x) <= x[Len(x)]
      BY <1>10, <1>12, <3>1 DEF Chain
    <3> QED BY <1>3, <1>7, <3>1, <3>2, Bounds DEF Event
  <2>2. d \in 0..MaxEvents
    <3>1. PICK m \in Nat, k \in Nat : m = Len(v) /\ k = Len(x)
      BY <1>6, <1>7
    <3>2. k = (l + t) + ((c + d) + m) /\ k \in 0..MaxEvents /\ d \in Nat
      BY <1>15, <2>1, <3>1
    <3>3. d <= k
      <4>1. \A y, z, u, m1, e1 \in Nat : e1 <= (y + z) + ((u + e1) + m1)
        OBVIOUS
      <4> QED BY <1>14, <3>1, <3>2, <4>1
    <3> QED BY <3>2, <3>3, Bounds
  <2>3. outbox' \in OutboxType
    BY <1>0, <1>2, <1>6, <2>2, Types DEF OutboxType, Event
  <2>4. Len(v) <= OutboxCap
    BY <1>5, <1>6
  <2> QED BY <1>0, <1>2, <1>9, <1>10, <1>11, <2>3, <2>4, Types, TypesKept
<1>18. Between'
  BY <1>0, <1>1, <1>2 DEF Between, NoWorker
<1> QED BY <1>12, <1>13, <1>16, <1>17, <1>18 DEF IInv

\* The byte in the pipe.
LEMMA WakeKeeps ==
  ASSUME IInv, Wake
  PROVE  IInv'
<1>0. TypeOK /\ Between
  BY DEF IInv
<1>1. /\ worker.waking /\ outbox' = [outbox EXCEPT !.awake = TRUE] /\ worker' = [worker EXCEPT !.waking = FALSE]
      /\ UNCHANGED <<session, loop, client, pushed>>
  BY DEF Wake
<1>2. outbox' \in OutboxType /\ outbox'.q = outbox.q /\ outbox'.dropped = outbox.dropped
  BY <1>0, <1>1, Types DEF OutboxType
<1>3. worker' \in WorkerType /\ worker'.q = worker.q /\ worker'.holds = worker.holds
  BY <1>0, <1>1, Types DEF WorkerType
<1>4. TypeOK'
  BY <1>0, <1>1, <1>2, <1>3, Types, TypesKept
<1>5. Between'
  BY <1>0, <1>1 DEF Between, NoWorker
<1> QED BY <1>1, <1>2, <1>3, <1>4, <1>5, NothingMoves

\* The last of the running totals, when others come after it.
LEMMA ToldAfter ==
  ASSUME NEW a \in Seq(0..MaxEvents), NEW b \in Seq(0..MaxEvents), NEW w, w = a \o b
  PROVE  /\ b = <<>> => w = a
         /\ b # <<>> => w # <<>> /\ Len(b) \in 1..Len(b) /\ Last(w) = b[Len(b)]
<1>1. /\ w \in Seq(0..MaxEvents) /\ Len(w) = Len(a) + Len(b)
      /\ \A i \in 1..Len(b) : w[Len(a) + i] = b[i]
  BY Joined
<1>2. Len(a) \in Nat /\ Len(b) \in Nat
  OBVIOUS
<1>3. b = <<>> => w = a
  BY ConcatEmptySeq
<1>4. ASSUME b # <<>> PROVE w # <<>> /\ Len(b) \in 1..Len(b) /\ Last(w) = b[Len(b)]
  <2>1. Len(b) \in 1..Len(b)
    BY <1>2, <1>4, EmptySeq
  <2>2. w[Len(a) + Len(b)] = b[Len(b)]
    BY <1>1, <2>1
  <2>3. Len(w) # 0
    BY <1>1, <1>2, <2>1
  <2>4. w # <<>>
    BY <2>3, EmptySeq
  <2> QED BY <1>1, <2>1, <2>2, <2>4 DEF Last
<1> QED BY <1>3, <1>4

\* The loop takes what the outbox holds, and tells with the first line what was lost.
LEMMA TakeKeeps ==
  ASSUME IInv, Take
  PROVE  IInv'
<1>0. TypeOK /\ Chain /\ OutboxIsTheEnd /\ Ledger
  BY DEF IInv
<1>1. PICK q, o, lost, new, marks, t :
        /\ q = outbox.q /\ o = pushed.offered /\ lost = loop.pending + outbox.dropped
        /\ new = Lines(q, lost) /\ t = Told /\ marks = [i \in DOMAIN new |-> t + lost]
  OBVIOUS
<1>2. PICK out, lines, told, left :
        /\ out = loop.out \o new /\ lines = pushed.lines \o new /\ told = pushed.told \o marks
        /\ left = (IF new = <<>> THEN lost ELSE 0)
  OBVIOUS
<1>3. /\ loop' = [loop EXCEPT !.at = "read", !.out = out, !.pending = left]
      /\ pushed' = [pushed EXCEPT !.lines = lines, !.told = told]
      /\ outbox' = [outbox EXCEPT !.q = <<>>, !.dropped = 0]
      /\ UNCHANGED <<session, worker, client>>
  BY <1>1, <1>2 DEF Take, Making
<1>4. PICK l, m : l = Len(pushed.lines) /\ m = Len(q) /\ l \in Nat /\ m \in Nat
  <2>1. Len(pushed.lines) \in Nat /\ Len(q) \in Nat
    BY <1>0, <1>1, Fields
  <2> QED BY <2>1
<1>5. t \in Nat /\ lost \in Nat
  <2>1. loop.pending \in Nat /\ outbox.dropped \in Nat
    BY <1>0, Numbers, Bounds
  <2> QED BY <1>0, <1>1, <2>1, ToldIs, Bounds
<1>6. Len(o) = (l + t) + (lost + m) /\ Len(o) \in 0..MaxEvents
  BY <1>0, <1>1, <1>4, OfferedBound DEF Ledger
<1>7. lost \in 0..MaxEvents /\ t + lost \in 0..MaxEvents
  <2>1. l \in Nat /\ m \in Nat
    BY <1>4
  <2>2. PICK k \in 0..MaxEvents : k = (l + t) + (lost + m)
    BY <1>6
  <2> QED BY <1>5, <2>1, <2>2, Bounds
<1>8. q \in Seq(Event) /\ o \in Seq(Event) /\ IsEnd(q, o)
  BY <1>0, <1>1, Fields DEF OutboxIsTheEnd, Event
<1>9. /\ new \in Seq(Line) /\ Len(new) = m
      /\ \A i \in 1..m : new[i].push = q[i] /\ new[i].dropped = IF i = 1 THEN lost ELSE 0
  BY <1>1, <1>4, <1>7, <1>8, LinesAre
<1>10. /\ marks \in Seq(0..MaxEvents) /\ Len(marks) = m
       /\ \A i \in 1..m : marks[i] = t + lost
  <2>1. DOMAIN new = 1..m
    BY <1>9
  <2>2. marks = [i \in 1..m |-> t + lost]
    BY <1>1, <2>1
  <2>3. marks \in [1..m -> 0..MaxEvents] /\ \A i \in 1..m : marks[i] = t + lost
    BY <1>7, <2>2
  <2>4. m \in Nat
    BY <1>4
  <2>5. marks \in Seq(0..MaxEvents) /\ Len(marks) = m
    <3>1. PICK S : S = 0..MaxEvents
      OBVIOUS
    <3>2. marks \in [1..m -> S]
      BY <2>3, <3>1
    <3>3. marks \in Seq(S) /\ Len(marks) = m
      BY <2>4, <3>2, SeqDef, LenProperties
    <3> QED BY <3>1, <3>3
  <2> QED BY <2>3, <2>5
<1>11. out \in Seq(Line)
  BY <1>0, <1>2, <1>9, Fields, Joined
<1>12. /\ lines \in Seq(Line) /\ Len(lines) = l + m
       /\ \A i \in 1..l : lines[i] = pushed.lines[i]
       /\ \A i \in 1..m : lines[l + i] = new[i]
  <2>1. PICK a : a = pushed.lines
    OBVIOUS
  <2>0. Len(a) = l /\ Len(new) = m
    BY <1>4, <1>9, <2>1
  <2>2. a \in Seq(Line) /\ lines = a \o new /\ new \in Seq(Line)
    BY <1>0, <1>2, <1>9, <2>1, Fields
  <2>3. /\ lines \in Seq(Line) /\ Len(lines) = Len(a) + Len(new)
        /\ \A i \in 1..Len(a) : lines[i] = a[i]
        /\ \A i \in 1..Len(new) : lines[Len(a) + i] = new[i]
    BY <2>2, Joined
  <2> QED BY <2>0, <2>1, <2>3
<1>13. /\ told \in Seq(0..MaxEvents) /\ Len(told) = l + m /\ Len(pushed.told) = l
       /\ \A i \in 1..l : told[i] = pushed.told[i]
       /\ \A i \in 1..m : told[l + i] = t + lost
  <2>1. PICK a, S : a = pushed.told /\ S = 0..MaxEvents
    OBVIOUS
  <2>0. Len(a) = l /\ Len(marks) = m
    BY <1>0, <1>4, <1>10, <2>1 DEF Ledger
  <2>2. a \in Seq(S) /\ told = a \o marks /\ marks \in Seq(S)
    BY <1>0, <1>2, <1>10, <2>1, Fields
  <2>3. /\ told \in Seq(S) /\ Len(told) = Len(a) + Len(marks)
        /\ \A i \in 1..Len(a) : told[i] = a[i]
        /\ \A i \in 1..Len(marks) : told[Len(a) + i] = marks[i]
    BY <2>2, Joined
  <2> QED BY <1>10, <2>0, <2>1, <2>3
<1>14. left \in 0..MaxEvents
  BY <1>2, <1>7, Bounds
<1>15. PICK none, zero : none = <<>> /\ zero = 0 /\ none \in Seq(Event) /\ Len(none) = 0 /\ zero \in 0..MaxEvents
  <2>1. 0 \in 0..MaxEvents
    BY Bounds
  <2>2. <<>> \in Seq(Event) /\ Len(<<>>) = 0
    BY EmptySeq
  <2> QED BY <2>1, <2>2
<1>16. outbox' = [outbox EXCEPT !.q = none, !.dropped = zero]
  BY <1>3, <1>15
<1>17. outbox' \in OutboxType /\ outbox'.q = none /\ outbox'.dropped = 0
  BY <1>0, <1>15, <1>16, Types DEF OutboxType, Event
<1>18. loop' \in LoopType /\ loop'.at = "read" /\ loop'.pending = left
  BY <1>0, <1>3, <1>11, <1>14, Types DEF LoopType, Place
<1>19. pushed' \in PushedType /\ pushed'.offered = o /\ pushed'.lines = lines /\ pushed'.told = told
  BY <1>0, <1>1, <1>3, <1>12, <1>13, Types DEF PushedType
<1>20. TypeOK'
  <2>1. Len(outbox'.q) <= OutboxCap
    BY <1>15, <1>17, Bounds
  <2> QED BY <1>0, <1>3, <1>17, <1>18, <1>19, <2>1, Types, TypesKept
<1>21. Chain'
  BY <1>0, <1>1, <1>3, <1>19 DEF Chain
<1>22. OutboxIsTheEnd'
  <2>1. Len(o) \in Nat
    BY <1>8
  <2> QED BY <1>15, <1>17, <1>19, <2>1 DEF OutboxIsTheEnd, IsEnd
<1>23. Between'
  BY <1>18 DEF Between
<1>24. Told' = IF m = 0 THEN t ELSE t + lost
  <2>1. Told' = IF told = <<>> THEN 0 ELSE Last(told)
    BY <1>19 DEF Told
  <2>2. pushed.told \in Seq(0..MaxEvents)
    BY <1>0, Fields
  <2>3. /\ marks = <<>> => told = pushed.told
        /\ marks # <<>> => told # <<>> /\ Last(told) = t + lost
    <3>1. PICK a : a = pushed.told
      OBVIOUS
    <3>2. a \in Seq(0..MaxEvents) /\ marks \in Seq(0..MaxEvents) /\ told = a \o marks
      BY <1>2, <1>10, <2>2, <3>1
    <3>3. /\ marks = <<>> => told = a
          /\ marks # <<>> => told # <<>> /\ Len(marks) \in 1..Len(marks) /\ Last(told) = marks[Len(marks)]
      BY <3>2, ToldAfter
    <3> QED BY <1>10, <3>1, <3>3
  <2>4. marks = <<>> <=> m = 0
    BY <1>10, EmptySeq
  <2> QED BY <1>1, <2>1, <2>3, <2>4 DEF Told
<1>25. Len(pushed'.offered) =
         (Len(pushed'.lines) + Told') + ((loop'.pending + outbox'.dropped) + Len(outbox'.q))
  <2>1. new = <<>> <=> m = 0
    BY <1>9, EmptySeq
  <2>2. left = IF m = 0 THEN lost ELSE 0
    BY <1>2, <2>1
  <2>3. (l + t) + (lost + m) = ((l + m) + (IF m = 0 THEN t ELSE t + lost)) + ((left + 0) + 0)
    <3>1. l \in Nat /\ m \in Nat
      BY <1>4
    <3>2. (m = 0 /\ left = lost) \/ (m # 0 /\ left = 0)
      BY <2>2
    <3> QED BY <1>5, <3>1, <3>2
  <2> QED BY <1>6, <1>12, <1>15, <1>17, <1>18, <1>19, <1>24, <2>3
<1>26. ASSUME NEW n \in 1..(l + m)
       PROVE  /\ told[n] = (IF n = 1 THEN 0 ELSE told[n - 1]) + lines[n].dropped
              /\ n + told[n] <= Len(o)
              /\ lines[n].push = o[n + told[n]]
  <2>1. CASE n \in 1..l
    <3>1. /\ pushed.told[n] = (IF n = 1 THEN 0 ELSE pushed.told[n - 1]) + pushed.lines[n].dropped
          /\ n + pushed.told[n] <= Len(o)
          /\ pushed.lines[n].push = o[n + pushed.told[n]]
      BY <1>0, <1>1, <1>4, <2>1 DEF Ledger, Before
    <3>2. n # 1 => n - 1 \in 1..l
      BY <1>4, <2>1
    <3> QED BY <1>12, <1>13, <2>1, <3>1, <3>2
  <2>2. CASE n \notin 1..l
    <3>1. PICK i \in 1..m : n = l + i
      <4>1. n - l \in 1..m /\ n = l + (n - l)
        BY <1>4, <2>2
      <4> QED BY <4>1
    <3>2. told[n] = t + lost /\ lines[n].push = q[i] /\ lines[n].dropped = IF i = 1 THEN lost ELSE 0
      BY <1>9, <1>12, <1>13, <3>1
    <3>3. (IF n = 1 THEN 0 ELSE told[n - 1]) = IF i = 1 THEN t ELSE t + lost
      <4>1. CASE i = 1 /\ l = 0
        <5>1. n = 1 /\ pushed.told = <<>>
          <6>1. pushed.told \in Seq(0..MaxEvents)
            BY <1>0, Fields
          <6> QED BY <1>13, <3>1, <4>1, <6>1, EmptySeq
        <5> QED BY <1>1, <4>1, <5>1 DEF Told
      <4>2. CASE i = 1 /\ l # 0
        <5>1. n - 1 = l /\ n # 1 /\ l \in 1..l
          BY <1>4, <3>1, <4>2
        <5>2. pushed.told # <<>>
          BY <1>13, <4>2, EmptySeq
        <5>3. t = pushed.told[l]
          BY <1>1, <1>13, <5>2 DEF Told, Last
        <5> QED BY <1>13, <4>2, <5>1, <5>3
      <4>3. CASE i # 1
        <5>1. i - 1 \in 1..m /\ n - 1 = l + (i - 1) /\ n # 1
          BY <1>4, <3>1, <4>3
        <5> QED BY <1>13, <4>3, <5>1
      <4> QED BY <4>1, <4>2, <4>3
    <3>4. t + lost = (IF i = 1 THEN t ELSE t + lost) + (IF i = 1 THEN lost ELSE 0)
      BY <1>5
    <3>5. (l + i) + (t + lost) = (((l + t) + (lost + m)) - m) + i /\ (l + i) + (t + lost) <= (l + t) + (lost + m)
      <4>1. l \in Nat /\ m \in Nat /\ i \in Nat /\ i <= m
        BY <1>4
      <4> QED BY <1>5, <4>1
    <3>6. q[i] = o[(Len(o) - m) + i]
      BY <1>4, <1>8 DEF IsEnd
    <3> QED BY <1>6, <3>1, <3>2, <3>3, <3>4, <3>5, <3>6
  <2> QED BY <2>1, <2>2
<1>27. Ledger'
  BY <1>12, <1>13, <1>19, <1>25, <1>26 DEF Ledger, Before
<1> QED BY <1>20, <1>21, <1>22, <1>23, <1>27 DEF IInv

\* The connection ends, and takes its outbox along.
LEMMA LeaveKeeps ==
  ASSUME IInv, Leave
  PROVE  IInv'
<1>0. TypeOK /\ Chain
  BY DEF IInv
<1>1. /\ worker = NoWorker /\ loop' = [Idle EXCEPT !.quit = loop.quit, !.conns = loop.conns]
      /\ outbox' = NoOutbox /\ client' = NoClient /\ pushed' = Nothing
      /\ UNCHANGED <<session, worker>>
  BY DEF Leave
<1>2. loop' \in LoopType /\ loop'.pending = 0 /\ loop'.at = "accept"
  <2>1. Idle \in LoopType /\ Idle.pending = 0 /\ Idle.at = "accept"
    BY Bounds DEF Idle, LoopType, Place
  <2>2. loop.quit \in BOOLEAN /\ loop.conns \in 0..MaxConns
    BY <1>0, Types DEF LoopType
  <2> QED BY <1>1, <2>1, <2>2 DEF LoopType
<1>3. /\ outbox'.q = <<>> /\ outbox'.dropped = 0 /\ pushed'.offered = <<>> /\ pushed'.lines = <<>>
      /\ pushed'.told = <<>> /\ worker'.q = <<>> /\ worker'.holds = 0 /\ Len(<<>>) = 0
  BY <1>1, EmptySeq DEF NoOutbox, Nothing, NoWorker
<1>4. TypeOK'
  <2>1. outbox' \in OutboxType /\ client' \in ClientType /\ pushed' \in PushedType
    BY <1>1, Bounds DEF OutboxType, ClientType, PushedType, NoOutbox, NoClient, Nothing
  <2>2. Len(outbox'.q) <= OutboxCap
    BY <1>3, Bounds
  <2> QED BY <1>0, <1>1, <1>2, <2>1, <2>2, Types, TypesKept
<1>5. Chain'
  <2>1. session'.seq \in 0..MaxEvents
    BY <1>0, <1>1, Numbers
  <2>2. 0 <= session'.seq
    BY <2>1, Bounds
  <2> QED BY <1>3, <2>2 DEF Chain, Ascending
<1>6. OutboxIsTheEnd' /\ Ledger'
  BY <1>2, <1>3 DEF OutboxIsTheEnd, IsEnd, Ledger, Told
<1>7. Between'
  BY <1>1, <1>2 DEF Between
<1> QED BY <1>4, <1>5, <1>6, <1>7 DEF IInv

\* Every step keeps the invariant.
LEMMA NextKeeps ==
  ASSUME IInv, [Next]_vars
  PROVE  IInv'
<1>1. CASE Accept \/ Stop \/ Poll \/ Drain \/ Read \/ Answered \/ Send
  BY <1>1, LoopMovesKeep
<1>2. CASE ClientSends \/ ClientReads \/ ClientCloses
  BY <1>2, ClientKeeps
<1>3. CASE Take \/ Handle \/ Leave
  BY <1>3, TakeKeeps, HandleKeeps, LeaveKeeps
<1>4. CASE Deliver \/ Offer \/ Wake
  BY <1>4, DeliverKeeps, OfferKeeps, WakeKeeps
<1>5. CASE UNCHANGED vars
  <2>1. UNCHANGED <<session, loop, worker, outbox, client, pushed>>
    BY <1>5 DEF vars
  <2>2. TypeOK' /\ Between'
    BY <2>1 DEF IInv, TypeOK, Between
  <2> QED BY <2>1, <2>2, NothingMoves
<1> QED BY <1>1, <1>2, <1>3, <1>4, <1>5 DEF Next, Loop, Thread

-----------------------------------------------------------------------------
(* The theorems.                                                            *)

\* The inductive invariant holds of every behaviour of the server.
THEOREM Invariance == Spec => []IInv
<1>1. Init => IInv
  BY InitIInv
<1>2. IInv /\ [Next]_vars => IInv'
  BY NextKeeps
<1> QED BY <1>1, <1>2, PTL DEF Spec

\* The variables have their types, and no queue is longer than its limit.
THEOREM TypeCorrect == Spec => []TypeOK
<1>1. IInv => TypeOK
  BY DEF IInv
<1> QED BY <1>1, Invariance, PTL

\* When the loop is back at accept nothing is left that could touch the outbox, and
\* nothing of one connection reaches the next.
THEOREM ConnectionsLeaveNothing == Spec => []NothingOutlives
<1>1. IInv => NothingOutlives
  BY DEF IInv, Between, NothingOutlives, At
<1> QED BY <1>1, Invariance, PTL

\* A client that adds up the lines it gets and the numbers they tell as lost knows
\* at every line how many events were given to its connection up to it.
THEOREM LossAlwaysTold == Spec => []LossIsTold
<1>1. IInv => LossIsTold
  <2> SUFFICES ASSUME IInv PROVE LossIsTold
    OBVIOUS
  <2>1. TypeOK /\ Chain /\ Ledger
    BY DEF IInv
  <2>2. Len(pushed.offered) = Len(pushed.lines) + Told + loop.pending + outbox.dropped + Len(outbox.q)
    <3>1. PICK l, t, c, d, m : /\ l = Len(pushed.lines) /\ t = Told /\ c = loop.pending
                               /\ d = outbox.dropped /\ m = Len(outbox.q)
      OBVIOUS
    <3>2. l \in Nat /\ m \in Nat
      BY <2>1, <3>1, Fields
    <3>3. t \in Nat /\ c \in Nat /\ d \in Nat
      BY <2>1, <3>1, Numbers, ToldIs, Bounds
    <3>4. (l + t) + ((c + d) + m) = l + t + c + d + m
      BY <3>2, <3>3
    <3>5. Len(pushed.offered) = (l + t) + ((c + d) + m)
      BY <2>1, <3>1 DEF Ledger
    <3> QED BY <3>1, <3>4, <3>5
  <2>3. ASSUME NEW n \in DOMAIN pushed.lines
        PROVE  Cardinality({k \in DOMAIN pushed.offered : pushed.offered[k] <= pushed.lines[n].push})
                 = n + pushed.told[n]
    <3>1. PICK o : o = pushed.offered
      OBVIOUS
    <3>2. /\ o \in Seq(Event) /\ pushed.told \in Seq(0..MaxEvents) /\ pushed.lines \in Seq(Line)
          /\ Len(pushed.told) = Len(pushed.lines)
      BY <2>1, <3>1, Fields DEF Event, Ledger
    <3>3. n \in 1..Len(pushed.lines) /\ DOMAIN o = 1..Len(o) /\ Len(o) \in Nat
      BY <2>3, <3>2
    <3>4. PICK k \in 0..MaxEvents : k = pushed.told[n]
      BY <3>2, <3>3, ElementOfSeq
    <3>5. n + k <= Len(o) /\ pushed.lines[n].push = o[n + k]
      BY <2>1, <3>1, <3>3, <3>4 DEF Ledger
    <3>6. n + k \in 1..Len(o)
      BY <3>3, <3>5, Bounds
    <3>7. \A i \in 1..Len(o) : o[i] \in Event
      BY <3>2, ElementOfSeq
    <3>8. \A i \in 1..Len(o) : o[i] <= o[n + k] <=> i <= n + k
      <4> TAKE i \in 1..Len(o)
      <4>1. i < n + k => o[i] < o[n + k]
        BY <2>1, <3>1, <3>6 DEF Chain, Ascending
      <4>2. n + k < i => o[n + k] < o[i]
        BY <2>1, <3>1, <3>6 DEF Chain, Ascending
      <4>3. i < n + k \/ i = n + k \/ n + k < i
        BY <3>3, <3>6
      <4> QED BY <3>6, <3>7, <4>1, <4>2, <4>3, Bounds DEF Event
    <3>9. {i \in 1..Len(o) : o[i] <= o[n + k]} = 1..(n + k)
      BY <3>3, <3>6, <3>8
    <3>10. Cardinality(1..(n + k)) = n + k
      BY <3>6, FS_Interval
    <3> QED BY <3>1, <3>3, <3>4, <3>5, <3>9, <3>10
  <2>4. \A n \in DOMAIN pushed.lines :
          pushed.told[n] = (IF n = 1 THEN 0 ELSE pushed.told[n - 1]) + pushed.lines[n].dropped
    <3>1. DOMAIN pushed.lines = 1..Len(pushed.lines)
      BY <2>1, Fields
    <3> QED BY <2>1, <3>1 DEF Ledger, Before
  <2> QED BY <2>1, <2>2, <2>3, <2>4 DEF LossIsTold
<1> QED BY <1>1, Invariance, PTL
=============================================================================
