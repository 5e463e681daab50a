------------------------------ MODULE EventHub ------------------------------
(***************************************************************************)
(* The application's event hub (app/src/events.cpp) and its two paths.     *)
(*                                                                         *)
(* Recording: a listener is called by the firing thread itself, before the *)
(* subscribers; there is no queue and nothing can be dropped.  The list of *)
(* listeners touches nothing else in the hub and is left out.  Watching:   *)
(* every subscriber has a bounded queue and a thread of its own that runs  *)
(* its callback; when the queue is full the subscriber, and nobody else,   *)
(* loses the oldest event (Summarize) or is cut off (Detach).              *)
(*                                                                         *)
(* A step is what a thread does under one lock, or one call it makes       *)
(* outside: fire* of several threads, the thread that subscribes and       *)
(* unsubscribes, and one worker for each subscriber interleave.  Events    *)
(* are their numbers.                                                      *)
(***************************************************************************)
EXTENDS Naturals, Sequences, SequencesExt, FiniteSets

CONSTANTS
  Thread,      \* the threads that call fire*
  Sub,         \* subscription ids; nextId_ never hands one out twice
  Detaching,   \* the subscribers whose OverflowPolicy is Detach
  Hanging,     \* the subscribers whose callback may never return
  Capacity,    \* SubscribeOptions::capacity
  MaxEvents    \* bound: events fired

ASSUME EventHubAssumption ==
  /\ Detaching \subseteq Sub
  /\ Hanging \subseteq Sub
  /\ Capacity \in Nat \ {0}
  /\ MaxEvents \in Nat

VARIABLES
  seq,         \* seq_: events fired
  subs,        \* subs_
  firing,      \* what each thread inside dispatch still has to do
  sub,         \* the subscribers
  closing,     \* unsubscribe or clear: those still to stop, the first being stopped
  firedBy,     \* history: who fired each event
  newest       \* history: the event of each thread a callback saw last

hub     == <<seq, subs, closing>>
history == <<firedBy, newest>>
vars    == <<hub, firing, sub, history>>

\* The event a thread is dispatching and the subscribers, of the copied list, it
\* has still to offer it to.
Dispatch == [ev : Nat, offers : Seq(Sub)]
Outside  == [ev |-> 0, offers |-> <<>>]

\* thread: "none" before start(), "ready" to take the lock, "asleep" in
\* cv_.wait, "calling" the callback, "ended".  owed counts, for the properties,
\* the events fired while the subscriber was on the list.
Subscriber == [thread : {"none", "ready", "asleep", "calling", "ended"},
               q : Seq(Nat), delivered : Nat, summarized : Nat,
               stopping : BOOLEAN, detached : BOOLEAN, owed : Nat]
Unborn     == [thread |-> "none", q |-> <<>>, delivered |-> 0, summarized |-> 0,
               stopping |-> FALSE, detached |-> FALSE, owed |-> 0]

Init ==
  /\ seq = 0 /\ subs = <<>> /\ closing = <<>>
  /\ firing = [t \in Thread |-> Outside]
  /\ sub = [s \in Sub |-> Unborn]
  /\ firedBy = <<>>
  /\ newest = [s \in Sub |-> [t \in Thread |-> 0]]

-----------------------------------------------------------------------------
(* The subscriber's own operations.                                         *)

\* A notify reaches the worker only if it waits.
Notified(b) == IF b.thread = "asleep" THEN [b EXCEPT !.thread = "ready"] ELSE b

\* Mutant: the worker is not told.
QueuedUnnoticed(b, e) == [b EXCEPT !.q = Append(@, e)]

Queued(b, e) == Notified([b EXCEPT !.q = Append(@, e)])

\* Mutant: a full queue loses the newest event, uncounted.
OfferedSilently(s, b, e) ==
  IF b.stopping \/ b.detached \/ Len(b.q) >= Capacity THEN b ELSE Queued(b, e)

\* Mutant: the queue is a stack.
OfferedInFront(s, b, e) ==
  IF b.stopping \/ b.detached \/ Len(b.q) >= Capacity THEN b
  ELSE Notified([b EXCEPT !.q = <<e>> \o @])

\* Subscriber::offer.
Offered(s, b, e) ==
  IF b.stopping \/ b.detached THEN b
  ELSE IF Len(b.q) < Capacity THEN Queued(b, e)
  ELSE IF s \in Detaching THEN Notified([b EXCEPT !.detached = TRUE, !.q = <<>>])
  ELSE Queued([b EXCEPT !.q = Tail(@), !.summarized = @ + 1], e)

\* The wait in Subscriber::run: what lets the worker go on.
Awake(b) == b.stopping \/ b.detached \/ b.q # <<>>

\* Subscriber::idle, which waitForSubscribers asks.
Idle(b) == (b.q = <<>> /\ b.thread # "calling") \/ b.detached

\* subscriberStats: a subscriber that is not on the list has none.
Stats(s) == [delivered |-> sub[s].delivered, summarized |-> sub[s].summarized,
             detached |-> sub[s].detached, alive |-> s \in ToSet(subs)]

-----------------------------------------------------------------------------
(* dispatch.                                                                *)

Firing(t) == firing[t].offers # <<>>

\* Under mu_ a number and a copy of the list; then, the lock released, the
\* listeners are called one after the other.
Fire(t) ==
  /\ ~Firing(t)
  /\ seq < MaxEvents
  /\ seq' = seq + 1
  /\ firing' = [firing EXCEPT ![t] =
       IF subs = <<>> THEN Outside ELSE [ev |-> seq + 1, offers |-> subs]]
  /\ sub' = [s \in Sub |-> [sub[s] EXCEPT !.owed = @ + (IF s \in ToSet(subs) THEN 1 ELSE 0)]]
  /\ firedBy' = Append(firedBy, t)
  /\ UNCHANGED <<subs, closing, newest>>

\* The rest of dispatch when the first of the offers is made.
Further(f) ==
  IF Len(f.offers) = 1 THEN Outside ELSE [f EXCEPT !.offers = Tail(@)]

Offer(t) ==
  LET f == firing[t]
      s == Head(f.offers)
  IN
  /\ Firing(t)
  /\ sub' = [sub EXCEPT ![s] = Offered(s, @, f.ev)]
  /\ firing' = [firing EXCEPT ![t] = Further(f)]
  /\ UNCHANGED <<hub, history>>

-----------------------------------------------------------------------------
(* The worker of a subscriber, Subscriber::run.                             *)

\* Under m_: sleep, end, or take the oldest event and call with it.
Work(s) ==
  LET b == sub[s] IN
  /\ b.thread = "ready"
  /\ sub' = [sub EXCEPT ![s] =
       CASE ~Awake(b)   -> [b EXCEPT !.thread = "asleep"]
         [] b.q # <<>>  -> [b EXCEPT !.thread = "calling", !.q = Tail(@)]
         [] OTHER       -> [b EXCEPT !.thread = "ended"]]
  /\ newest' = IF b.q = <<>> THEN newest
               ELSE [newest EXCEPT ![s][firedBy[Head(b.q)]] = Head(b.q)]
  /\ UNCHANGED <<hub, firing, firedBy>>

Return(s) ==
  /\ sub[s].thread = "calling"
  /\ sub' = [sub EXCEPT ![s].thread = "ready", ![s].delivered = @ + 1]
  /\ UNCHANGED <<hub, firing, history>>

-----------------------------------------------------------------------------
(* The thread that owns the hub.                                            *)

Starting == {s \in ToSet(subs) : sub[s].thread = "none"}

MayManage == closing = <<>> /\ Starting = {}

\* subscribe: on the list first, its thread is started after the lock.
Subscribe(s) ==
  /\ MayManage
  /\ sub[s] = Unborn
  /\ subs' = Append(subs, s)
  /\ UNCHANGED <<seq, closing, firing, sub, history>>

Start(s) ==
  /\ s \in Starting
  /\ sub' = [sub EXCEPT ![s].thread = "ready"]
  /\ UNCHANGED <<hub, firing, history>>

Unsubscribe(s) ==
  /\ MayManage
  /\ \E i \in DOMAIN subs : subs[i] = s /\ subs' = RemoveAt(subs, i)
  /\ closing' = <<s>>
  /\ UNCHANGED <<seq, firing, sub, history>>

Clear ==
  /\ MayManage
  /\ subs' = <<>>
  /\ closing' = subs
  /\ UNCHANGED <<seq, firing, sub, history>>

\* Subscriber::stop up to the join.
Stop ==
  /\ closing # <<>>
  /\ ~sub[Head(closing)].stopping
  /\ sub' = [sub EXCEPT ![Head(closing)] = Notified([@ EXCEPT !.stopping = TRUE])]
  /\ UNCHANGED <<hub, firing, history>>

\* Mutant: the caller does not wait for the worker.
Abandon ==
  /\ closing # <<>>
  /\ sub[Head(closing)].stopping
  /\ closing' = Tail(closing)
  /\ UNCHANGED <<seq, subs, firing, sub, history>>

Join ==
  /\ closing # <<>>
  /\ sub[Head(closing)].stopping
  /\ sub[Head(closing)].thread = "ended"
  /\ closing' = Tail(closing)
  /\ UNCHANGED <<seq, subs, firing, sub, history>>

Next ==
  \/ \E t \in Thread : Fire(t) \/ Offer(t)
  \/ \E s \in Sub : Work(s) \/ Return(s)
  \/ \E s \in Sub : Subscribe(s) \/ Start(s) \/ Unsubscribe(s)
  \/ Clear \/ Stop \/ Join

Spec == Init /\ [][Next]_vars

\* Threads run; the callbacks of Hanging subscribers need not return.
FairSpec ==
  /\ Spec
  /\ \A t \in Thread : WF_vars(Offer(t))
  /\ \A s \in Sub : WF_vars(Work(s)) /\ WF_vars(Start(s))
  /\ \A s \in Sub \ Hanging : WF_vars(Return(s))
  /\ WF_vars(Stop \/ Join)

-----------------------------------------------------------------------------

TypeOK ==
  /\ seq \in Nat
  /\ subs \in Seq(Sub) /\ closing \in Seq(Sub)
  /\ firing \in [Thread -> Dispatch]
  /\ sub \in [Sub -> Subscriber]
  /\ \A s \in Sub : Len(sub[s].q) <= Capacity
  /\ firedBy \in Seq(Thread) /\ Len(firedBy) = seq
  /\ newest \in [Sub -> [Thread -> 0..seq]]

\* What dispatch has not offered to s yet.
Underway(s) == {t \in Thread : s \in ToSet(firing[t].offers)}

\* docs/07 4.2: of the events fired while a subscriber was on the list, the
\* ones delivered and the ones counted as summarized are all there are once
\* the subscriber is idle and no thread is about to offer it one.
EverythingIsCounted ==
  /\ TypeOK
  /\ \A s \in Sub :
       Stats(s).alive /\ ~Stats(s).detached /\ Idle(sub[s]) /\ Underway(s) = {} =>
         Stats(s).delivered + Stats(s).summarized = sub[s].owed

\* docs/07 1: a subscriber sees the events of one thread in the order they were
\* fired, whatever was dropped between them.
SeenInOrder ==
  [][\A s \in Sub : \A t \in Thread : newest'[s][t] >= newest[s][t]]_vars

\* server.cpp relies on it to let go of the outbox (serveConnection, the end):
\* when unsubscribe has returned, the callback runs no more.
QuietAfterUnsubscribe ==
  [][\A s \in Sub : sub[s].stopping /\ s \notin ToSet(closing) =>
       /\ newest'[s] = newest[s]
       /\ sub[s].thread # "calling"]_vars

\* docs/07 2: whoever fires never waits for a subscriber, not even for one
\* whose callback hangs.
FiringEnds == \A t \in Thread : Firing(t) ~> ~Firing(t)

\* A subscriber gets through its queue although another one hangs.
QueueEmpties ==
  \A s \in Sub \ Hanging : sub[s].q # <<>> ~> sub[s].q = <<>>

\* unsubscribe and clear come back from a subscriber whose callback returns.
UnsubscribeReturns ==
  \A s \in Sub \ Hanging :
    (closing # <<>> /\ Head(closing) = s) ~> ~(closing # <<>> /\ Head(closing) = s)

\* Nobody is kept waiting by a subscriber that hangs but the thread that
\* unsubscribes it: whoever fires, whoever has events queued, and whoever
\* unsubscribes somebody else goes on (events.cpp:323, :69).
NobodyWaitsForTheHanging == FiringEnds /\ QueueEmpties /\ UnsubscribeReturns
=============================================================================
