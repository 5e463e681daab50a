-------------------------- MODULE ServeConnection ---------------------------
(***************************************************************************)
(* One agent session behind a socket: mari-paint --headless --serve        *)
(* (cli/src/server.cpp), the session it executes requests on               *)
(* (agent/src/session.cpp) and the clients, one connection after another.  *)
(*                                                                         *)
(* Two threads work for a connection.  The serve loop waits for the socket *)
(* and for the wake-up pipe, takes the lines to push, reads and answers    *)
(* requests and writes what the socket has room for.  The subscriber's     *)
(* thread gives the events the hub has queued for it to the outbox.  The   *)
(* session outlives every connection, and so does its subscription.        *)
(*                                                                         *)
(* Events are their numbers; an event is fired by a request, in the loop's *)
(* thread.  EventHub has the hub itself.                                   *)
(***************************************************************************)
EXTENDS Naturals, Sequences, SequencesExt, FiniteSets

CONSTANTS
  OutboxCap,    \* PushOutbox::kCap
  HubCap,       \* the capacity subscribePush asks for
  SessionCap,   \* kMaxQueued, pushEvent
  PollMax,      \* how many events events.poll asks for
  MaxPending,   \* kMaxPending, in lines
  SocketRoom,   \* lines the socket takes before the client reads
  MaxEvents,    \* bound: requests that draw
  MaxRequests,  \* bound: requests a connection sends
  MaxConns      \* bound: connections

ASSUME ServeAssumption ==
  /\ {OutboxCap, HubCap, SessionCap, PollMax, MaxPending, SocketRoom} \subseteq Nat \ {0}
  /\ {MaxEvents, MaxRequests, MaxConns} \subseteq Nat

VARIABLES
  session,   \* what the session keeps from one connection to the next
  loop,      \* the serve loop and the locals of serveConnection
  worker,    \* the subscriber: its queue in the hub and its thread
  outbox,    \* the PushOutbox and its wake-up pipe
  client,    \* the other end of the socket
  pushed     \* history, of this connection: what was offered, the lines made, and how
             \* many events each of them, and those before it, tell as lost

vars == <<session, loop, worker, outbox, client, pushed>>

\* draw stands for the operations that fire an event, bad for every line that is
\* answered without one: no JSON, no object, no such operation, refused.
Request == {"draw", "subscribe", "unsubscribe", "poll", "bad", "quit"}

\* A line of the socket: an answer, or an event with the number of those lost
\* before it.
Line   == [push : {0}, dropped : {0}] \cup [push : 1..MaxEvents, dropped : 0..MaxEvents]
Answer == [push |-> 0, dropped |-> 0]

NoWorker == [q |-> <<>>, holds |-> 0, waking |-> FALSE]
NoOutbox == [q |-> <<>>, dropped |-> 0, awake |-> FALSE]
NoClient == [sent |-> <<>>, left |-> 0, unread |-> 0, closed |-> TRUE]
Nothing  == [offered |-> <<>>, lines |-> <<>>, told |-> <<>>]

Idle == [at |-> "accept", ready |-> {}, pushOn |-> FALSE, in |-> <<>>, out |-> <<>>,
         pending |-> 0, gone |-> FALSE, quit |-> FALSE, conns |-> 0]

Init ==
  /\ session = [subscribed |-> FALSE, queue |-> <<>>, seq |-> 0]
  /\ loop = Idle
  /\ worker = NoWorker
  /\ outbox = NoOutbox
  /\ client = NoClient
  /\ pushed = Nothing

-----------------------------------------------------------------------------
(* What a request does to the session.                                      *)

\* pushEvent: beyond the limit the oldest goes.
Kept(q) == IF Len(q) > SessionCap THEN Tail(q) ELSE q

Fired(s) ==
  [s EXCEPT !.seq = @ + 1,
            !.queue = IF s.subscribed THEN Kept(Append(@, s.seq + 1)) ELSE @]

\* events.poll
Drained(q) == IF Len(q) <= PollMax THEN <<>> ELSE SubSeq(q, PollMax + 1, Len(q))

Executed(s, r) ==
  CASE r = "draw"        -> Fired(s)
    [] r = "subscribe"   -> [s EXCEPT !.subscribed = TRUE]
    [] r = "unsubscribe" -> [s EXCEPT !.subscribed = FALSE, !.queue = <<>>]
    [] r = "poll"        -> [s EXCEPT !.queue = Drained(@)]
    [] OTHER             -> s

\* The hub queues the event for the subscriber, or loses its oldest one.
HubOffers(w, e) == [w EXCEPT !.q = IF Len(@) < HubCap THEN Append(@, e) ELSE Append(Tail(@), e)]

-----------------------------------------------------------------------------
(* The serve loop.                                                          *)

At(step) == loop.at = step

\* accept, and the beginning of serveConnection.
Accept ==
  /\ At("accept") /\ ~loop.quit
  /\ loop.conns < MaxConns
  /\ loop' = [Idle EXCEPT !.at = "poll", !.conns = loop.conns + 1]
  /\ client' = [NoClient EXCEPT !.left = MaxRequests, !.closed = FALSE]
  /\ UNCHANGED <<session, worker, outbox, pushed>>

Stop ==
  /\ At("accept") /\ loop.quit
  /\ loop' = [loop EXCEPT !.at = "ended"]
  /\ UNCHANGED <<session, worker, outbox, client, pushed>>

\* What poll reports: a request or the end of the input, unless reading rests;
\* room for the lines to send, or that nobody will take them; a wake-up.
\* Mutant: room in the socket is not waited for.
ReadyForInput ==
  (IF ~loop.quit /\ Len(loop.out) < MaxPending /\ (client.sent # <<>> \/ client.closed)
   THEN {"in"} ELSE {})
    \cup (IF outbox.awake THEN {"wake"} ELSE {})

Ready ==
  (IF ~loop.quit /\ Len(loop.out) < MaxPending /\ (client.sent # <<>> \/ client.closed)
   THEN {"in"} ELSE {})
    \cup (IF loop.out # <<>> /\ (client.unread < SocketRoom \/ client.closed) THEN {"out"} ELSE {})
    \cup (IF outbox.awake THEN {"wake"} ELSE {})

Poll ==
  /\ At("poll")
  /\ IF loop.gone \/ (loop.quit /\ loop.out = <<>>)
     THEN loop' = [loop EXCEPT !.at = "leave", !.ready = {}]
     ELSE /\ Ready # {}
          /\ loop' = [loop EXCEPT !.at = IF "wake" \in Ready THEN "drain" ELSE "read", !.ready = Ready]
  /\ UNCHANGED <<session, worker, outbox, client, pushed>>

\* Mutant: the pipe is emptied once the lines are taken.
DrainLate ==
  /\ \/ /\ At("drain")
        /\ loop' = [loop EXCEPT !.at = "take"]
        /\ UNCHANGED outbox
     \/ /\ At("read") /\ "wake" \in loop.ready
        /\ outbox' = [outbox EXCEPT !.awake = FALSE]
        /\ loop' = [loop EXCEPT !.ready = @ \ {"wake"}]
  /\ UNCHANGED <<session, worker, client, pushed>>

\* Empty the pipe first, take the lines then.
Drain ==
  /\ At("drain")
  /\ outbox' = [outbox EXCEPT !.awake = FALSE]
  /\ loop' = [loop EXCEPT !.at = "take"]
  /\ UNCHANGED <<session, worker, client, pushed>>

\* The first line tells how many were lost before it.
Lines(q, lost) ==
  [i \in DOMAIN q |-> [push |-> q[i], dropped |-> IF i = 1 THEN lost ELSE 0]]

\* What the lines so far tell as lost.
Told == IF pushed.told = <<>> THEN 0 ELSE Last(pushed.told)

Making(lines, lost) ==
  [pushed EXCEPT !.lines = @ \o lines, !.told = @ \o [i \in DOMAIN lines |-> Told + lost]]

\* Mutant: the number is told but not put back to zero.
TakeTellingAgain ==
  /\ At("take")
  /\ LET lost  == loop.pending + outbox.dropped
         lines == Lines(outbox.q, lost)
     IN  /\ loop' = [loop EXCEPT !.at = "read", !.out = @ \o lines]
         /\ pushed' = Making(lines, lost)
  /\ outbox' = [outbox EXCEPT !.q = <<>>]
  /\ UNCHANGED <<session, worker, client>>

\* PushOutbox::take, and the lines joined to what goes out.
Take ==
  /\ At("take")
  /\ LET lost  == loop.pending + outbox.dropped
         lines == Lines(outbox.q, lost)
     IN  /\ loop' = [loop EXCEPT !.at = "read", !.out = @ \o lines,
                                 !.pending = IF lines = <<>> THEN lost ELSE 0]
         /\ pushed' = Making(lines, lost)
  /\ outbox' = [outbox EXCEPT !.q = <<>>, !.dropped = 0]
  /\ UNCHANGED <<session, worker, client>>

\* Read until nothing is left, or the end.
Read ==
  /\ At("read")
  /\ IF "in" \in loop.ready
     THEN /\ loop' = [loop EXCEPT !.at = "answer", !.in = @ \o client.sent, !.gone = client.closed]
          /\ client' = [client EXCEPT !.sent = <<>>]
     ELSE loop' = [loop EXCEPT !.at = "send"] /\ UNCHANGED client
  /\ UNCHANGED <<session, worker, outbox, pushed>>

\* handleRpcLine for one line, and pushOn as the session has it afterwards.
\* What follows a quit stays unread.
Handle ==
  /\ At("answer") /\ loop.in # <<>> /\ ~loop.quit
  /\ LET r == Head(loop.in)
         fires == r = "draw" /\ session.seq < MaxEvents
     IN  /\ session' = IF r = "draw" /\ ~fires THEN session ELSE Executed(session, r)
         /\ worker' = IF fires THEN HubOffers(worker, session.seq + 1) ELSE worker
         /\ loop' = [loop EXCEPT !.in = Tail(@), !.out = Append(@, Answer),
                                 !.pushOn = session'.subscribed, !.quit = r = "quit"]
  /\ UNCHANGED <<outbox, client, pushed>>

Answered ==
  /\ At("answer") /\ (loop.in = <<>> \/ loop.quit)
  /\ loop' = [loop EXCEPT !.at = "send"]
  /\ UNCHANGED <<session, worker, outbox, client, pushed>>

\* Write until nothing is left or the socket takes no more.  Writing to a client
\* that has gone is accepted, fails, or raises SIGPIPE, which nobody handles, as
\* the kernel knows.
Send ==
  /\ At("send")
  /\ \/ /\ client.closed /\ loop.out # <<>>
        /\ \/ loop' = [loop EXCEPT !.at = "poll", !.gone = TRUE]
           \/ loop' = [loop EXCEPT !.at = "killed"]
        /\ UNCHANGED client
     \/ /\ client.closed
        /\ loop' = [loop EXCEPT !.at = "poll", !.out = <<>>]
        /\ UNCHANGED client
     \/ /\ ~client.closed
        /\ LET n == IF Len(loop.out) <= SocketRoom - client.unread
                    THEN Len(loop.out) ELSE SocketRoom - client.unread
           IN  /\ loop' = [loop EXCEPT !.at = "poll", !.out = SubSeq(@, n + 1, Len(@))]
               /\ client' = [client EXCEPT !.unread = @ + n]
  /\ UNCHANGED <<session, worker, outbox, pushed>>

\* Mutant: the outbox goes before the subscriber's thread has ended.
LeaveAtOnce ==
  /\ At("leave")
  /\ loop' = [Idle EXCEPT !.quit = loop.quit, !.conns = loop.conns]
  /\ outbox' = NoOutbox /\ client' = NoClient /\ pushed' = Nothing
  /\ UNCHANGED <<session, worker>>

\* unsubscribePush joins the thread, which empties its queue first.
Leave ==
  /\ At("leave")
  /\ worker = NoWorker
  /\ loop' = [Idle EXCEPT !.quit = loop.quit, !.conns = loop.conns]
  /\ outbox' = NoOutbox /\ client' = NoClient /\ pushed' = Nothing
  /\ UNCHANGED <<session, worker>>

-----------------------------------------------------------------------------
(* The subscriber's thread.                                                 *)

\* The callback looks at pushOn, and only then offers.
Deliver ==
  /\ worker.q # <<>> /\ worker.holds = 0 /\ ~worker.waking
  /\ worker' = [worker EXCEPT !.q = Tail(@), !.holds = IF loop.pushOn THEN Head(worker.q) ELSE 0]
  /\ UNCHANGED <<session, loop, outbox, client, pushed>>

\* PushOutbox::offer, under the lock.
Offer ==
  /\ worker.holds # 0
  /\ LET full == Len(outbox.q) >= OutboxCap
     IN  outbox' = [outbox EXCEPT !.q = Append(IF full THEN Tail(@) ELSE @, worker.holds),
                                  !.dropped = @ + (IF full THEN 1 ELSE 0)]
  /\ worker' = [worker EXCEPT !.holds = 0, !.waking = TRUE]
  /\ pushed' = [pushed EXCEPT !.offered = Append(@, worker.holds)]
  /\ UNCHANGED <<session, loop, client>>

\* ... and the byte in the pipe, after it.
Wake ==
  /\ worker.waking
  /\ outbox' = [outbox EXCEPT !.awake = TRUE]
  /\ worker' = [worker EXCEPT !.waking = FALSE]
  /\ UNCHANGED <<session, loop, client, pushed>>

-----------------------------------------------------------------------------
(* The client.                                                              *)

ClientSends ==
  /\ ~client.closed /\ client.left > 0
  /\ \E r \in Request : client' = [client EXCEPT !.sent = Append(@, r), !.left = @ - 1]
  /\ UNCHANGED <<session, loop, worker, outbox, pushed>>

ClientReads ==
  /\ client.unread > 0
  /\ client' = [client EXCEPT !.unread = @ - 1]
  /\ UNCHANGED <<session, loop, worker, outbox, pushed>>

ClientCloses ==
  /\ ~client.closed
  /\ client' = [client EXCEPT !.closed = TRUE, !.unread = 0]
  /\ UNCHANGED <<session, loop, worker, outbox, pushed>>

Loop == Poll \/ Drain \/ Take \/ Read \/ Handle \/ Answered \/ Send \/ Leave \/ Stop
\* ... until the process is killed.
Thread == ~At("killed") /\ (Deliver \/ Offer \/ Wake)

Next == Accept \/ Loop \/ Thread \/ ClientSends \/ ClientReads \/ ClientCloses

Spec == Init /\ [][Next]_vars

\* Threads run, and the client reads what it is sent; it need not send anything.
FairSpec == Spec /\ WF_vars(Loop) /\ WF_vars(Thread) /\ WF_vars(ClientReads)

-----------------------------------------------------------------------------

TypeOK ==
  /\ session \in [subscribed : BOOLEAN, queue : Seq(1..MaxEvents), seq : 0..MaxEvents]
  /\ Len(session.queue) <= SessionCap
  /\ loop \in [at : {"accept", "poll", "drain", "take", "read", "answer", "send", "leave", "ended", "killed"},
               ready : SUBSET {"in", "out", "wake"}, pushOn : BOOLEAN, in : Seq(Request),
               out : Seq(Line), pending : 0..MaxEvents, gone : BOOLEAN, quit : BOOLEAN,
               conns : 0..MaxConns]
  /\ worker \in [q : Seq(1..MaxEvents), holds : 0..MaxEvents, waking : BOOLEAN]
  /\ outbox \in [q : Seq(1..MaxEvents), dropped : 0..MaxEvents, awake : BOOLEAN]
  /\ Len(outbox.q) <= OutboxCap /\ Len(worker.q) <= HubCap
  /\ client \in [sent : Seq(Request), left : 0..MaxRequests, unread : 0..SocketRoom, closed : BOOLEAN]
  /\ pushed \in [offered : Seq(1..MaxEvents), lines : Seq(Line), told : Seq(0..MaxEvents)]

\* docs/07 3 and pushLine: whatever the interleaving of the two threads, a client
\* that adds up the lines and their dropped numbers knows, at every line, how many
\* events were given to this connection up to it, and what is not told yet is
\* still counted.
LossIsTold ==
  /\ TypeOK
  /\ \A n \in DOMAIN pushed.lines :
       /\ pushed.told[n] = (IF n = 1 THEN 0 ELSE pushed.told[n - 1]) + pushed.lines[n].dropped
       /\ Cardinality({k \in DOMAIN pushed.offered : pushed.offered[k] <= pushed.lines[n].push})
            = n + pushed.told[n]
  /\ Len(pushed.offered) =
       Len(pushed.lines) + Told + loop.pending + outbox.dropped + Len(outbox.q)

\* serveConnection, the end: nothing is left that could touch the outbox once the
\* connection is gone, and a new connection starts with nothing of the one before.
NothingOutlives ==
  At("accept") => worker = NoWorker /\ outbox = NoOutbox

\* docs/07 3: the server pushes on its own.  A line in the outbox is taken, though
\* no request ever comes and the wake-up may come while the loop empties the pipe.
PushesGoOut == outbox.q # <<>> ~> outbox.q = <<>> \/ At("killed")

\* A quit ends the server once the client has read what was owed to it: the lines
\* a full socket keeps back are written when there is room again.
QuitEnds == loop.quit ~> At("ended") \/ At("killed")
=============================================================================
