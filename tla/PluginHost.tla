------------------------------ MODULE PluginHost ------------------------------
(***************************************************************************)
(* Running a Photoshop filter plug-in in a process of its own:             *)
(*   hosts/client/host_client.cpp   the program's side: apply() watches a  *)
(*                                  worker thread that makes the COM call, *)
(*                                  cancel() comes from another thread     *)
(*   hosts/host/main.cpp, host_object.cpp, plugin_loader.cpp               *)
(*                                  the host process, one thread (an STA)  *)
(*   platform/win/com/dual_base.cpp, server.cpp                            *)
(*                                  when a host process ends               *)
(*                                                                         *)
(* The plug-in is arbitrary: it may return, fail, hang or take its process *)
(* down.  The host is the build with MARI_8BF_FILTERRECORD_VERIFIED; the   *)
(* other build returns PluginLoadFailed instead of running the plug-in.    *)
(* The host gives the plug-in no access to the shared pixels yet, so only  *)
(* the control of the call is modelled.                                    *)
(***************************************************************************)
EXTENDS Integers

CONSTANTS
  Nothing,
  MaxCalls,    \* bound: calls of apply() and enumerate()
  MaxHosts     \* bound: host processes started

Pid == 1..MaxHosts

\* What a filter call may come to.
HostStatus == {"Ok", "PluginLoadFailed", "PluginRefused", "PluginCrashed", "TimedOut",
               "UnsupportedFormat", "ShmError", "Cancelled", "ArchMismatch"}

\* Nothing is no process, no answer and no header.
ASSUME PluginHostAssumption ==
  /\ MaxCalls \in Nat /\ MaxHosts \in Nat
  /\ Nothing \notin Pid /\ Nothing \notin HostStatus \cup {"calling", "dead"}
  /\ Nothing \notin [cancel : BOOLEAN, pid : Pid \cup {Nothing}]

VARIABLES
  caller,     \* apply(): "idle", "watch" (asks whether the worker is done), "turn"
              \* (a turn of the watching loop), "join"; "gone" once it is deleted
  time,       \* since apply began: 0 in time, 1 past the timeout, 2 past the grace,
              \* 3 past five times the grace
  asked,      \* askedCancel
  killed,
  cancelled,  \* Impl::cancelled
  held,       \* Impl::host: the process of the object held, or Nothing
  map,        \* the shared header: [cancel, pid], or Nothing when closed
  worker,     \* the worker thread: Nothing, "calling" or what the call came back with
  canceller,  \* the thread in cancel(): Nothing, or the process whose Cancel it waits for
  host,       \* the host processes
  result,     \* the last ApplyResult's status, Nothing while there is none
  calls       \* history: calls of apply

filterVars == <<caller, time, asked, killed, cancelled, held, map, worker, canceller, host,
                result, calls>>
callVars == <<time, asked, killed, cancelled, map, worker>>

\* A process: alive, WM_QUIT posted, objects counted by ServerLock, what its
\* thread does, a Cancel call waiting for that thread, and the AbortSignal.
NotStarted == [alive |-> FALSE, quit |-> FALSE, objects |-> 0, at |-> "loop",
               waiting |-> FALSE, cancel |-> FALSE, timedOut |-> FALSE]

FilterInit ==
  /\ caller = "idle" /\ time = 0 /\ asked = FALSE /\ killed = FALSE /\ cancelled = FALSE
  /\ held = Nothing /\ map = Nothing /\ worker = Nothing /\ canceller = Nothing
  /\ host = [p \in Pid |-> NotStarted]
  /\ result = Nothing /\ calls = 0

Alive == {p \in Pid : host[p].alive}
Started == {p \in Pid : host[p] # NotStarted}
Dead(h) == [h EXCEPT !.alive = FALSE, !.objects = 0, !.waiting = FALSE, !.at = "dead"]

-----------------------------------------------------------------------------
(* When a host ends *)

\* Mutant: the class factory counts as an object of the server.
CountWithFactory(h) == h.objects + 1

Count(h) == h.objects

\* Releasing the last object posts WM_QUIT, and so does the idle timer.
Asked(h) == IF Count(h) = 0 THEN [h EXCEPT !.quit = TRUE] ELSE h

Released(hosts, p) ==
  IF p = Nothing \/ ~hosts[p].alive THEN hosts
  ELSE [hosts EXCEPT ![p] = Asked([hosts[p] EXCEPT !.objects = @ - 1])]

IdleTimer(p) ==
  /\ host[p].alive /\ host[p].at = "loop" /\ ~host[p].quit
  /\ host' = [host EXCEPT ![p] = Asked(@)]
  /\ host' # host
  /\ UNCHANGED <<caller, callVars, held, canceller, result, calls>>

\* The message loop sees WM_QUIT only between calls; a client that got an object
\* of this process meanwhile loses it.
HostExit(p) ==
  /\ host[p].alive /\ host[p].quit /\ host[p].at = "loop"
  /\ host' = [host EXCEPT ![p] = Dead(@)]
  /\ UNCHANGED <<caller, callVars, held, canceller, result, calls>>

-----------------------------------------------------------------------------
(* apply() and enumerate(): the calling thread *)

\* Activation finds a process that is still registered, or starts one.
Found == IF Alive # {} THEN Alive ELSE {p \in Pid \ Started : 1..(p - 1) \subseteq Started}
Created(hosts, p) == [hosts EXCEPT ![p].alive = TRUE, ![p].objects = @ + 1]

\* The block both processes see: what they tell each other besides the pixels.
ShmHeader == [cancel |-> FALSE, pid |-> Nothing]

\* What apply() answers without having called the host.
Fails(hosts, keeps) ==
  /\ caller' = "idle" /\ map' = Nothing /\ worker' = Nothing
  /\ host' = hosts /\ held' = keeps
  /\ result' = "error"

\* computeLayout takes no picture of no size or of more than a 32 bit host can map;
\* an object left by an earlier call stays.
TooLarge == Fails(host, held)

\* The mapping is made, the host created and the worker started.  Each may fail:
\* asking for the host releases the object left by an earlier call; a process may
\* come up and not make the object; when the worker cannot be given its interface
\* the new object stays.
Apply ==
  /\ caller = "idle" /\ calls < MaxCalls
  /\ calls' = calls + 1
  /\ time' = 0 /\ asked' = FALSE /\ killed' = FALSE /\ cancelled' = FALSE
  /\ UNCHANGED canceller
  /\ LET hosts == Released(host, held)
     IN \/ TooLarge
        \/ Fails(hosts, Nothing)
        \/ \E p \in Found :
             \/ Fails([hosts EXCEPT ![p].alive = TRUE], Nothing)
             \/ Fails(Created(hosts, p), p)
             \/ /\ caller' = "watch" /\ host' = Created(hosts, p) /\ held' = p
                /\ map' = ShmHeader
                /\ worker' = "calling"
                /\ result' = Nothing

\* The host reads the plug-in's resources, which runs none of its code; a damaged
\* file may still take the process down.
Scanned(hosts, p) == {hosts, [hosts EXCEPT ![p] = Dead(@)]}

\* enumerate() asks a host for that and lets it go.
Enumerate ==
  /\ caller = "idle" /\ calls < MaxCalls
  /\ calls' = calls + 1
  /\ \E p \in Found : \E hosts \in Scanned(Created(host, p), p) : host' = Released(hosts, p)
  /\ UNCHANGED <<caller, callVars, held, canceller, result>>

Look ==
  /\ caller = "watch"
  /\ caller' = IF worker = "calling" THEN "turn" ELSE "join"
  /\ UNCHANGED <<callVars, held, canceller, host, result, calls>>

\* Mutant: the loop either asks or kills, and asking is remembered.
MayKillUnasked == time >= 2 /\ ~asked

MayKill == time >= 2

\* One turn, after a sleep in which the call may have come back: ask once, when
\* cancelled or late; after the grace terminate the process named in the header.
\* The longest wait ends the loop.
Turn ==
  LET asks == ~asked /\ (cancelled \/ time > 0)
      kills == MayKill /\ map.pid # Nothing
  IN /\ caller = "turn"
     /\ asked' = (asked \/ asks)
     /\ map' = [map EXCEPT !.cancel = @ \/ asks]
     /\ IF kills
        THEN /\ killed' \in IF host[map.pid].alive THEN {TRUE} ELSE {killed, TRUE}
             /\ host' = [host EXCEPT ![map.pid] = Dead(@)]
        ELSE UNCHANGED <<killed, host>>
     /\ caller' = IF time = 3 THEN "join" ELSE "watch"
     /\ UNCHANGED <<time, cancelled, held, worker, canceller, result, calls>>

Tick ==
  /\ caller \in {"watch", "turn"} /\ time < 3
  /\ time' = time + 1
  /\ UNCHANGED <<caller, asked, killed, cancelled, held, map, worker, canceller, host, result,
                 calls>>

\* Mutant: the reply is looked at first.
VerdictByReply == IF worker = "dead" THEN "PluginCrashed" ELSE IF killed THEN "TimedOut" ELSE worker

Verdict == IF killed THEN "TimedOut" ELSE IF worker = "dead" THEN "PluginCrashed" ELSE worker

\* The worker is joined, the result judged and the object released.
Judge ==
  /\ caller = "join" /\ worker # "calling"
  /\ result' = Verdict
  /\ caller' = "idle" /\ map' = Nothing /\ worker' = Nothing
  /\ host' = Released(host, held) /\ held' = Nothing
  /\ UNCHANGED <<time, asked, killed, cancelled, canceller, calls>>

\* The client is deleted: the object it may still hold goes.
Delete ==
  /\ caller = "idle" /\ canceller = Nothing
  /\ caller' = "gone"
  /\ host' = Released(host, held) /\ held' = Nothing
  /\ UNCHANGED <<callVars, canceller, result, calls>>

-----------------------------------------------------------------------------
(* cancel(), from another thread; its COM call waits for the host's thread *)

Cancel ==
  /\ caller # "gone" /\ canceller = Nothing /\ ~cancelled
  /\ cancelled' = TRUE
  /\ map' = IF map = Nothing THEN Nothing ELSE [map EXCEPT !.cancel = TRUE]
  /\ IF held # Nothing /\ host[held].alive
     THEN canceller' = held /\ host' = [host EXCEPT ![held].waiting = TRUE]
     ELSE UNCHANGED <<canceller, host>>
  /\ UNCHANGED <<caller, time, asked, killed, held, worker, result, calls>>

CancelReturns ==
  /\ canceller # Nothing /\ ~host[canceller].waiting
  /\ canceller' = Nothing
  /\ UNCHANGED <<caller, callVars, held, host, result, calls>>

\* The thread of the host serves Cancel between calls.
ServeCancel(p) ==
  /\ host[p].alive /\ host[p].at = "loop" /\ host[p].waiting
  /\ host' = [host EXCEPT ![p].waiting = FALSE, ![p].cancel = TRUE]
  /\ UNCHANGED <<caller, callVars, held, canceller, result, calls>>

-----------------------------------------------------------------------------
(* The host's Apply, on its one thread *)

\* The call is back at the client; the notes may fail to be allocated.
Answer(p, h, statuses) ==
  /\ worker' \in statuses \cup {"ShmError"}
  /\ host' = [host EXCEPT ![p] = [h EXCEPT !.at = "loop"]]
  /\ UNCHANGED <<caller, time, asked, killed, cancelled, held, map, canceller, result, calls>>

Called(p, at) == host[p].alive /\ host[p].at = at /\ held = p /\ worker = "calling"

Goes(p, at) ==
  /\ host' = [host EXCEPT ![p].at = at]
  /\ UNCHANGED <<caller, time, asked, killed, cancelled, held, worker, canceller, result, calls>>

\* The mapping cannot be opened or its header is not one the host knows.
HeaderRefused(p) == Called(p, "loop") /\ Answer(p, host[p], {"ShmError"})

\* The header is good: the process leaves its number in it.
Serve(p) == Called(p, "loop") /\ map' = [map EXCEPT !.pid = p] /\ Goes(p, "scan")

\* The plug-in's resources are no plug-in's, or it is built for the other host.
ScanFails == {"PluginLoadFailed", "ArchMismatch"}

Scan(p) ==
  /\ Called(p, "scan")
  /\ Answer(p, host[p], ScanFails) \/ (Goes(p, "load") /\ UNCHANGED map)

\* Loading runs the plug-in's initialisation and looks for its entry point.
Load(p) ==
  /\ Called(p, "load")
  /\ Answer(p, host[p], {"PluginLoadFailed"}) \/ (Goes(p, "filter") /\ UNCHANGED map)

\* abortProc: cancelled, or past the deadline, which the AbortSignal remembers.
\* The plug-in asks it as often as it likes, the host before each Continue.
Asking(h) ==
  {h} \cup (IF ~h.cancel /\ time > 0 THEN {[h EXCEPT !.timedOut = TRUE]} ELSE {})

\* The signal says late, whatever the plug-in says.
Outcomes(h) == IF h.timedOut THEN {"TimedOut"} ELSE {"Cancelled", "PluginRefused", "Ok"}

\* Parameters, Prepare, Start, a bounded number of Continues and Finish return.
Return(p) == Called(p, "filter") /\ \E h \in Asking(host[p]) : Answer(p, h, Outcomes(h))

InPlugin(p) == host[p].alive /\ host[p].at \in {"load", "filter"}

\* The plug-in loops for ever without asking abortProc.
Hang(p) ==
  /\ InPlugin(p)
  /\ host' = [host EXCEPT ![p].at = "hung"]
  /\ UNCHANGED <<caller, callVars, held, canceller, result, calls>>

\* The plug-in, or the reading of its file, crashes and the process with it.
PluginCrash(p) ==
  /\ InPlugin(p) \/ (host[p].alive /\ host[p].at = "scan")
  /\ host' = [host EXCEPT ![p] = Dead(@)]
  /\ UNCHANGED <<caller, callVars, held, canceller, result, calls>>

\* A call to a process that is no more comes back with an RPC error, one of those
\* that mean a dead host or another.
CallDies ==
  /\ worker = "calling" /\ ~host[held].alive
  /\ worker' \in {"dead", "ShmError"}
  /\ UNCHANGED <<caller, time, asked, killed, cancelled, held, map, canceller, host, result, calls>>

\* The worker gets no interface, and no call is made.
CallFails ==
  /\ worker = "calling" /\ host[held].alive /\ map.pid = Nothing
  /\ worker' = "ShmError"
  /\ UNCHANGED <<caller, time, asked, killed, cancelled, held, map, canceller, host, result, calls>>

-----------------------------------------------------------------------------
HostStep(p) ==
  \/ IdleTimer(p) \/ HostExit(p) \/ ServeCancel(p)
  \/ HeaderRefused(p) \/ Serve(p) \/ Scan(p) \/ Load(p) \/ Return(p)

FilterNext ==
  \/ Apply \/ Enumerate \/ Look \/ Turn \/ Tick \/ Judge \/ Delete
  \/ Cancel \/ CancelReturns \/ CallDies \/ CallFails
  \/ \E p \in Pid : HostStep(p) \/ Hang(p) \/ PluginCrash(p)

\* The program's threads keep running, time passes, and a host's thread that is not
\* in the plug-in serves its messages.  The plug-in and the callers owe nothing.
Fairness ==
  /\ WF_filterVars(Look) /\ WF_filterVars(Turn) /\ WF_filterVars(Tick) /\ WF_filterVars(Judge)
  /\ WF_filterVars(CallDies) /\ WF_filterVars(CancelReturns)
  /\ \A p \in Pid : /\ WF_filterVars(IdleTimer(p)) /\ WF_filterVars(HostExit(p))
                    /\ WF_filterVars(ServeCancel(p))
                    /\ WF_filterVars(Serve(p)) /\ WF_filterVars(Scan(p))

FilterSpec == FilterInit /\ [][FilterNext]_filterVars /\ Fairness

-----------------------------------------------------------------------------
FilterTypeOK ==
  /\ caller \in {"idle", "watch", "turn", "join", "gone"} /\ time \in 0..3
  /\ {asked, killed, cancelled} \subseteq BOOLEAN
  /\ {held, canceller} \subseteq Pid \cup {Nothing}
  /\ map # Nothing => map \in [cancel : BOOLEAN, pid : Pid \cup {Nothing}]
  /\ worker = Nothing <=> caller \in {"idle", "gone"}
  /\ map = Nothing <=> caller \in {"idle", "gone"}
  /\ \A p \in Pid : /\ host[p].objects \in Nat
                    /\ host[p].at \in {"loop", "scan", "load", "filter", "hung", "dead"}
                    /\ host[p].alive => host[p].at # "dead"

(* A filter call whose host signed in while the loop still watched comes back whatever *)
(* the plug-in does: host_client.cpp 275-315 asks, then terminates the host, so that   *)
(* the join behind the loop cannot block.                                              *)
SignedIn == caller \in {"watch", "turn"} /\ map.pid # Nothing
ApplyReturns == SignedIn ~> caller \in {"idle", "gone"}

(* What apply() tells of a host it terminated itself is that time ran out: never that *)
(* the plug-in crashed, and never Ok, which would copy pixels back from a mapping the *)
(* host may have been writing (host_client.cpp 317-351).                              *)
BlameIsFair ==
  FilterTypeOK /\ (killed => result \notin {"PluginCrashed", "Ok", "Cancelled", "PluginRefused"})

(* No host outlives the client, whatever failed between creating and calling it       *)
(* (main.cpp 25-34, dual_base.cpp 25-31).                                             *)
HostsEnd == caller = "gone" ~> \A p \in Pid : ~host[p].alive
=============================================================================
