------------------------------ MODULE PenStroke ------------------------------
(***************************************************************************)
(* The pen, from the window's messages to the canvas                        *)
(* (platform/win/input/pointer_input.cpp): a message announces what a       *)
(* pointer reported since the last one; PointerInput lets one pointer draw  *)
(* at a time and hands its reports, oldest first, to a target that drives a *)
(* StrokePipeline.                                                          *)
(*                                                                         *)
(* External: what Windows does with pointers, and the target, which the     *)
(* repository leaves to its host and describes in pointer_input.hpp 58-71.  *)
(***************************************************************************)
EXTENDS StrokePipeline, FiniteSets

CONSTANTS
  None,
  Pens, Others,  \* the pointers; a mouse or a touch is one of Others
  HistoryCap,    \* kHistoryCap
  Xs, Ts,        \* bound: positions and times of reports
  MaxPerMessage, \* bound: reports announced by one message
  MaxReports,    \* bound: reports
  MaxFaults      \* bound: look-ups that fail, settings changed, detachments

ASSUME PenStrokeAssumption ==
  /\ HistoryCap \in Nat \ {0} /\ {MaxPerMessage, MaxReports, MaxFaults} \subseteq Nat
  /\ Pens \cap Others = {} /\ None \notin Pens \cup Others
  /\ Xs \subseteq Nat /\ Ts \subseteq Nat

Pointer == Pens \cup Others

VARIABLES
  touching,  \* Windows: the pointers in contact
  attached,  \* target_ is set
  accepts,   \* the Others taken as drawing input (acceptTouch_, acceptMouse_)
  activeId,  \* activeId_, or None
  pipe,      \* the target's StrokePipeline
  full,      \* the tiles that take no ink
  untold,    \* history: the stroke lost its pointer and the target was not told
  reports, faults

vars == <<touching, attached, accepts, activeId, pipe, full, untold, reports, faults>>

Report == [x : Xs, t : Ts]
Reports == UNION {[1..n -> Report] : n \in 1..MaxPerMessage}

Init ==
  /\ touching = {} /\ attached = TRUE /\ accepts \in SUBSET Others /\ activeId = None
  /\ \E s \in BOOLEAN : pipe = [Idle EXCEPT !.smooth = s]
  /\ full \in {{}, {0}}
  /\ untold = FALSE /\ reports = 0 /\ faults = 0

-----------------------------------------------------------------------------
(* The target *)

Told(p, call, engineOk) ==
  CASE call.phase = "down" -> Begin(p, full, engineOk, call.at)
    [] call.phase = "move" -> Extend(p, full, call.at)
    [] call.phase = "up" -> EndAt(p, full, call.at)

\* The compositor reads the dirty tiles, to draw them or just to look.
Collect ==
  /\ pipe.painted # {} \/ ~pipe.clean
  /\ pipe' \in {ClearDirty(DirtyTiles(pipe)), DirtyTiles(pipe)}
  /\ UNCHANGED <<touching, attached, accepts, activeId, full, untold, reports, faults>>

-----------------------------------------------------------------------------
(* PointerInput::dispatch *)

Newest(s) == IF Len(s) > HistoryCap THEN SubSeq(s, Len(s) - HistoryCap + 1, Len(s)) ELSE s

\* Down goes with the first point in time, up with the last, move with the others.
Phase(phase, i, n) ==
  CASE phase = "down" /\ i = 1 -> "down"
    [] phase = "up" /\ i = n -> "up"
    [] OTHER -> "move"

\* What the target is told of a message's reports: of a pen all of them, of another
\* pointer the last one, if it is accepted.
Calls(p, phase, s) ==
  LET h == IF p \in Pens THEN Newest(s) ELSE << Last(s) >>
  IN IF p \in Others \ accepts THEN << >>
     ELSE [i \in 1..Len(h) |-> [phase |-> Phase(phase, i, Len(h)), at |-> h[i]]]

\* A point that cannot be placed is left out; a pen whose history cannot be read
\* gives its last point alone; a pointer that cannot be looked up gives none.
WithFaults(p, phase, s) ==
  LET all == Calls(p, phase, s)
      some(kept) == [k \in 1..Cardinality(kept) |-> all[Sorted(SetToSeq(kept))[k]]]
  IN {some(kept) : kept \in SUBSET DOMAIN all} \cup
     IF all = << >> THEN {} ELSE {<< [phase |-> phase, at |-> Last(s)] >>}

Tells(calls, phase) == \E i \in DOMAIN calls : calls[i].phase = phase

Dispatch(p, phase, s) ==
  \E calls \in WithFaults(p, phase, s), engineOk \in BOOLEAN :
    /\ (~engineOk => Tells(calls, "down"))
    /\ faults' = faults + (IF calls = Calls(p, phase, s) THEN 0 ELSE 1)
                        + (IF engineOk THEN 0 ELSE 1)
    /\ faults' <= MaxFaults
    /\ pipe' = FoldLeft(LAMBDA q, c : Told(q, c, engineOk), pipe, calls)
    /\ untold' = IF Tells(calls, "down") \/ Tells(calls, "up") THEN FALSE
                 ELSE untold \/ phase = "up"

-----------------------------------------------------------------------------
(* The messages; a window that is not attached leaves them to others *)

Message(s) ==
  /\ reports + Len(s) <= MaxReports
  /\ reports' = reports + Len(s)
  /\ UNCHANGED <<attached, accepts, full>>

Ignored == UNCHANGED <<activeId, pipe, untold, faults>>

\* A second pointer is ignored while one draws.  The pointer is taken to draw
\* whether or not it is one that is accepted.
PointerDown(p) ==
  /\ p \notin touching /\ touching' = touching \cup {p}
  /\ \E s \in Reports :
       /\ Message(s)
       /\ \/ attached /\ activeId \in {None, p} /\ activeId' = p /\ Dispatch(p, "down", s)
          \/ ~(attached /\ activeId \in {None, p}) /\ Ignored

PointerUpdate(p) ==
  /\ p \in touching /\ UNCHANGED touching
  /\ attached /\ activeId = p /\ UNCHANGED activeId
  /\ \E s \in Reports : Message(s) /\ Dispatch(p, "move", s)

PointerUp(p) ==
  /\ p \in touching /\ touching' = touching \ {p}
  /\ \E s \in Reports :
       /\ Message(s)
       /\ \/ attached /\ activeId = p /\ activeId' = None /\ Dispatch(p, "up", s)
          \/ ~(attached /\ activeId = p) /\ Ignored

\* Mutant: the pointer is let go and the stroke is not.
CancelledSilently == pipe

\* onPointerCancel ends the stroke without a point.
Cancelled == End(pipe)

\* WM_POINTERCAPTURECHANGED, of any pointer, WM_KILLFOCUS and WM_CANCELMODE.
CaptureLost ==
  /\ attached /\ activeId # None
  /\ pipe' = Cancelled /\ activeId' = None /\ untold' = FALSE
  /\ UNCHANGED <<touching, attached, accepts, full, reports, faults>>

\* detach() lets the pointer go and tells nobody.
Detach ==
  /\ attached /\ faults < MaxFaults
  /\ attached' = FALSE /\ activeId' = None
  /\ untold' = (untold \/ activeId # None)
  /\ faults' = faults + 1
  /\ UNCHANGED <<touching, accepts, pipe, full, reports>>

Attach ==
  /\ ~attached /\ attached' = TRUE
  /\ UNCHANGED <<touching, accepts, activeId, pipe, full, untold, reports, faults>>

\* setAcceptTouch and setAcceptMouse, also in the middle of a stroke.
SetAccept(p) ==
  /\ faults < MaxFaults /\ faults' = faults + 1
  /\ accepts' = IF p \in accepts THEN accepts \ {p} ELSE accepts \cup {p}
  /\ UNCHANGED <<touching, attached, activeId, pipe, full, untold, reports>>

-----------------------------------------------------------------------------
Next ==
  \/ \E p \in Pointer : PointerDown(p) \/ PointerUpdate(p) \/ PointerUp(p)
  \/ \E p \in Others : SetAccept(p)
  \/ CaptureLost \/ Detach \/ Attach \/ Collect

Spec == Init /\ [][Next]_vars

-----------------------------------------------------------------------------
TypeOK ==
  /\ touching \subseteq Pointer /\ accepts \subseteq Others
  /\ activeId \in Pointer \cup {None}
  /\ ~attached => activeId = None
  /\ {attached, untold, pipe.active, pipe.clean} \subseteq BOOLEAN
  /\ Len(pipe.dirty) <= pipe.cap
  /\ pipe.pending \in 0..Spacing

(* A stroke in progress has a pointer that draws it, but for the strokes whose up was   *)
(* swallowed by a failed look-up, a changed setting or detach(): no message lets the    *)
(* pointer go and leaves a stroke that never ends (pointer_input.cpp 306-344).          *)
StrokesAreClosed == TypeOK /\ (pipe.active => activeId # None \/ untold)

(* However the reports were cut into messages and segments, the stamps of a stroke are  *)
(* one spacing apart along its way and no later in time than the next: farther apart    *)
(* only where a segment's budget of stamps ran out, never closer (interpolate.cpp       *)
(* 118-186, normalize.cpp 65-77).                                                       *)
StampsAreEven ==
  \A i \in 2..Len(pipe.stamps) :
    LET a == pipe.stamps[i - 1]
        b == pipe.stamps[i]
    IN /\ a.time <= b.time
       /\ b.at >= a.at + Spacing
       /\ (i - 1) \notin pipe.cut => b.at = a.at + Spacing

(* The compositor is given every tile painted since it last asked, once and in order,   *)
(* wherever in the stroke the list was compacted (pipeline.cpp 55-111).                 *)
CompositorSeesAll == LET d == DirtyTiles(pipe).dirty IN d = Sorted(SetToSeq(pipe.painted))
=============================================================================
