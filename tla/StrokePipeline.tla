--------------------------- MODULE StrokePipeline ---------------------------
(***************************************************************************)
(* From a pen's events to stamps and dirty tiles (stroke/src): the input is *)
(* normalised, smoothed, and the way between two samples filled with stamps *)
(* at the engine's spacing; the engine lists every tile it paints.          *)
(*                                                                         *)
(* The path is one-dimensional: a position is a number, an arc length a     *)
(* distance.  Pressure, tilt, rotation and velocity are left out, so the    *)
(* spacing is one number; the stamp is a point and paints the tile under    *)
(* it.  Arc lengths and times are integers and divisions round down.        *)
(***************************************************************************)
EXTENDS Integers, Sequences, SequencesExt

CONSTANTS
  Spacing,              \* the engine's spacing, clamped to the configured limits
  MaxStampsPerSegment,  \* InterpolateConfig::maxStampsPerSegment
  MaxDelta,             \* NormalizeConfig::maxDeltaMs
  DirtyReserve,         \* StrokeConfig::dirtyReserve
  TileSize

ASSUME StrokePipelineAssumption ==
  /\ {Spacing, MaxStampsPerSegment, TileSize} \subseteq Nat \ {0}
  /\ {MaxDelta, DirtyReserve} \subseteq Nat

Least(a, b) == IF a < b THEN a ELSE b
Most(a, b) == IF a < b THEN b ELSE a

\* A pipeline and its stages: normalizer (lastT, time), smoother (smooth, state),
\* interpolator (prev, prevTime, pending, traveled), the dirty list, its capacity
\* and whether it is sorted.  History: the stamps of the stroke, as arc length and
\* time, the stamps the budget cut short, and the tiles painted since the list was
\* last cleared.
Idle == [active |-> FALSE, smooth |-> FALSE, lastT |-> 0, time |-> 0, state |-> 0,
         prev |-> 0, prevTime |-> 0, pending |-> 0, traveled |-> 0,
         dirty |-> << >>, cap |-> 0, clean |-> TRUE,
         stamps |-> << >>, cut |-> {}, painted |-> {}]

-----------------------------------------------------------------------------
(* The engine and the dirty list *)

\* The selection and the allocation of the tile decide whether a stamp leaves ink.
Inked(tile, full) == tile \notin full

\* A stamp paints its tile and lists it, unless no ink is left.
Stamp(p, full, x) ==
  LET tile == x \div TileSize
  IN IF Inked(tile, full) THEN [p EXCEPT !.dirty = Append(@, tile), !.painted = @ \cup {tile}] ELSE p

Sorted(s) == SetToSortSeq(ToSet(s), LAMBDA a, b : a < b)

CompactDirty(p) == [p EXCEPT !.dirty = Sorted(@), !.clean = TRUE]

DirtyTiles(p) == IF p.clean THEN p ELSE CompactDirty(p)

ClearDirty(p) == [p EXCEPT !.dirty = << >>, !.clean = TRUE, !.painted = {}]

-----------------------------------------------------------------------------
(* The stages *)

\* Time never goes back and one event takes at most MaxDelta of it.
Elapsed(p, t) == Most(0, Least(t - p.lastT, MaxDelta))

Normalize(p, e) == [p EXCEPT !.time = @ + Elapsed(p, e.t), !.lastT = e.t]

StartTime(p, e) == [p EXCEPT !.lastT = e.t, !.time = 0]

Smooth(p, e) == [p EXCEPT !.state = IF p.smooth THEN @ + (e.x - @) \div 2 ELSE e.x]

Reset(p, e) == [p EXCEPT !.state = e.x]

\* The interpolator hands a stamp to the engine.
Emit(p, full, at, x, t) == Stamp([p EXCEPT !.stamps = Append(@, [at |-> at, time |-> t])], full, x)

\* A stroke that is only put down leaves one stamp.
StartPath(p, full) ==
  [Emit([p EXCEPT !.prev = p.state, !.prevTime = p.time, !.traveled = 0,
                  !.stamps = << >>, !.cut = {}], full, 0, p.state, p.time)
     EXCEPT !.pending = Spacing]

\* Mutant: every segment starts its spacing anew.
CarriedAnew(target, total) == Spacing

\* The way left to the next stamp is carried into the next segment.
Carried(target, total) == Most(0, target - total)

\* The segment from the previous sample to this one.
Push(p, full) ==
  LET total == Most(p.state - p.prev, p.prev - p.state)
      due == IF p.pending > total THEN 0 ELSE (total - p.pending) \div Spacing + 1
      n == IF total = 0 THEN 0 ELSE Least(due, MaxStampsPerSegment)
      target(k) == p.pending + (k - 1) * Spacing
      where(d) == IF p.state > p.prev THEN p.prev + d ELSE p.prev - d
      when(d) == p.prevTime + ((p.time - p.prevTime) * d) \div total
      stamp(q, k) == Emit(q, full, p.traveled + target(k), where(target(k)), when(target(k)))
      q == FoldLeftDomain(stamp, p, [k \in 1..n |-> k])
  IN [q EXCEPT !.prev = p.state, !.prevTime = p.time,
               !.traveled = @ + total,
               !.pending = IF total = 0 THEN @ ELSE Carried(target(n + 1), total),
               !.cut = IF n < due /\ total > 0 THEN @ \cup {Len(q.stamps)} ELSE @]

-----------------------------------------------------------------------------
(* StrokePipeline *)

End(p) == IF p.active THEN [p EXCEPT !.active = FALSE, !.clean = FALSE] ELSE p

\* A stroke that is still active ends first.  The engine may refuse to begin.
Begin(p, full, engineOk, e) ==
  LET q == End(p)
      s == StartPath(Reset(StartTime([q EXCEPT !.cap = Most(@, DirtyReserve)], e), e), full)
  IN IF engineOk
     THEN [s EXCEPT !.active = TRUE, !.cap = Most(@, Len(s.dirty)), !.clean = s.dirty = << >>]
     ELSE q

\* Mutant: a list that was sorted once is taken to stay sorted.
ExtendStillClean(p, full, e) ==
  IF ~p.active THEN p
  ELSE LET q == Push(Smooth(Normalize(p, e), e), full)
           r == [q EXCEPT !.cap = Most(@, Len(q.dirty))]
       IN IF Len(r.dirty) >= r.cap THEN CompactDirty(r) ELSE r

\* The list is compacted when its reserve is used up; it grows if one segment needs it to.
Extend(p, full, e) ==
  IF ~p.active THEN p
  ELSE LET q == Push(Smooth(Normalize(p, e), e), full)
           r == [q EXCEPT !.clean = FALSE, !.cap = Most(@, Len(q.dirty))]
       IN IF Len(r.dirty) >= r.cap THEN CompactDirty(r) ELSE r

EndAt(p, full, e) == IF p.active THEN End(Extend(p, full, e)) ELSE p
=============================================================================
