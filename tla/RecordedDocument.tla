--------------------------- MODULE RecordedDocument ---------------------------
(***************************************************************************)
(* One document under drawing: its tiles, its undo stacks and the journal  *)
(* that records every change (agent/src/ops_draw.cpp, app/src/document.cpp,*)
(* app/src/stroke_entry.cpp, core/src/undo.cpp and                         *)
(* record/src/sigan_recorder.cpp).                                         *)
(*                                                                         *)
(* An operation paints first and records afterwards; when the journal      *)
(* fails it is rolled back through the undo stack and the document refuses *)
(* every later one (docs/06, decision 4).  The tiles of one layer stand    *)
(* for the canvas, and a tile's content is the number of the operation     *)
(* that changed it last, 0 for an empty one.  Operation k publishes the    *)
(* frames 2k-1 and 2k: a region operation exactly these, a stroke of more  *)
(* points more of the same kind.                                           *)
(***************************************************************************)
EXTENDS JournalFile, ProofLog, FiniteSetsExt

CONSTANTS
  Tile,        \* the tiles of the layer
  MaxOps,      \* bound: drawing operations
  UndoLimit,   \* UndoStack::limit_, counted in commands
  Uses         \* what the caller does besides drawing: a subset of Usage

\* undo, redo: the calls of IDocumentBridge; unchanged: an operation that leaves
\* every tile as it was, as erasing where nothing is.
Usage == {"undo", "redo", "unchanged"}

ASSUME RecordedDocumentAssumption ==
  /\ MaxOps \in Nat
  /\ UndoLimit \in Nat \ {0}
  /\ Uses \subseteq Usage

VARIABLES
  journal,    \* the publisher's journal
  broken,     \* SiganRecorder::broken_
  drawn,      \* history: the kind of every operation that began
  tiles,      \* the layer's tile map
  undo, redo, \* UndoStack::undo_, redo_: the newest command last
  tally       \* SiganRecorder::tally_: strokes and region operations

vars == <<journal, broken, drawn, tiles, undo, redo, tally>>

Kinds == {"stroke", "region"}

Init ==
  /\ journal = NewJournal
  /\ broken = FALSE
  /\ drawn = <<>>
  /\ tiles = [t \in Tile |-> 0]
  /\ undo = <<>> /\ redo = <<>>
  /\ tally = [k \in Kinds |-> 0]

-----------------------------------------------------------------------------
(* The undo stack.  A command maps the tiles it captured to their content   *)
(* before and after.                                                        *)

Command == UNION {[area -> [before : 0..MaxOps, after : 0..MaxOps]] :
                    area \in (SUBSET Tile) \ {{}}}

\* Mutant: the tiles are captured when they are already painted.
SnapshotLate(area, old, new) == [t \in area |-> [before |-> new[t], after |-> new[t]]]

Snapshot(area, old, new) == [t \in area |-> [before |-> old[t], after |-> new[t]]]

Changes(cmd) == \E t \in DOMAIN cmd : cmd[t].before # cmd[t].after

Restore(canvas, cmd, side) ==
  [t \in Tile |-> IF t \in DOMAIN cmd THEN cmd[t][side] ELSE canvas[t]]

\* Mutant: what was undone can still be redone on top of the new branch.
PushKeepsRedo(d, cmd) ==
  LET grown == Append(d.undo, cmd) IN
    [d EXCEPT !.undo = IF Len(grown) > UndoLimit THEN Tail(grown) ELSE grown]

Push(d, cmd) ==
  LET grown == Append(d.undo, cmd) IN
    [d EXCEPT !.undo = IF Len(grown) > UndoLimit THEN Tail(grown) ELSE grown,
              !.redo = <<>>]

\* UndoStack::undo and redo; an empty stack is an error and changes nothing.
Undone(d) ==
  IF d.undo = <<>> THEN d
  ELSE [tiles |-> Restore(d.tiles, Last(d.undo), "before"),
        undo  |-> Front(d.undo),
        redo  |-> Append(d.redo, Last(d.undo))]

Redone(d) ==
  IF d.redo = <<>> THEN d
  ELSE [tiles |-> Restore(d.tiles, Last(d.redo), "after"),
        undo  |-> Append(d.undo, Last(d.redo)),
        redo  |-> Front(d.redo)]

Current == [tiles |-> tiles, undo |-> undo, redo |-> redo]

Becomes(d) == tiles' = d.tiles /\ undo' = d.undo /\ redo' = d.redo

\* The document after operation k changed the tiles `changed` of those captured.
Painted(k, area, changed) ==
  LET new == [t \in Tile |-> IF t \in changed THEN k ELSE tiles[t]]
      cmd == Snapshot(area, tiles, new)
      now == [Current EXCEPT !.tiles = new]
  IN IF Changes(cmd) THEN Push(now, cmd) ELSE now

-----------------------------------------------------------------------------
(* The recorder.                                                            *)

\* A point of the pen, its stroke's end, and the two points and the note of a
\* region operation.
Emit(js, seq)  == UNION {{o.journal : o \in WriteOutcomes(j, Frame(seq))} : j \in js}
Finish(js, seq) == UNION {{o.journal : o \in StrokeEndOutcomes(j, seq)} : j \in js}
RecordRegionOp(js, seq) ==
  UNION {{o.journal : o \in WriteOutcomes(j, Note)} : j \in Finish(Emit(Emit(js, seq - 1), seq), seq)}

\* The journals that publish, publish, endStroke and, for a region operation,
\* the note may leave.  Nothing any of them returns is looked at.
Recordings(j, kind, k) ==
  IF kind = "stroke" THEN Finish(Emit(Emit({j}, 2 * k - 1), 2 * k), 2 * k)
  ELSE RecordRegionOp({j}, 2 * k)

\* Mutant: nobody asks the journal whether it failed.
Unchecked(j) == broken

\* checkJournal.
Checked(j) == broken \/ j.failed

\* Mutant: a region operation is counted as a stroke.
CountedAlike(kind, failed) == [tally EXCEPT !["stroke"] = @ + 1]

\* onStrokeEnd counts even when the journal just failed, onRegionOp does not.
Counted(kind, failed) ==
  IF failed /\ kind = "region" THEN tally ELSE [tally EXCEPT ![kind] = @ + 1]

-----------------------------------------------------------------------------

\* Refused once the recording is broken; painted, recorded, and rolled back
\* when the journal failed, whether or not a command was pushed.
Draw(kind, area, changed) ==
  LET k == Len(drawn) + 1
      d == Painted(k, area, changed)
  IN
  /\ ~broken
  /\ k <= MaxOps
  /\ changed = {} => "unchanged" \in Uses
  /\ drawn' = Append(drawn, kind)
  /\ \E j \in Recordings(journal, kind, k) :
       /\ journal' = j
       /\ broken' = Checked(j)
       /\ tally' = Counted(kind, Checked(j))
       /\ Becomes(IF Checked(j) THEN Undone(d) ELSE d)

Areas == (SUBSET Tile) \ {{}}

\* A stroke captures the tiles under its points and margin, changed or not.
Stroke == \E area \in Areas : \E changed \in SUBSET area : Draw("stroke", area, changed)

\* The colour, masked by the selection, over the area.
Fill == \E area \in Areas : \E changed \in SUBSET area : Draw("region", area, changed)

\* Only a tile with something on it can be changed by erasing.
Erase ==
  \E area \in Areas : \E changed \in SUBSET {t \in area : tiles[t] # 0} :
    Draw("region", area, changed)

\* The ramp from one colour to the other, masked by the selection.
Gradient == \E area \in Areas : \E changed \in SUBSET area : Draw("region", area, changed)

\* The layer's bounds and where they move to are rewritten as one area; an
\* empty layer is left alone and nothing is recorded.
Transform ==
  LET src == {t \in Tile : tiles[t] # 0} IN
  /\ src # {}
  /\ \E area \in {a \in Areas : src \subseteq a} : \E changed \in SUBSET area :
       Draw("region", area, changed)

\* Document::undo and redo ask nothing of the recorder and tell it nothing.
Undo ==
  /\ "undo" \in Uses
  /\ undo # <<>>
  /\ Becomes(Undone(Current))
  /\ UNCHANGED <<journal, broken, drawn, tally>>

Redo ==
  /\ "redo" \in Uses
  /\ redo # <<>>
  /\ Becomes(Redone(Current))
  /\ UNCHANGED <<journal, broken, drawn, tally>>

\* saveAs: buildProofLog flushes, whatever comes of it, and reads the file back;
\* what the log then says is Log, below.
SaveProofLog ==
  /\ \E o \in FlushOutcomes(journal) : journal' = o.journal
  /\ UNCHANGED <<broken, drawn, tiles, undo, redo, tally>>

Next ==
  \/ Stroke \/ Fill \/ Erase \/ Gradient \/ Transform
  \/ Undo \/ Redo \/ SaveProofLog

Spec == Init /\ [][Next]_vars

-----------------------------------------------------------------------------

TypeOK ==
  /\ journal \in Journal
  /\ broken \in BOOLEAN
  /\ drawn \in Seq(Kinds)
  /\ tiles \in [Tile -> Nat]
  /\ \A i \in DOMAIN undo : undo[i] \in Command
  /\ \A i \in DOMAIN redo : redo[i] \in Command
  /\ Len(undo) + Len(redo) <= UndoLimit
  /\ tally \in [Kinds -> Nat]

\* What the commands of `stack` above i, or else the canvas, hold of tile t.
Beside(stack, i, t, side) ==
  LET above == {j \in (i + 1)..Len(stack) : t \in DOMAIN stack[j]} IN
    IF above = {} THEN tiles[t] ELSE stack[Min(above)][t][side]

\* Every command finds its tiles as it left them, however draws, evictions,
\* rollbacks, undos and redos were mixed: undoing all of the stack, or redoing
\* all of it, runs through states the canvas has been in (core/undo.hpp).
UndoChain ==
  /\ TypeOK
  /\ \A i \in DOMAIN undo : \A t \in DOMAIN undo[i] :
       undo[i][t].after = Beside(undo, i, t, "before")
  /\ \A i \in DOMAIN redo : \A t \in DOMAIN redo[i] :
       redo[i][t].before = Beside(redo, i, t, "after")

\* The operations whose frames recovery would return from the file.
OnRecord ==
  {k \in 1..Len(drawn) : {2 * k - 1, 2 * k} \subseteq ToSet(Recovered(journal.file))}

\* docs/06 H1: no changed pixel without a trace in the journal.
DrawnIsRecorded == \A t \in Tile : tiles[t] \in OnRecord \cup {0}

\* H1 for as long as the document still takes drawing: nothing is shown, and
\* nothing can come back by undo or redo, that the file does not hold.
RecordedWhileRecording ==
  ~broken =>
    /\ DrawnIsRecorded
    /\ \A c \in ToSet(undo \o redo) : \A t \in DOMAIN c :
         {c[t].before, c[t].after} \subseteq OnRecord \cup {0}

\* docs/06 decision 4: the operation that meets the failure is rolled back.
FailedOpRestoresCanvas == [][~broken /\ broken' => tiles' = tiles]_vars

\* The process log of what recovery would return.
Log ==
  LET seqs == Recovered(journal.file)
  IN  BuildProofLog([i \in DOMAIN seqs |-> FrameOf(drawn, seqs[i])])

\* docs/06 H3: strokes and region operations are counted apart, and the
\* recorder's count is what the process log shows, which misses no frame.  After
\* a failure too the log never takes the frames of two operations for one: a
\* hole in the journal could hide an Up and a Down, but nothing is recorded
\* behind it (prooflog.cpp:34-72, requireRecording).
TallyMatchesJournal ==
  /\ \A s \in ToSet(Log.strokes) : (s.first + 1) \div 2 = (s.last + 1) \div 2
  /\ ~broken => /\ Log.brushStrokes = tally["stroke"]
                /\ Log.regionOps = tally["region"]
                /\ Log.lostFrames = {}

=============================================================================
