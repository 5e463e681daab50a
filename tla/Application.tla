------------------------------ MODULE Application ------------------------------
(***************************************************************************)
(* The program's documents: app/src/application.cpp (the list of open      *)
(* documents and the active one), app/src/document.cpp (saved flag, undo,  *)
(* saving and closing), record/src/sigan_recorder.cpp (one journal file    *)
(* per document, and the tallies of the ones already closed), and the      *)
(* .ora files on the disk.                                                 *)
(*                                                                         *)
(* What a document holds is the set of numbered changes made to it.  The   *)
(* operations are actions here; who calls them is the business of the      *)
(* module that extends this one.  All of them run on one thread.           *)
(***************************************************************************)
EXTENDS Integers, Sequences, SequencesExt

CONSTANTS
  Path,         \* the .ora paths documents are saved to
  New,          \* the journal's tag for a document made from nothing
  None,         \* no path, no journal, no document; and no file at all
  Cut,          \* what a write that failed half way leaves in a file
  MaxDocs,      \* bound: documents opened in one process
  MaxChanges,   \* bound: changes made, over all documents and processes
  MaxRestarts   \* bound: crashes of the process

ASSUME ApplicationAssumption ==
  /\ MaxDocs \in Nat /\ MaxChanges \in Nat /\ MaxRestarts \in Nat
  /\ New \notin Path
  /\ None \notin (Path \cup {New}) \X Nat  \* having no journal is not having one of a name

VARIABLES
  docs,         \* Application::docs_, by document number
  active,       \* Application::active_, from 0
  doc,          \* every document this process made; Gone once it is destroyed
  file,         \* the .ora files: what they hold, None or Cut
  journal,      \* the journal files, by name: the changes on them
  nextSegment,  \* SiganRecorderFactory::nextSegment_
  closed,       \* SiganRecorderFactory::closed_: the tallies of retired recorders
  changes,      \* history: changes made
  drawn,        \* history: operations recorded in this process
  restarts

appVars == <<docs, active, doc, file, journal, nextSegment, closed, changes, drawn, restarts>>

Gone == [live |-> FALSE]

\* A document: its changes, undo and redo stacks, path and saved flag, the name
\* of the journal its recorder writes (None without one) and the tally of that
\* recorder.  kept is history: what its file held when it was last read or written.
Made(held, path, name) ==
  [live |-> TRUE, closed |-> FALSE, held |-> held, undo |-> <<>>, redo |-> <<>>,
   path |-> path, saved |-> path # None, journal |-> name, tally |-> 0, kept |-> held]

Live == {d \in DOMAIN doc : doc[d].live}

Records(x) == x.live /\ x.journal # None
Recording == {d \in DOMAIN doc : Records(doc[d])}

AppInit ==
  /\ docs = <<>> /\ active = 0 /\ doc = <<>>
  /\ file = [p \in Path |-> None]
  /\ journal = <<>>
  /\ nextSegment = 1 /\ closed = 0
  /\ changes = 0 /\ drawn = 0 /\ restarts = 0

-----------------------------------------------------------------------------
(* The recorder's factory *)

\* Mutant: the file is named for the document alone.
NameOfTagAlone(tag, segment) == <<tag, 0>>

NameOf(tag, segment) == <<tag, segment>>

\* Opening a journal empties the file of that name ("wb").
Opened(name) == [n \in DOMAIN journal \cup {name} |-> IF n = name THEN <<>> ELSE journal[n]]

\* What the recorder of a document counts; one that has none counts nothing.
TallyOf(x) == IF Records(x) THEN x.tally ELSE 0

SumOf(tallies) ==
  LET upTo[n \in 0..Len(tallies)] == IF n = 0 THEN 0 ELSE upTo[n - 1] + tallies[n]
  IN  upTo[Len(tallies)]

\* The recorders that live.
LiveTally == SumOf([d \in DOMAIN doc |-> TallyOf(doc[d])])

\* The recorders of documents that close hand their tallies over.
Retire(tally) == closed' = closed + tally

-----------------------------------------------------------------------------
(* Making and opening documents *)

\* The document gets its recorder before it is listed; when the journal cannot
\* be opened the segment's number is spent and there is no document.
Enlist(held, path, tag) ==
  /\ Len(doc) < MaxDocs
  /\ nextSegment' = nextSegment + 1
  /\ \/ LET name == NameOf(tag, nextSegment)
        IN /\ doc' = Append(doc, Made(held, path, name))
           /\ journal' = Opened(name)
           /\ docs' = Append(docs, Len(doc) + 1)
           /\ active' = Len(docs)
     \/ /\ nextSegment < MaxDocs
        /\ UNCHANGED <<doc, docs, active, journal>>
  /\ UNCHANGED <<file, closed, changes, drawn, restarts>>

CreateDocument == Enlist({}, None, New)

\* A file that is missing or cut short is refused before anything is made.
Open(p) == file[p] \notin {None, Cut} /\ Enlist(file[p], p, p)

Active == IF docs = <<>> THEN None ELSE docs[active + 1]

-----------------------------------------------------------------------------
(* Changing a document *)

Change(d, next, n) ==
  /\ changes + n <= MaxChanges
  /\ changes' = changes + n
  /\ doc' = [doc EXCEPT ![d] = next]
  /\ UNCHANGED <<docs, active, file, nextSegment, closed, restarts>>

\* A stroke or a region operation of a session: paintPixels and the recorder.
Paint(d) ==
  LET c == changes + 1
      x == doc[d]
  IN /\ ~x.closed
     /\ Change(d, [x EXCEPT !.held = @ \cup {c}, !.undo = Append(@, c), !.redo = <<>>,
                            !.saved = FALSE, !.tally = @ + 1], 1)
     /\ journal' = [journal EXCEPT ![x.journal] = Append(@, c)]
     /\ drawn' = drawn + 1

\* A layer operation of a session: no undo command, no record, markDirty.
LayerOp(d) ==
  /\ ~doc[d].closed
  /\ Change(d, [doc[d] EXCEPT !.held = @ \cup {changes + 1}, !.saved = FALSE], 1)
  /\ UNCHANGED <<journal, drawn>>

\* importPixels: a new layer, and pixels on it that can be undone.
ImportPixels(d) ==
  /\ ~doc[d].closed
  /\ Change(d, [doc[d] EXCEPT !.held = @ \cup {changes + 1, changes + 2},
                              !.undo = Append(@, changes + 2), !.redo = <<>>,
                              !.saved = FALSE], 2)
  /\ UNCHANGED <<journal, drawn>>

\* Mutant: going back to what was there is no change.
UnsavedByUndoing(x) == x

UnsavedBy(x) == [x EXCEPT !.saved = FALSE]

Undo(d) ==
  LET x == doc[d]
  IN /\ x.undo # <<>>
     /\ Change(d, UnsavedBy([x EXCEPT !.held = @ \ {Last(x.undo)}, !.undo = Front(@),
                                      !.redo = Append(@, Last(x.undo))]), 0)
     /\ UNCHANGED <<journal, drawn>>

Redo(d) ==
  LET x == doc[d]
  IN /\ x.redo # <<>>
     /\ Change(d, UnsavedBy([x EXCEPT !.held = @ \cup {Last(x.redo)}, !.redo = Front(@),
                                      !.undo = Append(@, Last(x.redo))]), 0)
     /\ UNCHANGED <<journal, drawn>>

-----------------------------------------------------------------------------
(* Saving and closing *)

\* Writing a file truncates it first: it ends written or, when the write fails,
\* cut short; when it cannot be created it stays as it was.
Written(d, p, ok) ==
  \/ ok /\ file' = [file EXCEPT ![p] = doc[d].held]
  \/ ~ok /\ file' \in {file, [file EXCEPT ![p] = Cut]}

Saved(x, p) == [x EXCEPT !.path = p, !.saved = TRUE, !.kept = x.held]

SaveAs(d, p, ok) ==
  /\ ~doc[d].closed
  /\ Written(d, p, ok)
  /\ doc' = IF ok THEN [doc EXCEPT ![d] = Saved(@, p)] ELSE doc
  /\ UNCHANGED <<docs, active, journal, nextSegment, closed, changes, drawn, restarts>>

\* Document::close saves what is unsaved, if asked to; when that fails, or there
\* is no path to save to, the document stays open.  As it closes its recorder
\* retires, and the journal is closed with it.
Saves(d, save) == save /\ ~doc[d].closed /\ ~doc[d].saved

Closing(d, save, ok) ==
  /\ IF Saves(d, save) THEN ok /\ doc[d].path # None /\ Written(d, doc[d].path, TRUE)
                       ELSE UNCHANGED file
  /\ Retire(TallyOf(doc[d]))

CloseFails(d, save, ok) ==
  /\ Saves(d, save) /\ ~(ok /\ doc[d].path # None)
  /\ IF doc[d].path = None THEN UNCHANGED file ELSE Written(d, doc[d].path, FALSE)
  /\ UNCHANGED <<docs, active, doc, closed>>

Ended(x, save) ==
  [x EXCEPT !.closed = TRUE, !.undo = <<>>, !.redo = <<>>, !.journal = None,
            !.kept = IF save /\ ~x.saved THEN x.held ELSE @, !.saved = @ \/ save]

\* closeDocument also takes the document out of the list and destroys it; the
\* active index is corrected only when it falls off the end.
CloseDocument(d, save, ok) ==
  /\ ~doc[d].closed
  /\ \/ CloseFails(d, save, ok)
     \/ /\ Closing(d, save, ok)
        /\ doc' = [doc EXCEPT ![d] = Gone]
        /\ \E i \in DOMAIN docs : docs[i] = d /\ docs' = RemoveAt(docs, i)
        /\ active' = IF active < Len(docs) - 1 THEN active
                     ELSE IF Len(docs) = 1 THEN 0 ELSE Len(docs) - 2
  /\ UNCHANGED <<journal, nextSegment, changes, drawn, restarts>>

\* Mutant: a document closed in place is destroyed like one closed by the application.
CloseInPlaceDestroying(d, save, ok) == CloseDocument(d, save, ok)

\* IMariDocument::Close: the closed document stays in the list, and may be the active one.
CloseInPlace(d, save, ok) ==
  /\ \/ CloseFails(d, save, ok)
     \/ /\ Closing(d, save, ok)
        /\ doc' = [doc EXCEPT ![d] = IF @.closed THEN @ ELSE Ended(@, save)]
        /\ UNCHANGED <<docs, active>>
  /\ UNCHANGED <<journal, nextSegment, changes, drawn, restarts>>

\* Application::quit closes every document without saving and destroys them.
Quit ==
  /\ Retire(LiveTally)
  /\ doc' = [d \in DOMAIN doc |-> Gone]
  /\ docs' = <<>> /\ active' = 0
  /\ UNCHANGED <<file, journal, nextSegment, changes, drawn, restarts>>

\* The process dies and is started again: the files stay.
Restart ==
  /\ restarts < MaxRestarts
  /\ restarts' = restarts + 1
  /\ docs' = <<>> /\ active' = 0 /\ doc' = <<>>
  /\ nextSegment' = 1 /\ closed' = 0 /\ drawn' = 0
  /\ UNCHANGED <<file, journal, changes>>
=============================================================================
