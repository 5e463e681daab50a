------------------------------- MODULE ComServer -------------------------------
(***************************************************************************)
(* The two ways into the documents of Application: an agent's session      *)
(* (agent/src/ops_doc.cpp, ops_draw.cpp, ops_layer.cpp) and the objects a  *)
(* script holds through COM (platform/win/com/application.cpp).  A process *)
(* has one of the two as its client.                                       *)
(*                                                                         *)
(* A COM object keeps a raw pointer to its document: a document wrapper    *)
(* drops it in its own Close, the wrappers of its layers, layer lists and  *)
(* selection never do.  The calls of all clients are made one at a time    *)
(* by the apartment's thread.                                              *)
(***************************************************************************)
EXTENDS Application

CONSTANT Wrapper    \* the COM objects a script can hold at once

Kind == {"document", "layers", "layer", "selection"}

VARIABLES
  client,    \* who uses this process: "agent" or "com"
  wrapper    \* the objects held: the kind, and the document pointed at or None

vars == <<docs, active, doc, file, journal, nextSegment, closed, changes, drawn, restarts,
          client, wrapper>>

Init == AppInit /\ client \in {"agent", "com"} /\ wrapper = [w \in Wrapper |-> None]

Held == {w \in Wrapper : wrapper[w] # None}
Pointing == {w \in Held : wrapper[w].doc # None}
\* Wrappers whose document still exists, closed or not.
Usable == {w \in Pointing : doc[wrapper[w].doc].live}

-----------------------------------------------------------------------------
(* The session: its operations act on the active document, unless that is closed *)

Agent ==
  /\ client = "agent"
  /\ UNCHANGED <<client, wrapper>>
  /\ \/ CreateDocument
     \/ \E p \in Path : Open(p)
     \/ /\ Active # None
        /\ \/ Paint(Active)
           \/ LayerOp(Active)
           \/ Undo(Active)
           \/ Redo(Active)
           \/ \E p \in Path, ok \in BOOLEAN : SaveAs(Active, p, ok)
           \/ \E save, ok \in BOOLEAN : CloseDocument(Active, save, ok)

-----------------------------------------------------------------------------
(* The script *)

\* An object is given out for document d; no room for one more says that the
\* script lets go of it at once.
Hold(kind, d) ==
  \/ \E w \in Wrapper \ Held : wrapper' = [wrapper EXCEPT ![w] = [kind |-> kind, doc |-> d]]
  \/ Held = Wrapper /\ UNCHANGED wrapper

\* Documents.Add and Open hand the new document out, if the call made one.
Handed == IF Len(doc') > Len(doc) THEN Hold("document", Len(doc')) ELSE UNCHANGED wrapper

\* Application.CreateDocument and Open do what Documents.Add and Open do.
ComMake == (CreateDocument \/ \E p \in Path : Open(p)) /\ Handed

\* Documents.Item finds closed documents too.
ComItem ==
  /\ \E i \in DOMAIN docs : Hold("document", docs[i])
  /\ UNCHANGED appVars

ComActive ==
  /\ Active # None /\ Hold("document", Active)
  /\ UNCHANGED appVars

\* An object of one kind gives out one of another for the same document.
Part(from, kind) ==
  /\ \E w \in Usable : wrapper[w].kind \in from /\ Hold(kind, wrapper[w].doc)
  /\ UNCHANGED appVars

\* Document.Layers and Layer.Children.
ComLayers == Part({"document", "layer"}, "layers")

\* Layers.Item and FindById, and Document.ActiveLayer.
ComLayer == Part({"layers", "document"}, "layer")

\* The selection is the document's; what the object sets is not saved with it.
ComSelection == Part({"document"}, "selection")

Release ==
  /\ \E w \in Held : wrapper' = [wrapper EXCEPT ![w] = None]
  /\ UNCHANGED appVars

\* What goes to the tree itself: a closed document is not refused and a saved
\* one stays saved.
TreeChange(d) ==
  /\ Change(d, [doc[d] EXCEPT !.held = @ \cup {changes + 1}], 1)
  /\ UNCHANGED <<journal, drawn>>

\* Layers.AddRaster and AddGroup hand the layer out, Remove and Move give nothing.
ComListOp(w) ==
  /\ wrapper[w].kind = "layers"
  /\ TreeChange(wrapper[w].doc)
  /\ Hold("layer", wrapper[w].doc) \/ UNCHANGED wrapper

\* Layer.put_Name, put_Opacity, put_BlendMode, put_Visible, put_Locked, put_AlphaLocked.
ComPut(w) == wrapper[w].kind = "layer" /\ TreeChange(wrapper[w].doc) /\ UNCHANGED wrapper

\* Document.putref_ActiveLayer with a layer the script holds.
ComActivate(w) ==
  /\ wrapper[w].kind = "document"
  /\ \E v \in Held : wrapper[v].kind = "layer"
  /\ TreeChange(wrapper[w].doc)
  /\ UNCHANGED wrapper

\* Document.ImportPixels hands the new layer out.
ComImportPixels(w) ==
  /\ wrapper[w].kind = "document"
  /\ ImportPixels(wrapper[w].doc)
  /\ Hold("layer", wrapper[w].doc)

\* Layer.ImportPixels makes a new layer too, whatever layer it is called on.
ComLayerImport(w) ==
  wrapper[w].kind = "layer" /\ ImportPixels(wrapper[w].doc) /\ UNCHANGED wrapper

ComUndo(w) == wrapper[w].kind = "document" /\ Undo(wrapper[w].doc) /\ UNCHANGED wrapper

ComRedo(w) == wrapper[w].kind = "document" /\ Redo(wrapper[w].doc) /\ UNCHANGED wrapper

ComSaveAs(w) ==
  /\ wrapper[w].kind = "document"
  /\ \E p \in Path, ok \in BOOLEAN : SaveAs(wrapper[w].doc, p, ok)
  /\ UNCHANGED wrapper

\* The wrapper that closed its document forgets it; no other does.
ComClose(w) ==
  /\ wrapper[w].kind = "document"
  /\ \E save, ok \in BOOLEAN :
       /\ CloseInPlace(wrapper[w].doc, save, ok)
       /\ wrapper' = IF doc' # doc \/ doc[wrapper[w].doc].closed
                     THEN [wrapper EXCEPT ![w].doc = None] ELSE wrapper

ComQuit ==
  /\ Held # {} /\ docs # <<>>
  /\ Quit
  /\ UNCHANGED wrapper

Script ==
  /\ client = "com"
  /\ UNCHANGED client
  /\ \/ ComMake \/ ComItem \/ ComActive \/ ComQuit
     \/ ComLayers \/ ComLayer \/ ComSelection \/ Release
     \/ \E w \in Usable :
          \/ ComListOp(w) \/ ComPut(w) \/ ComActivate(w)
          \/ ComImportPixels(w) \/ ComLayerImport(w)
          \/ ComUndo(w) \/ ComRedo(w) \/ ComSaveAs(w) \/ ComClose(w)

\* The process crashes, or a call through a pointer to a document that is gone
\* takes it down; the same program is started again.
Crash ==
  /\ Restart
  /\ wrapper' = [w \in Wrapper |-> None]
  /\ UNCHANGED client

Next == Agent \/ Script \/ Crash
Spec == Init /\ [][Next]_vars

-----------------------------------------------------------------------------
(* Properties *)

TypeOK ==
  /\ \A i \in DOMAIN docs : doc[docs[i]].live
  /\ IsInjective(docs)
  /\ active \in 0..MaxDocs /\ (docs # <<>> => active < Len(docs))
  /\ {doc[d].journal : d \in Recording} \subseteq DOMAIN journal
  /\ \A d, e \in Recording : d # e => doc[d].journal # doc[e].journal
  /\ \A w \in Pointing : wrapper[w].kind \in Kind
  /\ nextSegment > Len(doc) /\ closed \in 0..MaxChanges

\* The journal of a document being recorded holds that document's operations and
\* no others, after other documents of the same name, closings, failed openings
\* and a restart (openForDocument, sigan_recorder.cpp:199; onRegionOp, 120); and
\* the factory's total over open and closed documents is what this process
\* recorded, whichever way its documents were closed (retire, 231; totalTally, 247).
JournalsMatchTallies ==
  /\ TypeOK
  /\ \A d \in Recording : Len(journal[doc[d].journal]) = doc[d].tally
  /\ closed + LiveTally = drawn

\* In a process with a session, a document that calls itself saved holds what it
\* read from its file or wrote to it last: closing it with save loses nothing
\* (markDirty, undo and redo; close skips the save of a saved document).
SavedMeansUnchanged ==
  client = "agent" => \A d \in Live : doc[d].saved => doc[d].held = doc[d].kept

\* A document that COM objects point at is destroyed by Quit alone: until then
\* a wrapper left over from a closed document still reads a document.
PointersStayGood ==
  [][ComQuit \/ \A w \in Usable : wrapper'[w] = wrapper[w] => doc'[wrapper[w].doc].live]_vars

\* Until a process crashes, no journal gets shorter or is written over, not even
\* one whose document is closed or destroyed: each new recorder takes a name that
\* no file of this process has (nextSegment_, sigan_recorder.cpp:212; Journal::create
\* empties what is there).
OwnJournalsOnlyGrow ==
  [][restarts = 0 => \A n \in DOMAIN journal :
       n \in DOMAIN journal' /\ IsPrefix(journal[n], journal'[n])]_vars

\* What a recorder put in a journal stays there (sigan_recorder.hpp, journal.hpp:
\* a crashed process's journals are recovered by the next one).
RecordsAreKept ==
  [][\A n \in DOMAIN journal : \A i \in 1..Len(journal[n]) :
       \E m \in DOMAIN journal' : Contains(journal'[m], journal[n][i])]_vars
=============================================================================
