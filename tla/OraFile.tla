------------------------------- MODULE OraFile -------------------------------
(***************************************************************************)
(* The .ora file of a layer tree (io/ora/src/ora.cpp, with the archive of  *)
(* zip.cpp, the markup of xml.cpp and the images of image.cpp): what       *)
(* saving writes, and what opening makes of it, or of what is left of it.  *)
(*                                                                         *)
(* An archive is a sequence of named entries and the directory behind      *)
(* them; an entry whose header, length or checksum is wrong is not sound.  *)
(* stack.xml is the sequence of its elements in the order of the text,     *)
(* each with the element around it (0 for the outermost <stack>).  Texts   *)
(* come back as they were written: what xmlEscape replaces, unescape puts  *)
(* back.                                                                   *)
(***************************************************************************)
EXTENDS LayerTree

CONSTANT Deepest   \* Parser::kMaxDepth: elements within elements, <image> being the first

ASSUME OraFileAssumption == Deepest \in Nat \ {0, 1}

Position(seq, x) == SelectInSeq(seq, LAMBDA e : e = x)   \* 0 when it is not there

Blank == CHOOSE x \in Pix : \A y \in Pix : x <= y

-----------------------------------------------------------------------------
(* Writing.                                                                 *)

\* Mutant: in the order of the children vectors.
BottomUp(t) == Walk(t, Root)

\* The layers in the order the file has them: the topmost first, a group before
\* its children.
TopDown(t) ==
  LET down[d \in 0..MaxId, g \in 0..MaxId] ==
        IF d = 0 THEN <<>>
        ELSE LET list == Reverse(t.kids[g])
             IN  FlattenSeq([k \in DOMAIN list |-> <<list[k]>> \o down[d - 1, list[k]]])
  IN  down[MaxId, Root]

\* data/layerN.png, N counting the rasters written so far.
Rasters(t) == SelectSeq(TopDown(t), LAMBDA id : t.kind[id] = "raster")
ImageName(n) == <<"data/layer", n>>

\* writeLayer: an empty layer gets an image of one transparent pixel.
Image(px) == IF px = Blank THEN [area |-> "pixel", shows |-> Blank]
             ELSE [area |-> "bounds", shows |-> px]

\* commonAttrs and the rest of an element's tag; the default of what is left
\* out is what is read for it.
Element(t, id, order) ==
  [tag |-> IF t.kind[id] = "group" THEN "stack" ELSE "layer",
   in |-> Position(order, t.parent[id]),
   name |-> t.name[id], locked |-> t.locked[id], selected |-> t.active = id,
   src |-> IF t.kind[id] = "group" THEN <<>>
           ELSE ImageName(Position(Rasters(t), id) - 1)]

Stack(t) == LET order == TopDown(t)
            IN  [k \in DOMAIN order |-> Element(t, order[k], order)]

\* ZipWriter::add, and finish, which puts the directory behind the entries.
Entry(name, holds) == [name |-> name, holds |-> holds, sound |-> TRUE]
Finished(entries)  == [entries |-> entries, directory |-> TRUE]

\* beginOra: what makes a reader take the archive for an .ora file.
Mimetype == Entry(<<"mimetype">>, "image/openraster")

\* writeLayer, layer after layer.
Images(t) ==
  LET rasters == Rasters(t)
  IN  [k \in DOMAIN rasters |-> Entry(ImageName(k - 1), Image(t.pix[rasters[k]]))]

\* saveToMemory: the mimetype first, the images as the layers are written, then
\* the markup and the merged image.
Saved(t) ==
  Finished(<<Mimetype>> \o Images(t)
           \o <<Entry(<<"stack.xml">>, Stack(t)), Entry(<<"mergedimage.png">>, "pixels")>>)

-----------------------------------------------------------------------------
(* Reading.                                                                 *)

\* ZipReader::open needs the directory.  An entry is found by its name, 0 if there
\* is none, and given out if it is sound; the markup goes to the parser, an
\* image to the decoder.
Opens(a)          == a.directory
Found(a, name)    == SelectInSeq(a.entries, LAMBDA e : e.name = name)
Readable(a, name) == Found(a, name) # 0 /\ a.entries[Found(a, name)].sound
Held(a, name)     == a.entries[Found(a, name)].holds
Decoded(a, name)  == Held(a, name).shows

\* How many elements are open when element k is.
Depth(xml, k) ==
  LET around[d \in 0..Len(xml), e \in 0..Len(xml)] ==
        IF d = 0 \/ e = 0 THEN 2 ELSE 1 + around[d - 1, xml[e].in]
  IN  around[Len(xml), k]

\* parseXml refuses markup nested too deep.
Parses(xml) == \A k \in DOMAIN xml : Depth(xml, k) <= Deepest

\* readStack goes through the children of each element from the last to the
\* first, which is from the bottom up.
ReadOrder(xml) ==
  LET within(e) == SelectSeq([k \in DOMAIN xml |-> k], LAMBDA k : xml[k].in = e)
      up[d \in 0..Len(xml), e \in 0..Len(xml)] ==
        IF d = 0 THEN <<>>
        ELSE LET list == Reverse(within(e))
             IN  FlattenSeq([k \in DOMAIN list |-> <<list[k]>> \o up[d - 1, list[k]]])
  IN  up[Len(xml), 0]

\* makeLayerTree.
NoLayers ==
  [kids |-> [i \in 0..MaxId |-> <<>>], index |-> {}, parent |-> [i \in Id |-> Root],
   kind |-> [i \in Id |-> "raster"], name |-> [i \in Id |-> CHOOSE n \in Name : TRUE],
   locked |-> [i \in Id |-> FALSE], pix |-> [i \in Id |-> Blank], active |-> NoId, next |-> 1]

\* readLayer: an image that cannot be read leaves the layer empty.
Pixels(a, e) == IF e.src # <<>> /\ Readable(a, e.src) THEN Decoded(a, e.src) ELSE Blank

\* applyCommon and readLayer: an element becomes a layer on top of those its
\* parent has already; r also keeps which layer an element became.
ReadElement(a, r, k) ==
  LET e    == Held(a, <<"stack.xml">>)[k]
      id   == r.tree.next
      made == Add(r.tree, IF e.tag = "stack" THEN "group" ELSE "raster", e.name,
                  IF e.in = 0 THEN Root ELSE r.layer[e.in], MaxId).tree
  IN  [tree |-> [made EXCEPT !.locked[id] = e.locked, !.pix[id] = Pixels(a, e),
                             !.active = IF e.selected THEN id ELSE @],
       layer |-> [r.layer EXCEPT ![k] = id],
       warnings |-> IF e.tag = "layer" /\ ~Readable(a, e.src) THEN r.warnings + 1 ELSE r.warnings]

\* loadFromMemory: an archive without its directory, mimetype or markup is refused.
NotRead == [ok |-> FALSE]

Loaded(a) ==
  IF ~Opens(a) \/ ~Readable(a, <<"mimetype">>) \/ ~Readable(a, <<"stack.xml">>) THEN NotRead
  ELSE LET xml == Held(a, <<"stack.xml">>)
           r   == FoldLeft(LAMBDA acc, k : ReadElement(a, acc, k),
                           [tree |-> NoLayers, layer |-> [k \in DOMAIN xml |-> 0], warnings |-> 0],
                           ReadOrder(xml))
       IN  IF ~Parses(xml) THEN NotRead
           ELSE [ok |-> TRUE, tree |-> r.tree, warnings |-> r.warnings]

-----------------------------------------------------------------------------
(* What saving and opening promise of a tree.                               *)

\* The archive with the entries in names damaged.
Damaged(a, names) ==
  [a EXCEPT !.entries = [k \in DOMAIN @ |->
     IF @[k].name \in names THEN [@[k] EXCEPT !.sound = FALSE] ELSE @[k]]]

\* The layers of u are those of t in the same places, with other ids; those
\* whose image is in lost are empty.
Alike(t, u, lost) ==
  LET x == Walk(t, Root)
      y == Walk(u, Root)
  IN  /\ Len(x) = Len(y)
      /\ \A k \in DOMAIN x :
           /\ t.kind[x[k]] = u.kind[y[k]]
           /\ t.name[x[k]] = u.name[y[k]]
           /\ t.locked[x[k]] = u.locked[y[k]]
           /\ Position(x, t.parent[x[k]]) = Position(y, u.parent[y[k]])
           /\ u.pix[y[k]] = IF t.kind[x[k]] = "raster"
                               /\ ImageName(Position(Rasters(t), x[k]) - 1) \in lost
                            THEN Blank ELSE t.pix[x[k]]
           /\ t.active = x[k] => u.active = y[k]

\* A file that cannot be read as it was written is refused, or its losses are
\* counted one by one; everything else in it comes back.
ComesBack(t) ==
  LET a      == Saved(t)
      images == {ImageName(k - 1) : k \in DOMAIN Rasters(t)}
  IN  IF ~Parses(Stack(t)) THEN ~Loaded(a).ok
      ELSE /\ ~Loaded([a EXCEPT !.directory = FALSE]).ok
           /\ \A name \in {<<"mimetype">>, <<"stack.xml">>} : ~Loaded(Damaged(a, {name})).ok
           /\ \A lost \in {{}, images} \cup {{name} : name \in images} :
                LET l == Loaded(Damaged(a, lost \cup {<<"mergedimage.png">>}))
                IN  l.ok /\ Sound(l.tree) /\ Alike(t, l.tree, lost) /\ l.warnings = Cardinality(lost)
=============================================================================
