----------------------------- MODULE TileStore ------------------------------
(***************************************************************************)
(* Tiles (core/src/tile.cpp), the undo command that captures them          *)
(* (core/src/undo.cpp) and the region writer (io/ora/src/image.cpp).       *)
(*                                                                         *)
(* A tile is a handle on a pixel buffer that other tiles may share; a      *)
(* write first gives the tile a buffer of its own.  Every map and every    *)
(* entry of an undo command has tile objects of its own (snapshot and      *)
(* capture clone the handle), so a tile is named here by its place.  A     *)
(* writer may hold on to the tile writable() returned, even across a       *)
(* snapshot or an erase: an erased tile that is held lives on at Orphan.   *)
(*                                                                         *)
(* The writers of one tile map take no locks and run in one thread; a step *)
(* is a call.                                                              *)
(***************************************************************************)
EXTENDS Naturals, Functions

CONSTANTS
  Map,         \* tile maps: the layer's and its snapshots
  Target,      \* the map the undo command is about
  Coord,       \* tile coordinates
  Part,        \* the pieces of a tile a region may cut it into
  Ink,         \* what a piece can hold
  Transparent, \* the Ink with no alpha
  None,        \* null: no tile, nothing held
  Orphan,      \* where a held tile lives that has left its map
  Buffer       \* pixel buffers; memory is not exhausted when there is one for every place

VARIABLES
  tile,    \* the tile at each place, or None
  pix,     \* the pixels of the buffers in use
  hand,    \* the place of the tile a writer holds, or None
  entries  \* the coordinates the undo command has registered

vars == <<tile, pix, hand, entries>>

Pixels == [Part -> Ink]
Blank  == [p \in Part |-> Transparent]
Place  == (Map \cup {"before", "after"}) \X Coord
OnMap  == Map \X Coord
Slot   == Place \cup {Orphan}

\* blank is the cache of isBlank(): "unknown" when blankKnown_ is false.
Tile == [buf : Buffer, blank : {"unknown", "yes", "no"}]

ASSUME TileStoreAssumption ==
  /\ Target \in Map
  /\ Transparent \in Ink
  /\ {"before", "after"} \cap Map = {}
  /\ None \notin Pixels \cup Tile \cup Slot
  /\ Orphan \notin Place

Init ==
  /\ tile = [s \in Slot |-> None]
  /\ pix = [b \in {} |-> Blank]
  /\ hand = None
  /\ entries = {}

-----------------------------------------------------------------------------
(* The tile object.                                                         *)

InUse(ts)  == {ts[s].buf : s \in {t \in Slot : ts[t] # None}}
Free       == Buffer \ DOMAIN pix
Fresh      == CHOOSE b \in Free : TRUE
Shared(s)  == \E t \in Slot \ {s} : tile[t] # None /\ tile[t].buf = tile[s].buf
Content(s) == pix[tile[s].buf]

\* The pixels of the buffers once b holds px, and the pixels px with a piece written over.
With(b, px)     == [a \in DOMAIN pix \cup {b} |-> IF a = b THEN px ELSE pix[a]]
Over(px, piece) == [p \in Part |-> IF p \in DOMAIN piece THEN piece[p] ELSE px[p]]

\* The tiles become ts and the buffers p; a buffer nothing refers to is freed.
Become(ts, p) ==
  /\ tile' = ts
  /\ pix' = Restrict(p, InUse(ts))

\* BufferTile's constructor: transparent, and known to be blank.
NewTile == [buf |-> Fresh, blank |-> "yes"]

\* Mutant: the shared buffer is written in place.
WrittenShared(s, px) == Become([tile EXCEPT ![s].blank = "unknown"], With(tile[s].buf, px))

\* Mutant: the cache is not dropped.
WrittenCached(s, px) ==
  IF Shared(s)
  THEN Free # {} /\ Become([tile EXCEPT ![s].buf = Fresh], With(Fresh, px))
  ELSE Become(tile, With(tile[s].buf, px))

\* mutablePixels() and the bytes written through it: a copy first, if the
\* buffer is shared.
Written(s, px) ==
  IF Shared(s)
  THEN /\ Free # {}
       /\ Become([tile EXCEPT ![s] = [buf |-> Fresh, blank |-> "unknown"]], With(Fresh, px))
  ELSE Become([tile EXCEPT ![s].blank = "unknown"], With(tile[s].buf, px))

\* clone(): the handle, its cache included, and none of the pixels.
Cloned(from, to, coords) ==
  [s \in Slot |-> IF s # Orphan /\ s[1] = to /\ s[2] \in coords THEN tile[<<from, s[2]>>] ELSE tile[s]]

-----------------------------------------------------------------------------
(* The tile map.                                                            *)

\* A tile that leaves its map lives on if a writer holds it.
Kept(ts, gone)  == IF hand \in gone THEN [ts EXCEPT ![Orphan] = tile[hand]] ELSE ts
HandAfter(gone) == IF hand \in gone THEN Orphan ELSE hand

\* writable(), whose tile the caller keeps in its hand.
Take(s) ==
  /\ hand = None
  /\ hand' = s
  /\ IF tile[s] # None THEN UNCHANGED <<tile, pix>>
     ELSE Free # {} /\ Become([tile EXCEPT ![s] = NewTile], With(Fresh, Blank))
  /\ UNCHANGED entries

\* Bytes written through the tile in the hand.
Write(piece) ==
  /\ hand # None
  /\ Written(hand, Over(Content(hand), piece))
  /\ UNCHANGED <<hand, entries>>

Drop ==
  /\ hand # None
  /\ hand' = None
  /\ Become([tile EXCEPT ![Orphan] = None], pix)
  /\ UNCHANGED entries

\* isBlank(): computed once for every write.
AskBlank(s) ==
  /\ tile[s] # None
  /\ tile[s].blank = "unknown"
  /\ tile' = [tile EXCEPT ![s].blank = IF Content(s) = Blank THEN "yes" ELSE "no"]
  /\ UNCHANGED <<pix, hand, entries>>

\* erase() and clear().
Erase(gone) ==
  /\ Become(Kept([s \in Slot |-> IF s \in gone THEN None ELSE tile[s]], gone), pix)
  /\ hand' = HandAfter(gone)
  /\ UNCHANGED entries

\* snapshot(): n becomes a copy of m, what n held before being dropped.
Snapshot(m, n) ==
  /\ Become(Kept(Cloned(m, n, Coord), {n} \X Coord), pix)
  /\ hand' = HandAfter({n} \X Coord)
  /\ UNCHANGED entries

\* writeRegion, for one of the tiles the region touches: nothing to do where a
\* transparent piece meets no tile.
WriteRegion(s, piece) ==
  /\ IF tile[s] = None
     THEN IF \A p \in DOMAIN piece : piece[p] = Transparent THEN UNCHANGED <<tile, pix>>
          ELSE Free # {} /\ Become([tile EXCEPT ![s] = [NewTile EXCEPT !.blank = "unknown"]],
                                   With(Fresh, Over(Blank, piece)))
     ELSE Written(s, Over(Content(s), piece))
  /\ UNCHANGED <<hand, entries>>

-----------------------------------------------------------------------------
(* What diffSnapshots reports of one tile of two maps.                      *)

BlankAt(s) == tile[s] = None \/ (IF tile[s].blank = "unknown" THEN Content(s) = Blank
                                                              ELSE tile[s].blank = "yes")

\* Mutant: one of the two being blank is enough.
ChangedUnlessBlank(s, t) ==
  /\ ~(tile[s] # None /\ tile[t] # None /\ tile[s].buf = tile[t].buf)
  /\ ~(BlankAt(s) \/ BlankAt(t))

\* A buffer both share is not looked into, and blank tiles are all alike.
Changed(s, t) ==
  /\ ~(tile[s] # None /\ tile[t] # None /\ tile[s].buf = tile[t].buf)
  /\ ~(BlankAt(s) /\ BlankAt(t))

\* The tiles a map has, and the coordinates reported of two maps.
AllTiles(m) == {c \in Coord : tile[<<m, c>>] # None}
Diff(m, n)  == {c \in AllTiles(m) \cup AllTiles(n) : Changed(<<m, c>>, <<n, c>>)}

-----------------------------------------------------------------------------
(* The undo command.                                                        *)

Begin ==
  /\ entries' = {}
  /\ Become([s \in Slot |-> IF s \in Place \ OnMap THEN None ELSE tile[s]], pix)
  /\ UNCHANGED hand

\* A coordinate the command knows keeps the tile captured first.
CaptureBefore(coords) ==
  /\ Become(Cloned(Target, "before", coords \ entries), pix)
  /\ entries' = entries \cup coords
  /\ UNCHANGED hand

CaptureAfter ==
  /\ Become(Cloned(Target, "after", entries), pix)
  /\ UNCHANGED <<hand, entries>>

\* A buffer for each of the places, no two the same: none when memory is exhausted.
FreshFor(slots) == Injection(slots, Free)

\* restore(), a putTile for every entry: where there was no tile the tile is
\* erased, elsewhere the entry's pixels are copied into the map's tile, which
\* stays the same object.
Restore(side) ==
  LET gone   == {<<Target, c>> : c \in {d \in entries : tile[<<side, d>>] = None}}
      filled == {<<Target, c>> : c \in entries} \ gone
      new    == {s \in filled : tile[s] = None \/ Shared(s)}
      source(s) == <<side, s[2]>>
  IN  /\ FreshFor(new) # {}
      /\ LET fresh == CHOOSE f \in FreshFor(new) : TRUE
             buf(s) == IF s \in new THEN fresh[s] ELSE tile[s].buf
             \* An unshared buffer is one place's, and so is a fresh one.
             owner(b) == CHOOSE s \in filled : buf(s) = b
             copied == [b \in DOMAIN pix \cup {buf(s) : s \in filled} |->
                          IF \E s \in filled : buf(s) = b THEN Content(source(owner(b))) ELSE pix[b]]
         IN  Become(Kept([s \in Slot |->
                            IF s \in gone THEN None
                            ELSE IF s \in filled THEN [buf |-> buf(s), blank |-> "unknown"]
                            ELSE tile[s]], gone),
                    copied)
      /\ hand' = HandAfter(gone)
      /\ UNCHANGED entries

-----------------------------------------------------------------------------
Pieces == UNION {[ps -> Ink] : ps \in (SUBSET Part) \ {{}}}

Next ==
  \/ \E s \in OnMap : Take(s)
  \/ \E piece \in Pieces : Write(piece)
  \/ Drop
  \/ \E s \in Place : AskBlank(s)
  \/ \E s \in OnMap : Erase({s})
  \/ \E m \in Map : Erase({m} \X Coord)
  \/ \E m, n \in Map : m # n /\ Snapshot(m, n)
  \/ \E s \in OnMap : \E piece \in Pieces : WriteRegion(s, piece)
  \/ Begin
  \/ \E c \in Coord : CaptureBefore({c})
  \/ CaptureAfter
  \/ \E side \in {"before", "after"} : Restore(side)

Spec == Init /\ [][Next]_vars

-----------------------------------------------------------------------------
(* What must hold.                                                          *)

TypeOK ==
  /\ tile \in [Slot -> Tile \cup {None}]
  /\ DOMAIN pix = InUse(tile)
  /\ \A b \in DOMAIN pix : pix[b] \in Pixels
  /\ hand \in OnMap \cup {None, Orphan}
  /\ hand \in Slot => tile[hand] # None
  /\ entries \subseteq Coord

\* isBlank() lets the compositor skip a tile and saving drop it, and clone()
\* hands the cached answer on: a cached answer is the truth, through whichever
\* of the tiles that share a buffer the pixels were last written.
CachedBlankIsTrue ==
  /\ TypeOK
  /\ \A s \in Slot : tile[s] # None /\ tile[s].blank # "unknown" =>
       (tile[s].blank = "yes" <=> Content(s) = Blank)

\* snapshot.diff compares buffers and cached blanks instead of pixels and still
\* misses no tile two maps show differently (snapshot.cpp:236-254).
Seen(s) == IF tile[s] = None THEN Blank ELSE Content(s)
DiffMissesNothing ==
  \A m, n \in Map : \A c \in Coord :
    Seen(<<m, c>>) # Seen(<<n, c>>) => c \in Diff(m, n)

\* Copy on write cannot be seen: to everyone who reads pixels, maps, snapshots
\* and both sides of an undo command each have pixels of their own, whatever a
\* writer that kept a tile in its hand does in between (tile.cpp:3-15).
Value  == [s \in Place |-> IF tile[s] = None THEN None ELSE Content(s)]
Held   == IF hand = Orphan THEN None ELSE hand
Values == INSTANCE TileValues WITH value <- Value, held <- Held
SharingIsInvisible == Values!Spec
=============================================================================
