----------------------------- MODULE Selection ------------------------------
(***************************************************************************)
(* The document's selection mask (core/src/selection.cpp), the requests    *)
(* that change it (agent/src/ops_layer.cpp) and the area a drawing         *)
(* operation takes by default (agent/src/ops_draw.cpp:56).                 *)
(*                                                                         *)
(* A mask is sparse: a value for the tiles it does not have (outside_) and *)
(* tiles for the rest, so that selecting everything or nothing needs none. *)
(* Its bounding box is cached.  One row of pixels stands for the canvas;   *)
(* ellipse, lasso, colour, content and alpha differ in the degrees they    *)
(* write, not in how.                                                      *)
(***************************************************************************)
EXTENDS SelectionValues, FiniteSets, Functions

CONSTANTS
  TileSize,  \* kTileSize
  Widths,    \* the canvas sizes
  Radii      \* by how much requests expand, shrink and feather

ASSUME SelectionAssumption ==
  /\ Full \in Nat \ {0}
  /\ TileSize \in Nat \ {0}
  /\ Widths \subseteq Nat \ {0}
  /\ Radii \subseteq Nat

VARIABLE mask   \* Document::selectionMask_

Inner == 0..(TileSize - 1)
Tile  == 0..((CHOOSE w \in Widths : \A v \in Widths : v <= w) - 1) \div TileSize

\* No bounding box: an empty Rect.
NoBox == {}

Mask == [outside : Value, tiles : UNION {[ts -> [Inner -> Value]] : ts \in SUBSET Tile},
         width : Widths, cached : BOOLEAN, box : SUBSET (0..(TileSize * Cardinality(Tile) - 1))]

TileOf(x)   == x \div TileSize
Canvas(m)   == 0..(m.width - 1)
InTile(c)   == (c * TileSize)..(c * TileSize + TileSize - 1)

All(w)   == [outside |-> Full, tiles |-> <<>>, width |-> w, cached |-> FALSE, box |-> NoBox]
Empty(w) == [All(w) EXCEPT !.outside = 0]

IsAll(m)   == m.outside = Full /\ m.tiles = <<>>
IsEmpty(m) == m.outside = 0 /\ m.tiles = <<>>

ValueAt(m, x) ==
  IF x \notin Canvas(m) THEN 0
  ELSE IF TileOf(x) \in DOMAIN m.tiles THEN m.tiles[TileOf(x)][x % TileSize] ELSE m.outside

Clamped(m, x) == ValueAt(m, IF x < 0 THEN 0 ELSE IF x >= m.width THEN m.width - 1 ELSE x)

\* bounds(): from the first to the last pixel selected at all.
Span(s) == {x \in 0..(TileSize * Cardinality(Tile) - 1) : (\E a \in s : a <= x) /\ \E b \in s : x <= b}
TrueBox(m) == Span({x \in Canvas(m) : ValueAt(m, x) # 0})
Bounds(m)  == IF m.cached THEN m.box ELSE TrueBox(m)

-----------------------------------------------------------------------------
(* What every change is made of.                                            *)

\* writeRegion and fillRect: each tile the area touches is there afterwards,
\* a new one holding the outside value where the area does not reach.
WriteRegion(m, area, out) ==
  LET inside  == area \cap Canvas(m)
      touched == {TileOf(x) : x \in inside}
      pixel(c, i) == c * TileSize + i
      old(c, i)   == IF c \in DOMAIN m.tiles THEN m.tiles[c][i] ELSE m.outside
  IN  [m EXCEPT
         !.tiles = [c \in DOMAIN m.tiles \cup touched |->
                      [i \in Inner |-> IF c \in touched /\ pixel(c, i) \in inside
                                       THEN out[pixel(c, i)] ELSE old(c, i)]],
         !.cached = @ /\ touched = {}]

\* Mutant: the bounding box outlives the change.
NormalizedCached(m) ==
  [m EXCEPT !.tiles = Restrict(@, {c \in DOMAIN @ :
      \E x \in InTile(c) \cap Canvas(m) : m.tiles[c][x % TileSize] # m.outside})]

\* normalize(): a tile that says what its absence says is dropped.
Normalized(m) ==
  [m EXCEPT !.tiles = Restrict(@, {c \in DOMAIN @ :
              \E x \in InTile(c) \cap Canvas(m) : m.tiles[c][x % TileSize] # m.outside}),
            !.cached = FALSE]

-----------------------------------------------------------------------------
(* The operations on masks.                                                 *)

\* invert(): the tiles and the outside value.
Inverted(m) ==
  Normalized([m EXCEPT !.outside = Full - @,
                       !.tiles = [c \in DOMAIN @ |-> [i \in Inner |-> Full - @[c][i]]]])

\* Mutant: where the other mask has no tile this one is left alone.
CombinedOwnTiles(m, other, op) ==
  LET out  == Mixed(m.outside, other.outside, op)
      of(k, c, i) == IF c \in DOMAIN k.tiles THEN k.tiles[c][i] ELSE k.outside
  IN  Normalized([m EXCEPT !.outside = out,
                           !.tiles = [c \in DOMAIN other.tiles |->
                              [i \in Inner |-> Mixed(of(m, c, i), other.tiles[c][i], op)]]])

\* combine(): the tiles either has, and the outside value.
Combined(m, other, op) ==
  LET out  == Mixed(m.outside, other.outside, op)
      of(k, c, i) == IF c \in DOMAIN k.tiles THEN k.tiles[c][i] ELSE k.outside
  IN  Normalized([m EXCEPT !.outside = out,
                           !.tiles = [c \in DOMAIN m.tiles \cup DOMAIN other.tiles |->
                              [i \in Inner |-> Mixed(of(m, c, i), of(other, c, i), op)]]])

Widened(s, r) == {x \in -r..(TileSize * Cardinality(Tile) + r) : \E y \in s : x - y \in -r..r}

\* expand(by): within the box grown by `by`, every pixel that is near enough to
\* one selected by half or more.
Expanded(m, by) ==
  IF by = 0 \/ IsAll(m) \/ IsEmpty(m) THEN m
  ELSE LET work == Widened(Bounds(m), by) \cap Canvas(m)
           near(x) == \E y \in -by..(m.width + by) : y - x \in -by..by /\ 2 * ValueAt(m, y) > Full
       IN  IF work = {} THEN m
           ELSE Normalized(WriteRegion(m, work, [x \in work |-> IF near(x) THEN Full ELSE 0]))

\* expand(-by): within the box, every pixel farther than that from one that is not.
Shrunk(m, by) ==
  IF by = 0 \/ IsEmpty(m) THEN m
  ELSE LET work == Bounds(m) \cap Canvas(m)
           far(x) == \A y \in (-by - 1)..(m.width + by) : y - x \in -by..by => 2 * ValueAt(m, y) > Full
       IN  IF work = {} THEN m
           ELSE Normalized(WriteRegion(m, work, [x \in work |-> IF far(x) THEN Full ELSE 0]))

\* feather(): the masks a blur with that reach may end with.
Feathered(m, r) ==
  IF r = 0 \/ IsAll(m) \/ IsEmpty(m) THEN {m}
  ELSE LET work == Widened(Bounds(m), r) \cap Canvas(m)
           around(x) == {Clamped(m, x + d) : d \in -r..r}
           blurs == {out \in [work -> Value] :
                       \A x \in work : /\ \E v \in around(x) : v <= out[x]
                                       /\ \E v \in around(x) : out[x] <= v}
       IN  IF work = {} THEN {m} ELSE {Normalized(WriteRegion(m, work, out)) : out \in blurs}

SetCanvasSize(m, w) == Normalized([m EXCEPT !.width = w, !.cached = FALSE])

-----------------------------------------------------------------------------
(* The masks a request makes.                                               *)

FromRect(w, r) ==
  LET clipped == r \cap (0..(w - 1))
  IN  IF clipped = {} THEN Empty(w)
      ELSE IF clipped = 0..(w - 1) THEN All(w)
      ELSE Normalized(WriteRegion(Empty(w), clipped, [x \in clipped |-> Full]))

\* fromEllipse and fromPolygon: the degrees of the pixels of a box.
FromShape(w, out) == Normalized(WriteRegion(Empty(w), DOMAIN out, out))

\* fromTiles: the layer's tiles are judged pixel by pixel, the rest all at once.
FromTiles(w, outside, out) ==
  Normalized(WriteRegion(IF outside # 0 THEN All(w) ELSE Empty(w), DOMAIN out, out))

Stretches(w) == {a..b : a, b \in 0..(w - 1)}
Made(w) ==
  {FromRect(w, r) : r \in Stretches(w) \cup {{}}}
    \cup {FromShape(w, [x \in r |-> v]) : r \in Stretches(w) \ {{}}, v \in Value}
    \cup {FromTiles(w, outside, [x \in InTile(c) |-> IF x % TileSize = i THEN v ELSE u]) :
            outside \in {0, Full}, c \in {d \in Tile : d * TileSize < w}, i \in Inner, u, v \in {0, Full}}

\* The mask a select request combines with the selection: made, then feathered.
Wanted == [w \in Widths |-> UNION {Feathered(made, r) : made \in Made(w), r \in {0} \cup Radii}]

-----------------------------------------------------------------------------
(* The requests.                                                            *)

Init == \E w \in Widths : mask = All(w)

SelectNone == mask' = All(mask.width)

\* select: replacing takes the mask itself, the rest combines.
Select(op) ==
  \E made \in Wanted[mask.width] :
    mask' = IF op = "replace" THEN made ELSE Combined(mask, made, op)

SelectInvert     == mask' = Inverted(mask)
SelectExpand(by) == mask' = Expanded(mask, by)
SelectShrink(by) == mask' = Shrunk(mask, by)
SelectFeather(r) == mask' \in Feathered(mask, r)

\* setSelectionMask with a mask made for another canvas, as a restored snapshot
\* may bring it.
Resize(w) == w # mask.width /\ mask' = SetCanvasSize(mask, w)

\* bounds(), asked by selection(): it fills the cache.
Ask == ~mask.cached /\ mask' = [mask EXCEPT !.cached = TRUE, !.box = TrueBox(mask)]

Next ==
  \/ SelectNone
  \/ \E op \in Ops : Select(op)
  \/ SelectInvert
  \/ \E r \in Radii : SelectExpand(r) \/ SelectShrink(r) \/ SelectFeather(r)
  \/ \E w \in Widths : Resize(w)
  \/ Ask

Spec == Init /\ [][Next]_mask

-----------------------------------------------------------------------------
(* What must hold.                                                          *)

TypeOK ==
  /\ mask \in Mask
  /\ mask.outside \in {0, Full}

\* Document::selection(): an empty Rect for "everything" and for "nothing".
Selection == IF IsAll(mask) THEN NoBox ELSE Bounds(mask)

\* The regions an operation may name: none, the canvas, the selection, or an area
\* given by its corners or by what the layers hold.
Regions == {[at |-> a, area |-> NoBox] : a \in {"none", "canvas", "selection"}}
             \cup {[at |-> "area", area |-> a..b] : a, b \in -1..mask.width}

\* resolveRegion, with the fallback of paintRegion; an empty one is refused.
Region(r) ==
  CASE r.at = "none"      -> IF Selection = NoBox THEN Canvas(mask) ELSE Selection
    [] r.at = "canvas"    -> Canvas(mask)
    [] r.at = "selection" -> Selection
    [] r.at = "area"      -> r.area
DrawnArea(r) == Region(r) \cap Canvas(mask)

\* How much of a new pixel a region operation (maskRegionImage) and a stroke
\* (beginStroke, applySelection) let through: both look at the representation.
Share(x) == IF IsAll(mask) THEN Full ELSE ValueAt(mask, x)
Unlimited == IsAll(mask)
InkLeft(x) ==
  LET c == TileOf(x)
  IN  IF Unlimited \/ (c \notin DOMAIN mask.tiles /\ mask.outside = Full /\ InTile(c) \subseteq Canvas(mask))
      THEN Full
      ELSE IF x \notin Canvas(mask) THEN 0
      ELSE IF c \in DOMAIN mask.tiles THEN mask.tiles[c][x % TileSize] ELSE mask.outside

\* Region operations reach exactly the selected pixels of the region they name,
\* or all of them, and a stroke is let through as far as each pixel is selected,
\* though the box is cached across changes and "everything", "nothing" and "no
\* box" are told apart by looking at the representation only.
DrawingReachesSelection ==
  LET selected == {x \in Canvas(mask) : ValueAt(mask, x) # 0}
      reached(r) == {x \in DrawnArea(r) : Share(x) # 0}
      refused(r) == r.at = "selection" /\ Selection = NoBox
  IN  /\ TypeOK
      /\ \A r \in Regions : refused(r) \/ reached(r) = IF r.at = "area" THEN selected \cap r.area ELSE selected
      /\ \A x \in Canvas(mask) : InkLeft(x) = ValueAt(mask, x)

\* The sparse mask behaves like a degree for each pixel of the canvas, whatever
\* tiles and outside value a chain of requests has left it with: so do combining
\* it with what a request selects, inverting, growing, shrinking and feathering,
\* and what another canvas size keeps.
Degrees(m) == [x \in Canvas(m) |-> ValueAt(m, x)]
BehavesPixelByPixel ==
  LET d == Degrees(mask)
  IN  /\ \A op \in Ops, made \in Wanted[mask.width] :
            Degrees(Combined(mask, made, op)) = MixedWith(d, Degrees(made), op)
      /\ Degrees(Inverted(mask)) = Turned(d)
      /\ \A r \in Radii : /\ Degrees(Expanded(mask, r)) = Grown(d, r)
                          /\ Degrees(Shrunk(mask, r)) = Eroded(d, r)
                          /\ \A m \in Feathered(mask, r) : IsBlur(Degrees(m), d, r)
      /\ \A w \in Widths : \A x \in Canvas(mask) \cap 0..(w - 1) :
            ValueAt(SetCanvasSize(mask, w), x) = d[x]
=============================================================================
