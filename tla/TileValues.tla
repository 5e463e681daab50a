----------------------------- MODULE TileValues -----------------------------
(***************************************************************************)
(* What the tile store promises (include/mari/core/tile.hpp): a layer, a   *)
(* snapshot of it and the two sides of an undo command each have pixels of *)
(* their own.  Nothing is shared here; that TileStore, which shares, looks *)
(* like this is what its copy on write is for.                             *)
(***************************************************************************)
CONSTANTS
  Map,         \* tile maps: the layer's and its snapshots
  Target,      \* the map the undo command is about
  Coord,       \* tile coordinates
  Part,        \* the pieces of a tile a region may cut it into
  Ink,         \* what a piece can hold
  Transparent, \* the Ink with no alpha
  None         \* no tile, nothing held

Blank == [p \in Part |-> Transparent]
Place == (Map \cup {"before", "after"}) \X Coord
OnMap == Map \X Coord

VARIABLES
  value,    \* the pixels at each place; None where no tile is allocated
  held,     \* the place whose tile a writer holds, or None
  entries   \* the coordinates the undo command has registered

vars == <<value, held, entries>>

\* An absent tile is read as a transparent one.
Seen(v) == IF v = None THEN Blank ELSE v

Over(v, piece) == [p \in Part |-> IF p \in DOMAIN piece THEN piece[p] ELSE Seen(v)[p]]

\* The tiles of the given coordinates, as one owner has them, become another's.
Moved(from, to, coords) ==
  [p \in Place |-> IF p[1] = to /\ p[2] \in coords THEN value[<<from, p[2]>>] ELSE value[p]]

\* A writer loses sight of a tile that leaves its map.
StillHeld(gone) == IF held \in gone THEN None ELSE held

Init ==
  /\ value = [p \in Place |-> None]
  /\ held = None
  /\ entries = {}

Take(p) ==
  /\ value' = [value EXCEPT ![p] = Seen(@)]
  /\ held' = p
  /\ UNCHANGED entries

Write(piece) ==
  /\ held # None
  /\ value' = [value EXCEPT ![held] = Over(@, piece)]
  /\ UNCHANGED <<held, entries>>

Drop == held' = None /\ UNCHANGED <<value, entries>>

\* Transparent ink on no tile may leave no tile.
WriteRegion(p, piece) ==
  /\ \/ value' = [value EXCEPT ![p] = Over(@, piece)]
     \/ value[p] = None /\ Over(None, piece) = Blank /\ UNCHANGED value
  /\ UNCHANGED <<held, entries>>

Erase(gone) ==
  /\ value' = [p \in Place |-> IF p \in gone THEN None ELSE value[p]]
  /\ held' = StillHeld(gone)
  /\ UNCHANGED entries

Snapshot(m, n) ==
  /\ value' = Moved(m, n, Coord)
  /\ held' = StillHeld({n} \X Coord)
  /\ UNCHANGED entries

Begin ==
  /\ entries' = {}
  /\ value' = [p \in Place |-> IF p[1] \in Map THEN value[p] ELSE None]
  /\ UNCHANGED held

CaptureBefore(coords) ==
  /\ value' = Moved(Target, "before", coords \ entries)
  /\ entries' = entries \cup coords
  /\ UNCHANGED held

CaptureAfter ==
  /\ value' = Moved(Target, "after", entries)
  /\ UNCHANGED <<held, entries>>

Restore(side) ==
  /\ value' = Moved(side, Target, entries)
  /\ held' = StillHeld({<<Target, c>> : c \in {d \in entries : value[<<side, d>>] = None}})
  /\ UNCHANGED entries

Next ==
  \/ \E p \in OnMap : Take(p)
  \/ \E ps \in SUBSET Part : \E piece \in [ps -> Ink] :
       Write(piece) \/ \E p \in OnMap : WriteRegion(p, piece)
  \/ Drop
  \/ \E gone \in SUBSET OnMap : Erase(gone)
  \/ \E m, n \in Map : m # n /\ Snapshot(m, n)
  \/ Begin
  \/ \E coords \in SUBSET Coord : CaptureBefore(coords)
  \/ CaptureAfter
  \/ \E side \in {"before", "after"} : Restore(side)

Spec == Init /\ [][Next]_vars
=============================================================================
