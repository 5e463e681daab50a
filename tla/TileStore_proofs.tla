-------------------------- MODULE TileStore_proofs --------------------------
(***************************************************************************)
(* For every set of maps, coordinates and buffers: tiles and buffers keep  *)
(* their types, a cached blank is true, the diff of two maps misses        *)
(* nothing, and sharing buffers cannot be seen (TileStore implements       *)
(* TileValues).  The cache alone is not inductive: that a write spoils     *)
(* nobody else's cached answer needs that the buffers in the pool are the  *)
(* ones in use, so that a fresh one is nobody's, and that both are typed.  *)
(* The same invariant carries the refinement.                              *)
(***************************************************************************)
EXTENDS TileStore, TLAPS

\* Tiles ts over buffers p: typed, and no cached answer is wrong.
Sound(ts, p) ==
  /\ ts \in [Slot -> Tile \cup {None}]
  /\ \A s \in Slot : ts[s] # None =>
       /\ p[ts[s].buf] \in Pixels
       /\ ts[s].blank # "unknown" => (ts[s].blank = "yes" <=> p[ts[s].buf] = Blank)

StoreInv == Sound(tile, pix) /\ DOMAIN pix = InUse(tile)

HandInv ==
  /\ hand \in OnMap \cup {None, Orphan}
  /\ hand \in Slot => tile[hand] # None
  /\ entries \subseteq Coord

IInv == StoreInv /\ HandInv

-----------------------------------------------------------------------------

\* The inductive invariant is the types and the caches together.
LEMMA IInvIsBoth == IInv <=> CachedBlankIsTrue
<1>1. ASSUME IInv PROVE TypeOK
  BY <1>1 DEF IInv, StoreInv, HandInv, Sound, TypeOK, InUse
<1>2. ASSUME IInv PROVE CachedBlankIsTrue
  BY <1>1, <1>2 DEF IInv, StoreInv, Sound, CachedBlankIsTrue, Content
<1>3. ASSUME CachedBlankIsTrue PROVE IInv
  BY <1>3 DEF IInv, StoreInv, HandInv, Sound, TypeOK, CachedBlankIsTrue, Content, InUse
<1> QED BY <1>2, <1>3

\* None is no tile, and no place.
LEMMA NoneIsNothing == None \notin Tile /\ None \notin Slot /\ None \notin Pixels
BY TileStoreAssumption

\* Whatever sound tiles and buffers are handed to Become are what there is then.
LEMMA BecomeSound ==
  ASSUME NEW ts, NEW p, Sound(ts, p), Become(ts, p)
  PROVE  StoreInv' /\ tile' = ts
BY DEF Sound, Become, StoreInv, Restrict, InUse

\* A fresh buffer is nobody's.
LEMMA FreshIsFree ==
  ASSUME Free # {}
  PROVE  Fresh \in Buffer /\ Fresh \notin DOMAIN pix
BY DEF Fresh, Free

\* No ink is pixels too.
LEMMA BlankIsPixels == Blank \in Pixels
BY TileStoreAssumption DEF Blank, Pixels

\* Pixels written over pixels are pixels.
LEMMA OverIsPixels ==
  ASSUME NEW piece \in Pieces, NEW px \in Pixels
  PROVE  Over(px, piece) \in Pixels
BY DEF Pieces, Pixels, Over

\* Filling a buffer nobody uses leaves the tiles sound.
LEMMA WithFresh ==
  ASSUME StoreInv, Free # {}, NEW px
  PROVE  /\ Sound(tile, With(Fresh, px))
         /\ With(Fresh, px)[Fresh] = px
BY FreshIsFree DEF StoreInv, Sound, InUse, With

\* A write through a tile: types and caches stay right, and no tile comes or goes.
LEMMA WrittenSound ==
  ASSUME StoreInv, NEW s \in Slot, tile[s] # None, NEW px \in Pixels, Written(s, px)
  PROVE  StoreInv' /\ \A t \in Slot : tile'[t] = None <=> tile[t] = None
<1>1. CASE Shared(s)
  <2> DEFINE ts == [tile EXCEPT ![s] = [buf |-> Fresh, blank |-> "unknown"]]
  <2>1. Free # {} /\ Become(ts, With(Fresh, px))
    BY <1>1 DEF Written
  <2>2. [buf |-> Fresh, blank |-> "unknown"] \in Tile
    BY <2>1, FreshIsFree DEF Tile
  <2>3. ts \in [Slot -> Tile \cup {None}]
    BY <2>2 DEF StoreInv, Sound
  <2>4. Sound(ts, With(Fresh, px))
    BY <2>1, <2>3, WithFresh DEF StoreInv, Sound
  <2>5. StoreInv' /\ tile' = ts
    BY <2>1, <2>4, BecomeSound
  <2> QED BY <2>2, <2>3, <2>5, NoneIsNothing DEF StoreInv, Sound
<1>2. CASE ~Shared(s)
  <2> DEFINE ts == [tile EXCEPT ![s].blank = "unknown"]
  <2>1. Become(ts, With(tile[s].buf, px))
    BY <1>2 DEF Written
  <2>2. tile[s] \in Tile /\ [tile[s] EXCEPT !.blank = "unknown"] \in Tile
    BY DEF StoreInv, Sound, Tile
  <2>3. ts \in [Slot -> Tile \cup {None}] /\ ts[s].buf = tile[s].buf /\ ts[s].blank = "unknown"
    BY <2>2 DEF StoreInv, Sound, Tile
  <2>4. \A t \in Slot \ {s} : ts[t] = tile[t] /\ (tile[t] # None => tile[t].buf # tile[s].buf)
    BY <1>2 DEF StoreInv, Sound, Shared
  <2>5. \A t \in Slot : tile[t] # None => tile[t].buf \in DOMAIN pix
    BY DEF StoreInv, InUse
  <2>6. Sound(ts, With(tile[s].buf, px))
    BY <2>3, <2>4, <2>5 DEF StoreInv, Sound, With
  <2>7. StoreInv' /\ tile' = ts
    BY <2>1, <2>6, BecomeSound
  <2> QED BY <2>2, <2>3, <2>4, <2>7, NoneIsNothing DEF StoreInv, Sound
<1> QED BY <1>1, <1>2

\* A clone shares buffer and cache, and both are right for it too.
LEMMA ClonedSound ==
  ASSUME StoreInv, NEW from, NEW to, NEW coords, coords \subseteq Coord,
         from \in Map \cup {"before", "after"}
  PROVE  Sound(Cloned(from, to, coords), pix)
<1>1. \A c \in coords : <<from, c>> \in Slot
  BY DEF Slot, Place
<1> QED BY <1>1 DEF StoreInv, Sound, Cloned

\* A tile taken out of its map is as sound in the writer's hand.
LEMMA KeptSound ==
  ASSUME StoreInv, HandInv, NEW ts, NEW p, Sound(ts, p), NEW gone,
         hand \in gone => /\ hand \in Slot
                          /\ p[tile[hand].buf] = Content(hand)
  PROVE  Sound(Kept(ts, gone), p)
<1>1. CASE hand \in gone
  <2>1. tile[hand] \in Tile
    BY <1>1 DEF StoreInv, Sound, HandInv
  <2>2. Orphan \in Slot /\ Kept(ts, gone) = [ts EXCEPT ![Orphan] = tile[hand]]
    BY <1>1 DEF Slot, Kept
  <2> QED BY <1>1, <2>1, <2>2, NoneIsNothing DEF StoreInv, Sound, Content
<1>2. CASE hand \notin gone
  BY <1>2 DEF Kept
<1> QED BY <1>1, <1>2

\* A held tile of a map is still one of the map's, or the writer's own.
LEMMA HandKept ==
  ASSUME HandInv, NEW ts, NEW gone \in SUBSET OnMap,
         \A s \in OnMap \ gone : tile[s] # None => ts[s] # None,
         ts \in [Slot -> Tile \cup {None}], ts[Orphan] = tile[Orphan],
         tile' = Kept(ts, gone), hand' = HandAfter(gone), UNCHANGED entries
  PROVE  HandInv'
<1> USE NoneIsNothing, TileStoreAssumption
<1>1. OnMap \subseteq Slot /\ Orphan \in Slot /\ Orphan \notin OnMap
  BY DEF OnMap, Slot, Place
<1>2. CASE hand \in gone
  BY <1>1, <1>2 DEF HandInv, Kept, HandAfter
<1>3. CASE hand \notin gone
  BY <1>1, <1>3 DEF HandInv, Kept, HandAfter
<1> QED BY <1>2, <1>3

-----------------------------------------------------------------------------
(* The steps, one lemma each.                                               *)

\* At first there are no tiles and no buffers.
LEMMA InitInv == Init => IInv
<1> SUFFICES ASSUME Init PROVE IInv
  OBVIOUS
<1>1. tile \in [Slot -> Tile \cup {None}] /\ \A s \in Slot : tile[s] = None
  BY DEF Init
<1>2. InUse(tile) = {}
  BY <1>1 DEF InUse
<1> QED BY <1>1, <1>2, NoneIsNothing DEF Init, IInv, StoreInv, HandInv, Sound

\* writable(): the tile is there, or a new one in a fresh buffer.
LEMMA TakeInv ==
  ASSUME IInv, NEW s \in OnMap, Take(s)
  PROVE  IInv'
<1> USE DEF IInv
<1>0. s \in Slot
  BY DEF OnMap, Slot, Place
<1>1. CASE tile[s] # None
  BY <1>0, <1>1 DEF Take, StoreInv, Sound, InUse, HandInv
<1>2. CASE tile[s] = None
  <2> DEFINE ts == [tile EXCEPT ![s] = NewTile]
  <2>1. Free # {} /\ Become(ts, With(Fresh, Blank))
    BY <1>2 DEF Take
  <2>2. NewTile \in Tile /\ NewTile.buf = Fresh /\ NewTile.blank = "yes"
    BY <2>1, FreshIsFree DEF NewTile, Tile
  <2>3. Sound(ts, With(Fresh, Blank))
    BY <1>0, <2>1, <2>2, WithFresh, BlankIsPixels DEF StoreInv, Sound
  <2>4. StoreInv' /\ tile' = ts
    BY <2>1, <2>3, BecomeSound
  <2> QED BY <1>0, <2>2, <2>4, NoneIsNothing DEF Take, StoreInv, Sound, HandInv
<1> QED BY <1>1, <1>2

\* A write goes through a tile that exists.
LEMMA WriteInv ==
  ASSUME IInv, NEW piece \in Pieces, Write(piece)
  PROVE  IInv'
<1>1. hand \in Slot /\ tile[hand] # None
  BY DEF IInv, HandInv, Write, OnMap, Slot, Place
<1>2. Content(hand) \in Pixels
  BY <1>1 DEF IInv, StoreInv, Sound, Content
<1>3. Over(Content(hand), piece) \in Pixels
  BY <1>2, OverIsPixels
<1>4. StoreInv' /\ \A t \in Slot : tile'[t] = None <=> tile[t] = None
  BY <1>1, <1>3, WrittenSound DEF IInv, Write
<1> QED BY <1>4 DEF IInv, HandInv, Write

\* Nothing else refers to a tile that has left its map.
LEMMA DropInv ==
  ASSUME IInv, Drop
  PROVE  IInv'
<1>1. Sound([tile EXCEPT ![Orphan] = None], pix)
  BY NoneIsNothing DEF IInv, StoreInv, Sound
<1>2. StoreInv'
  BY <1>1, BecomeSound DEF Drop
<1> QED BY <1>2, NoneIsNothing DEF IInv, HandInv, Drop

\* The answer that is cached is the one just computed.
LEMMA AskBlankInv ==
  ASSUME IInv, NEW s \in Place, AskBlank(s)
  PROVE  IInv'
<1>1. s \in Slot /\ tile[s] \in Tile
  BY DEF Slot, AskBlank, IInv, StoreInv, Sound
<1> DEFINE answer == IF Content(s) = Blank THEN "yes" ELSE "no"
           new == [tile[s] EXCEPT !.blank = answer]
<1>2. new \in Tile /\ new.buf = tile[s].buf /\ new.blank = answer
  BY <1>1 DEF Tile
<1>3. tile' = [tile EXCEPT ![s] = new] /\ pix' = pix
  BY DEF AskBlank
<1>4. Sound(tile', pix')
  <2>1. tile' \in [Slot -> Tile \cup {None}] /\ tile'[s] = new
    BY <1>1, <1>2, <1>3 DEF IInv, StoreInv, Sound
  <2>2. pix[tile[s].buf] \in Pixels /\ (answer = "yes" <=> pix[tile[s].buf] = Blank)
    BY <1>1, NoneIsNothing DEF IInv, StoreInv, Sound, Content
  <2>3. \A t \in Slot \ {s} : tile'[t] = tile[t]
    BY <1>3 DEF IInv, StoreInv, Sound
  <2> HIDE DEF answer, new
  <2> QED BY <1>1, <1>2, <1>3, <2>1, <2>2, <2>3 DEF IInv, StoreInv, Sound
<1>5. InUse(tile') = InUse(tile)
  BY <1>1, <1>2, <1>3, NoneIsNothing DEF IInv, StoreInv, Sound, InUse, AskBlank
<1> QED BY <1>1, <1>2, <1>3, <1>4, <1>5, NoneIsNothing DEF IInv, StoreInv, Sound, HandInv, AskBlank

\* An erased tile that is held is carried over.
LEMMA EraseInv ==
  ASSUME IInv, NEW gone \in SUBSET OnMap, Erase(gone)
  PROVE  IInv'
<1> DEFINE ts == [s \in Slot |-> IF s \in gone THEN None ELSE tile[s]]
<1>0. OnMap \subseteq Slot /\ Orphan \in Slot /\ Orphan \notin OnMap
  BY TileStoreAssumption DEF OnMap, Slot, Place
<1>1. Sound(ts, pix)
  BY DEF IInv, StoreInv, Sound
<1>2. Sound(Kept(ts, gone), pix)
  BY <1>0, <1>1, KeptSound DEF IInv, Content
<1>3. StoreInv' /\ tile' = Kept(ts, gone)
  BY <1>2, BecomeSound DEF Erase
<1>4. HandInv'
  BY <1>0, <1>1, <1>3, HandKept DEF IInv, Sound, Erase
<1> QED BY <1>3, <1>4 DEF IInv

\* So is a held tile of the map a snapshot replaces.
LEMMA SnapshotInv ==
  ASSUME IInv, NEW m \in Map, NEW n \in Map, Snapshot(m, n)
  PROVE  IInv'
<1> DEFINE ts == Cloned(m, n, Coord)
           gone == {n} \X Coord
<1>0. gone \in SUBSET OnMap /\ OnMap \subseteq Slot /\ Orphan \in Slot /\ Orphan \notin OnMap
  BY TileStoreAssumption DEF OnMap, Slot, Place
<1>1. Sound(ts, pix)
  BY ClonedSound DEF IInv
<1>2. Sound(Kept(ts, gone), pix)
  BY <1>0, <1>1, KeptSound DEF IInv, Content
<1>3. StoreInv' /\ tile' = Kept(ts, gone)
  BY <1>2, BecomeSound DEF Snapshot
<1>4. \A s \in OnMap \ gone : ts[s] = tile[s]
  BY <1>0 DEF Cloned, OnMap
<1>5. ts[Orphan] = tile[Orphan]
  BY <1>0 DEF Cloned
<1>6. HandInv'
  BY <1>0, <1>1, <1>3, <1>4, <1>5, HandKept DEF IInv, Sound, Snapshot
<1> QED BY <1>3, <1>6 DEF IInv

\* A tile written, a new one filled, or nothing done.
LEMMA WriteRegionInv ==
  ASSUME IInv, NEW s \in OnMap, NEW piece \in Pieces, WriteRegion(s, piece)
  PROVE  IInv'
<1>0. s \in Slot
  BY DEF OnMap, Slot, Place
<1>1. CASE tile[s] # None
  <2>1. Content(s) \in Pixels
    BY <1>0, <1>1 DEF IInv, StoreInv, Sound, Content
  <2>2. Over(Content(s), piece) \in Pixels
    BY <2>1, OverIsPixels
  <2>3. StoreInv' /\ \A t \in Slot : tile'[t] = None <=> tile[t] = None
    BY <1>0, <1>1, <2>2, WrittenSound DEF IInv, WriteRegion
  <2> QED BY <2>3 DEF IInv, HandInv, WriteRegion
<1>2. CASE tile[s] = None /\ UNCHANGED <<tile, pix>>
  BY <1>2 DEF IInv, StoreInv, HandInv, Sound, InUse, WriteRegion
<1>3. CASE tile[s] = None /\ ~UNCHANGED <<tile, pix>>
  <2> DEFINE new == [NewTile EXCEPT !.blank = "unknown"]
             px == Over(Blank, piece)
             ts == [tile EXCEPT ![s] = new]
  <2>1. Free # {} /\ Become(ts, With(Fresh, px))
    BY <1>3 DEF WriteRegion
  <2>2. new \in Tile /\ new.buf = Fresh /\ new.blank = "unknown"
    BY <2>1, FreshIsFree DEF NewTile, Tile
  <2>3. px \in Pixels
    BY BlankIsPixels, OverIsPixels
  <2>4. Sound(ts, With(Fresh, px))
    BY <1>0, <2>1, <2>2, <2>3, WithFresh DEF IInv, StoreInv, Sound
  <2>5. StoreInv' /\ tile' = ts
    BY <2>1, <2>4, BecomeSound
  <2> QED BY <1>0, <2>2, <2>5, NoneIsNothing DEF IInv, StoreInv, Sound, HandInv, WriteRegion
<1> QED BY <1>1, <1>2, <1>3

\* Beginning a command frees what it captured, which nobody holds.
LEMMA BeginInv ==
  ASSUME IInv, Begin
  PROVE  IInv'
<1> DEFINE ts == [s \in Slot |-> IF s \in Place \ OnMap THEN None ELSE tile[s]]
<1>1. Sound(ts, pix)
  BY DEF IInv, StoreInv, Sound
<1>2. StoreInv' /\ tile' = ts
  BY <1>1, BecomeSound DEF Begin
<1>3. hand \in Slot => hand \notin Place \ OnMap
  BY TileStoreAssumption, NoneIsNothing DEF IInv, HandInv
<1> QED BY <1>2, <1>3 DEF IInv, HandInv, Begin

\* Capturing leaves the maps and what a writer holds alone.
LEMMA CapturedInv ==
  ASSUME IInv, NEW side \in {"before", "after"}, NEW coords \in SUBSET Coord,
         Become(Cloned(Target, side, coords), pix), hand' = hand, entries' \subseteq Coord
  PROVE  IInv'
<1>1. Sound(Cloned(Target, side, coords), pix)
  BY ClonedSound, TileStoreAssumption DEF IInv
<1>2. StoreInv' /\ tile' = Cloned(Target, side, coords)
  BY <1>1, BecomeSound
<1>3. \A s \in OnMap : s[1] # side
  BY TileStoreAssumption DEF OnMap
<1>4. hand \in Slot => tile'[hand] = tile[hand]
  BY <1>2, <1>3, NoneIsNothing DEF Cloned, IInv, HandInv
<1> QED BY <1>2, <1>4 DEF IInv, HandInv

\* Both captures are of this kind.
LEMMA CaptureInv ==
  ASSUME IInv, CaptureAfter \/ \E c \in Coord : CaptureBefore({c})
  PROVE  IInv'
<1>1. entries \subseteq Coord
  BY DEF IInv, HandInv
<1>2. ASSUME CaptureAfter PROVE IInv'
  BY <1>1, <1>2, CapturedInv DEF CaptureAfter
<1>3. ASSUME NEW c \in Coord, CaptureBefore({c}) PROVE IInv'
  BY <1>1, <1>3, CapturedInv DEF CaptureBefore
<1> QED BY <1>2, <1>3

\* Pixels go into buffers that are fresh or nobody else's, so that every tile
\* the command does not fill keeps its own.
LEMMA RestoreInv ==
  ASSUME IInv, NEW side \in {"before", "after"}, Restore(side)
  PROVE  IInv'
<1> DEFINE gone   == {<<Target, c>> : c \in {d \in entries : tile[<<side, d>>] = None}}
           filled == {<<Target, c>> : c \in entries} \ gone
           new    == {s \in filled : tile[s] = None \/ Shared(s)}
           fresh  == CHOOSE f \in FreshFor(new) : TRUE
           buf(s) == IF s \in new THEN fresh[s] ELSE tile[s].buf
           source(s) == <<side, s[2]>>
           owner(b)  == CHOOSE s \in filled : buf(s) = b
           copied == [b \in DOMAIN pix \cup {buf(s) : s \in filled} |->
                        IF \E s \in filled : buf(s) = b THEN Content(source(owner(b))) ELSE pix[b]]
           ts == [s \in Slot |->
                    IF s \in gone THEN None
                    ELSE IF s \in filled THEN [buf |-> buf(s), blank |-> "unknown"]
                    ELSE tile[s]]
<1>1. /\ FreshFor(new) # {}
      /\ Become(Kept(ts, gone), copied)
      /\ hand' = HandAfter(gone)
      /\ UNCHANGED entries
  BY DEF Restore
<1>2. /\ gone \in SUBSET OnMap /\ filled \subseteq OnMap
      /\ OnMap \subseteq Slot /\ Orphan \in Slot /\ Orphan \notin OnMap
  <2>1. OnMap \subseteq Slot /\ Orphan \in Slot /\ Orphan \notin OnMap
    BY TileStoreAssumption DEF OnMap, Slot, Place
  <2>2. \A c \in entries : <<Target, c>> \in OnMap
    BY TileStoreAssumption DEF IInv, HandInv, OnMap
  <2> QED BY <2>1, <2>2
<1>3. \A s \in new : fresh[s] \in Buffer /\ fresh[s] \notin DOMAIN pix
  BY <1>1 DEF FreshFor, Injection, Free
<1>4. \A s \in filled \ new : tile[s] # None /\ ~Shared(s) /\ tile[s] \in Tile
  BY <1>2 DEF IInv, StoreInv, Sound
<1>5. \A s \in filled : buf(s) \in Buffer
  BY <1>3, <1>4 DEF Tile
<1>6. \A s \in filled : Content(source(s)) \in Pixels
  <2> SUFFICES ASSUME NEW s \in filled PROVE Content(source(s)) \in Pixels
    OBVIOUS
  <2>1. source(s) \in Slot /\ tile[source(s)] # None
    BY DEF IInv, HandInv, Slot, Place
  <2> QED BY <2>1 DEF IInv, StoreInv, Sound, Content
<1>7. \A s \in filled : copied[buf(s)] \in Pixels
  BY <1>6
<1>8. \A t \in Slot \ filled : tile[t] # None => copied[tile[t].buf] = pix[tile[t].buf]
  <2> SUFFICES ASSUME NEW t \in Slot \ filled, tile[t] # None
               PROVE  copied[tile[t].buf] = pix[tile[t].buf]
    OBVIOUS
  <2>1. tile[t].buf \in DOMAIN pix
    BY DEF IInv, StoreInv, InUse
  <2>2. \A s \in new : buf(s) # tile[t].buf
    BY <1>3, <2>1
  <2>3. \A s \in filled \ new : buf(s) # tile[t].buf
    BY <1>2, <1>4 DEF Shared
  <2> QED BY <2>1, <2>2, <2>3
<1> HIDE DEF copied, buf, source, fresh, new
<1>9. Sound(ts, copied)
  <2>1. ts \in [Slot -> Tile \cup {None}]
    BY <1>5 DEF IInv, StoreInv, Sound, Tile
  <2>2. \A s \in filled : ts[s].buf = buf(s) /\ ts[s].blank = "unknown"
    BY <1>2
  <2>3. \A s \in Slot \ filled : ts[s] # None => ts[s] = tile[s]
    OBVIOUS
  <2> QED BY <1>7, <1>8, <2>1, <2>2, <2>3 DEF IInv, StoreInv, Sound
<1>10. hand \in gone => hand \in Slot /\ copied[tile[hand].buf] = Content(hand)
  <2> SUFFICES ASSUME hand \in gone PROVE hand \in Slot /\ copied[tile[hand].buf] = Content(hand)
    OBVIOUS
  <2>1. hand \in Slot /\ hand \notin filled
    BY <1>2
  <2>2. tile[hand] # None
    BY <2>1 DEF IInv, HandInv
  <2> QED BY <1>8, <2>1, <2>2 DEF Content
<1>11. Sound(Kept(ts, gone), copied)
  BY <1>9, <1>10, KeptSound DEF IInv
<1>12. StoreInv' /\ tile' = Kept(ts, gone)
  BY <1>1, <1>11, BecomeSound
<1>13. HandInv'
  <2>1. \A s \in OnMap \ gone : tile[s] # None => ts[s] # None
    <3>1. \A s \in filled : ts[s] \in Tile
      BY <1>2, <1>5 DEF Tile
    <3>2. \A s \in OnMap \ (gone \cup filled) : ts[s] = tile[s]
      BY <1>2
    <3> QED BY <3>1, <3>2, NoneIsNothing
  <2>2. ts[Orphan] = tile[Orphan]
    BY <1>2
  <2> QED BY <1>1, <1>2, <1>9, <1>12, <2>1, <2>2, HandKept DEF IInv, Sound
<1> QED BY <1>12, <1>13 DEF IInv

-----------------------------------------------------------------------------
(* The theorems.                                                            *)

\* Every step keeps the invariant: one case for each action.
LEMMA InvInductive == IInv /\ [Next]_vars => IInv'
<1> SUFFICES ASSUME IInv, [Next]_vars PROVE IInv'
  OBVIOUS
<1>1. ASSUME NEW s \in OnMap, Take(s) PROVE IInv'
  BY <1>1, TakeInv
<1>2. ASSUME NEW piece \in Pieces, Write(piece) PROVE IInv'
  BY <1>2, WriteInv
<1>3. CASE Drop
  BY <1>3, DropInv
<1>4. ASSUME NEW s \in Place, AskBlank(s) PROVE IInv'
  BY <1>4, AskBlankInv
<1>5. ASSUME NEW gone \in SUBSET OnMap, Erase(gone) PROVE IInv'
  BY <1>5, EraseInv
<1>6. ASSUME NEW m \in Map, NEW n \in Map, Snapshot(m, n) PROVE IInv'
  BY <1>6, SnapshotInv
<1>7. ASSUME NEW s \in OnMap, NEW piece \in Pieces, WriteRegion(s, piece) PROVE IInv'
  BY <1>7, WriteRegionInv
<1>8. CASE Begin
  BY <1>8, BeginInv
<1>9. CASE CaptureAfter \/ \E c \in Coord : CaptureBefore({c})
  BY <1>9, CaptureInv
<1>10. ASSUME NEW side \in {"before", "after"}, Restore(side) PROVE IInv'
  BY <1>10, RestoreInv
<1>11. CASE UNCHANGED vars
  BY <1>11 DEF vars, IInv, StoreInv, HandInv, Sound, InUse
<1>12. \A m \in Map : {m} \X Coord \in SUBSET OnMap
  BY DEF OnMap
<1> QED BY <1>1, <1>2, <1>3, <1>4, <1>5, <1>6, <1>7, <1>8, <1>9, <1>10, <1>11, <1>12 DEF Next

\* So it holds always.
LEMMA InvHolds == Spec => []IInv
BY InitInv, InvInductive, PTL DEF Spec

\* The tiles, the pool of buffers, the writer's hand and the undo command keep
\* their types for every number of maps, coordinates, pieces and buffers.
THEOREM TypeCorrect == Spec => []TypeOK
<1>1. CachedBlankIsTrue => TypeOK
  BY DEF CachedBlankIsTrue
<1> QED BY <1>1, InvHolds, IInvIsBoth, PTL

\* No cached isBlank() is ever wrong, whoever shares the buffer and through
\* whichever tile it was written last.
THEOREM CacheIsTrue == Spec => []CachedBlankIsTrue
BY InvHolds, IInvIsBoth, PTL

\* That buffers and caches are enough to compare two maps by rests on the caches.
LEMMA DiffFollows == IInv => DiffMissesNothing
<1> SUFFICES ASSUME IInv, NEW m \in Map, NEW n \in Map, NEW c \in Coord,
                    Seen(<<m, c>>) # Seen(<<n, c>>)
             PROVE  c \in Diff(m, n)
  BY DEF DiffMissesNothing
<1> DEFINE s == <<m, c>>
           t == <<n, c>>
<1>1. s \in Slot /\ t \in Slot
  BY DEF Slot, Place
<1> HIDE DEF s, t
<1>2. ~(tile[s] = None /\ tile[t] = None)
  BY DEF Seen, s, t
<1>3. \A u \in Slot : BlankAt(u) => Seen(u) = Blank
  BY DEF IInv, StoreInv, Sound, BlankAt, Seen, Content
<1>4. ~(BlankAt(s) /\ BlankAt(t))
  BY <1>1, <1>3 DEF s, t
<1>5. ~(tile[s] # None /\ tile[t] # None /\ tile[s].buf = tile[t].buf)
  BY DEF Seen, Content, s, t
<1>6. Changed(s, t)
  BY <1>4, <1>5 DEF Changed
<1> QED BY <1>2, <1>6 DEF Diff, AllTiles, s, t

\* snapshot.diff misses no tile two maps show differently.
THEOREM DiffIsComplete == Spec => []DiffMissesNothing
BY InvHolds, DiffFollows, PTL

-----------------------------------------------------------------------------
(* That sharing is invisible: a step of the store is a step of TileValues,  *)
(* or changes nothing there.                                                *)

\* What tiles ts over buffers p look like.
ValueOf(ts, p) == [s \in Place |-> IF ts[s] = None THEN None ELSE p[ts[s].buf]]

\* The mapping is what the tiles look like now.
LEMMA ValueIs == Value = ValueOf(tile, pix)
BY DEF Value, ValueOf, Content

\* Freeing buffers takes no pixels from a tile.
LEMMA ValueAfter ==
  ASSUME NEW ts, NEW p, Sound(ts, p), Become(ts, p)
  PROVE  Value' = ValueOf(ts, p)
<1>1. tile' = ts /\ pix' = Restrict(p, InUse(ts))
  BY DEF Become
<1>2. \A s \in Place : ts[s] # None => ts[s].buf \in InUse(ts)
  BY DEF InUse, Slot
<1> QED BY <1>1, <1>2 DEF Value, ValueOf, Content, Restrict

\* The same words mean the same in both modules.
LEMMA SameTerms ==
  /\ Values!Blank = Blank /\ Values!Place = Place /\ Values!OnMap = OnMap
  /\ \A px \in Pixels : \A piece : Values!Over(px, piece) = Over(px, piece)
  /\ \A piece : Values!Over(None, piece) = Over(Blank, piece)
BY NoneIsNothing DEF Values!Blank, Values!Place, Values!OnMap, Values!Over, Values!Seen, Blank, Place, OnMap, Over

\* No tiles, no pixels.
LEMMA InitImplements == Init => Values!Init
<1> SUFFICES ASSUME Init PROVE Values!Init
  OBVIOUS
<1>1. Value = [s \in Place |-> None]
  BY DEF Init, Value, Slot
<1>2. Held = None
  BY DEF Init, Held
<1> QED BY <1>1, <1>2, SameTerms DEF Init, Values!Init

\* An erased place shows nothing; a writer loses sight of its tile.
LEMMA EraseImplements ==
  ASSUME IInv, NEW gone \in SUBSET OnMap, Erase(gone)
  PROVE  Values!Erase(gone)
<1> DEFINE ts == [s \in Slot |-> IF s \in gone THEN None ELSE tile[s]]
<1>0. OnMap \subseteq Slot /\ OnMap \subseteq Place /\ Orphan \in Slot /\ Orphan \notin Place
  BY TileStoreAssumption DEF OnMap, Slot, Place
<1>1. Sound(ts, pix)
  BY DEF IInv, StoreInv, Sound
<1>2. Sound(Kept(ts, gone), pix)
  BY <1>0, <1>1, KeptSound DEF IInv, Content
<1>3. Value' = ValueOf(Kept(ts, gone), pix)
  BY <1>2, ValueAfter DEF Erase
<1>4. \A s \in Place : Kept(ts, gone)[s] = ts[s]
  BY <1>0 DEF Kept
<1>5. Value' = [s \in Place |-> IF s \in gone THEN None ELSE Value[s]]
  BY <1>3, <1>4 DEF ValueOf, Value, Content, Slot
<1>6. Held' = Values!StillHeld(gone)
  BY <1>0, NoneIsNothing DEF Erase, HandAfter, Held, Values!StillHeld, IInv, HandInv
<1> QED BY <1>5, <1>6, SameTerms DEF Erase, Values!Erase

\* Drawn over what a place shows.
LEMMA WrittenImplements ==
  ASSUME IInv, NEW s \in Slot, tile[s] # None, NEW px \in Pixels, Written(s, px)
  PROVE  Value' = [t \in Place |-> IF t = s THEN px ELSE Value[t]]
<1>1. CASE Shared(s)
  <2> DEFINE ts == [tile EXCEPT ![s] = [buf |-> Fresh, blank |-> "unknown"]]
  <2>1. Free # {} /\ Become(ts, With(Fresh, px))
    BY <1>1 DEF Written
  <2>2. [buf |-> Fresh, blank |-> "unknown"] \in Tile
    BY <2>1, FreshIsFree DEF Tile
  <2>3. Sound(ts, With(Fresh, px))
    BY <2>1, <2>2, WithFresh DEF IInv, StoreInv, Sound
  <2>4. Value' = ValueOf(ts, With(Fresh, px))
    BY <2>1, <2>3, ValueAfter
  <2>5. \A t \in Place : tile[t] # None => With(Fresh, px)[tile[t].buf] = Content(t)
    BY <2>1, FreshIsFree DEF IInv, StoreInv, InUse, With, Content, Slot
  <2>6. ts[s] # None /\ With(Fresh, px)[ts[s].buf] = px
    BY <2>1, <2>2, WithFresh, NoneIsNothing DEF IInv, StoreInv, Sound
  <2>7. \A t \in Place : t # s => ts[t] = tile[t]
    BY DEF IInv, StoreInv, Sound, Slot
  <2> QED BY <2>4, <2>5, <2>6, <2>7 DEF ValueOf, Value
<1>2. CASE ~Shared(s)
  <2> DEFINE ts == [tile EXCEPT ![s].blank = "unknown"]
             p  == With(tile[s].buf, px)
  <2>1. Become(ts, p)
    BY <1>2 DEF Written
  <2>2. tile[s] \in Tile /\ [tile[s] EXCEPT !.blank = "unknown"] \in Tile
    BY DEF IInv, StoreInv, Sound, Tile
  <2>3. /\ ts \in [Slot -> Tile \cup {None}]
        /\ ts[s] # None /\ ts[s].buf = tile[s].buf /\ ts[s].blank = "unknown"
    BY <2>2, NoneIsNothing DEF IInv, StoreInv, Sound, Tile
  <2>4. \A t \in Slot \ {s} : ts[t] = tile[t] /\ (tile[t] # None => tile[t].buf # tile[s].buf)
    BY <1>2 DEF IInv, StoreInv, Sound, Shared
  <2>5. \A t \in Slot : tile[t] # None => tile[t].buf \in DOMAIN pix
    BY DEF IInv, StoreInv, InUse
  <2>6. Sound(ts, p)
    BY <2>3, <2>4, <2>5 DEF IInv, StoreInv, Sound, With
  <2>7. Value' = ValueOf(ts, p)
    BY <2>1, <2>6, ValueAfter
  <2>8. p[tile[s].buf] = px /\ \A b \in DOMAIN pix : b # tile[s].buf => p[b] = pix[b]
    BY DEF With
  <2>9. \A t \in Place : t # s /\ tile[t] # None => p[ts[t].buf] = Content(t)
    BY <2>4, <2>5, <2>8 DEF Content, Slot
  <2> HIDE DEF ts, p
  <2> QED BY <2>3, <2>4, <2>7, <2>8, <2>9 DEF ValueOf, Value, Slot
<1> QED BY <1>1, <1>2

\* A new tile shows what its buffer is filled with.
LEMMA NewImplements ==
  ASSUME IInv, NEW s \in OnMap, Free # {}, NEW px \in Pixels, NEW new \in Tile,
         new.buf = Fresh, new.blank # "unknown" => (new.blank = "yes" <=> px = Blank),
         Become([tile EXCEPT ![s] = new], With(Fresh, px))
  PROVE  Value' = [t \in Place |-> IF t = s THEN px ELSE Value[t]]
<1> DEFINE ts == [tile EXCEPT ![s] = new]
<1>0. s \in Slot /\ s \in Place
  BY DEF OnMap, Slot, Place
<1>1. Sound(ts, With(Fresh, px))
  BY <1>0, WithFresh DEF IInv, StoreInv, Sound
<1>2. Value' = ValueOf(ts, With(Fresh, px))
  BY <1>1, ValueAfter
<1>3. \A t \in Place : tile[t] # None => With(Fresh, px)[tile[t].buf] = Content(t)
  BY FreshIsFree DEF IInv, StoreInv, InUse, With, Content, Slot
<1>4. ts[s] # None /\ With(Fresh, px)[ts[s].buf] = px
  BY <1>0, WithFresh, NoneIsNothing DEF IInv, StoreInv, Sound
<1>5. \A t \in Place : t # s => ts[t] = tile[t]
  BY DEF IInv, StoreInv, Sound, Slot
<1> QED BY <1>2, <1>3, <1>4, <1>5 DEF ValueOf, Value

\* A place taken for writing shows what it showed, or transparent ink.
LEMMA TakeImplements ==
  ASSUME IInv, NEW s \in OnMap, Take(s)
  PROVE  Values!Take(s)
<1>0. s \in Slot /\ s \in Place /\ s # Orphan
  BY TileStoreAssumption DEF OnMap, Slot, Place
<1>1. Held' = s
  BY <1>0 DEF Take, Held
<1>2. CASE tile[s] # None
  <2>1. Value' = Value
    BY <1>2 DEF Take, Value, Content
  <2>2. Value[s] # None
    BY <1>0, <1>2, NoneIsNothing DEF IInv, StoreInv, Sound, Value, Content
  <2> QED BY <1>0, <1>1, <2>1, <2>2 DEF Take, Values!Take, Values!Seen, Value
<1>3. CASE tile[s] = None
  <2>1. Free # {} /\ Become([tile EXCEPT ![s] = NewTile], With(Fresh, Blank))
    BY <1>3 DEF Take
  <2>2. NewTile \in Tile /\ NewTile.buf = Fresh /\ NewTile.blank = "yes"
    BY <2>1, FreshIsFree DEF NewTile, Tile
  <2>3. Value' = [t \in Place |-> IF t = s THEN Blank ELSE Value[t]]
    BY <2>1, <2>2, BlankIsPixels, NewImplements
  <2>4. Values!Seen(Value[s]) = Blank
    BY <1>0, <1>3, SameTerms DEF Value, Values!Seen
  <2> QED BY <1>0, <1>1, <2>3, <2>4 DEF Take, Values!Take, Value
<1> QED BY <1>2, <1>3

\* Written through the tile in the hand; nobody sees it if that has left its map.
LEMMA WriteImplements ==
  ASSUME IInv, NEW piece \in Pieces, Write(piece)
  PROVE  Values!Write(piece) \/ UNCHANGED <<Value, Held, entries>>
<1>1. hand \in Slot /\ tile[hand] # None /\ (hand # Orphan => hand \in Place)
  BY DEF IInv, HandInv, Write, OnMap, Slot, Place
<1>2. Content(hand) \in Pixels
  BY <1>1 DEF IInv, StoreInv, Sound, Content
<1> DEFINE px == Over(Content(hand), piece)
<1>3. px \in Pixels
  BY <1>2, OverIsPixels
<1>4. Value' = [t \in Place |-> IF t = hand THEN px ELSE Value[t]]
  BY <1>1, <1>3, WrittenImplements DEF Write
<1>5. Held' = Held /\ entries' = entries
  BY DEF Write, Held
<1>6. CASE hand = Orphan
  <2>1. Value' = Value
    BY <1>4, <1>6, TileStoreAssumption DEF Value
  <2> QED BY <1>5, <2>1
<1>7. CASE hand # Orphan
  <2>1. Held = hand /\ hand # None /\ Value[hand] = Content(hand)
    BY <1>1, <1>7 DEF Held, Value, Write
  <2>2. Values!Over(Value[hand], piece) = px
    BY <1>2, <2>1, SameTerms
  <2>3. Value' = [Value EXCEPT ![Held] = Values!Over(Value[Held], piece)]
    BY <1>1, <1>4, <1>7, <2>1, <2>2 DEF Value
  <2> QED BY <1>5, <2>1, <2>3 DEF Values!Write
<1> QED BY <1>6, <1>7

\* What nobody sees is freed.
LEMMA DropImplements ==
  ASSUME IInv, Drop
  PROVE  Values!Drop
<1>1. Sound([tile EXCEPT ![Orphan] = None], pix)
  BY NoneIsNothing DEF IInv, StoreInv, Sound
<1>2. Value' = ValueOf([tile EXCEPT ![Orphan] = None], pix)
  BY <1>1, ValueAfter DEF Drop
<1>3. \A s \in Place : s \in Slot /\ s # Orphan
  BY TileStoreAssumption DEF Slot
<1>4. Value' = Value
  BY <1>2, <1>3 DEF ValueOf, Value, Content, IInv, StoreInv, Sound
<1>5. None # Orphan
  BY NoneIsNothing DEF Slot
<1> QED BY <1>4, <1>5 DEF Drop, Held, Values!Drop

\* The cache is nothing TileValues knows of.
LEMMA AskBlankImplements ==
  ASSUME IInv, NEW s \in Place, AskBlank(s)
  PROVE  UNCHANGED <<Value, Held, entries>>
<1>1. s \in Slot /\ tile[s] \in Tile
  BY DEF Slot, AskBlank, IInv, StoreInv, Sound
<1>2. /\ \A t \in Slot : tile'[t] = None <=> tile[t] = None
      /\ \A t \in Slot : tile[t] # None => tile'[t].buf = tile[t].buf
      /\ pix' = pix
  BY <1>1, NoneIsNothing DEF AskBlank, IInv, StoreInv, Sound, Tile
<1>3. Value' = Value
  BY <1>2 DEF Value, Content, Slot
<1> QED BY <1>3 DEF AskBlank, Held

\* The copy shows what the original shows.
LEMMA SnapshotImplements ==
  ASSUME IInv, NEW m \in Map, NEW n \in Map, Snapshot(m, n)
  PROVE  Values!Snapshot(m, n)
<1> DEFINE ts == Cloned(m, n, Coord)
           gone == {n} \X Coord
<1>0. /\ gone \in SUBSET OnMap /\ OnMap \subseteq Slot /\ Orphan \in Slot
      /\ Orphan \notin Place /\ OnMap \subseteq Place
  BY TileStoreAssumption DEF OnMap, Slot, Place
<1>1. Sound(ts, pix)
  BY ClonedSound DEF IInv
<1>2. Sound(Kept(ts, gone), pix)
  BY <1>0, <1>1, KeptSound DEF IInv, Content
<1>3. Value' = ValueOf(Kept(ts, gone), pix)
  BY <1>2, ValueAfter DEF Snapshot
<1>4. \A s \in Place : Kept(ts, gone)[s] = ts[s]
  BY <1>0 DEF Kept
<1>5. Value' = Values!Moved(m, n, Coord)
  <2>1. \A s \in Place : s \in Slot /\ s # Orphan /\ <<m, s[2]>> \in Place
    BY <1>0 DEF Slot, Place
  <2>2. \A s \in Place : ts[s] = IF s[1] = n /\ s[2] \in Coord THEN tile[<<m, s[2]>>] ELSE tile[s]
    BY <2>1 DEF Cloned
  <2>3. Values!Moved(m, n, Coord) =
          [s \in Place |-> IF s[1] = n /\ s[2] \in Coord THEN Value[<<m, s[2]>>] ELSE Value[s]]
    BY SameTerms DEF Values!Moved
  <2>4. Value' = [s \in Place |-> IF ts[s] = None THEN None ELSE pix[ts[s].buf]]
    BY <1>3, <1>4 DEF ValueOf
  <2>5. \A s \in Place : Value[s] = IF tile[s] = None THEN None ELSE pix[tile[s].buf]
    BY DEF Value, Content
  <2> HIDE DEF ts
  <2> QED BY <2>1, <2>2, <2>3, <2>4, <2>5
<1>6. Held' = Values!StillHeld(gone)
  BY <1>0, NoneIsNothing DEF Snapshot, HandAfter, Held, Values!StillHeld, IInv, HandInv
<1> QED BY <1>5, <1>6 DEF Snapshot, Values!Snapshot

\* The piece is drawn over, or is transparent and meets nothing.
LEMMA WriteRegionImplements ==
  ASSUME IInv, NEW s \in OnMap, NEW piece \in Pieces, WriteRegion(s, piece)
  PROVE  Values!WriteRegion(s, piece)
<1>0. s \in Slot /\ s \in Place
  BY DEF OnMap, Slot, Place
<1>1. Held' = Held /\ entries' = entries
  BY DEF WriteRegion, Held
<1>2. CASE tile[s] # None
  <2>1. Content(s) \in Pixels
    BY <1>0, <1>2 DEF IInv, StoreInv, Sound, Content
  <2>2. Value' = [t \in Place |-> IF t = s THEN Over(Content(s), piece) ELSE Value[t]]
    BY <1>0, <1>2, <2>1, OverIsPixels, WrittenImplements DEF WriteRegion
  <2>3. Value[s] = Content(s) /\ Values!Over(Value[s], piece) = Over(Content(s), piece)
    BY <1>0, <1>2, <2>1, SameTerms DEF Value
  <2>4. Value' = [Value EXCEPT ![s] = Values!Over(Value[s], piece)]
    BY <1>0, <2>2, <2>3 DEF Value
  <2> QED BY <1>1, <2>4 DEF Values!WriteRegion
<1>3. CASE tile[s] = None /\ \A q \in DOMAIN piece : piece[q] = Transparent
  <2>1. Value' = Value
    BY <1>3 DEF WriteRegion, Value, Content
  <2>2. Value[s] = None
    BY <1>0, <1>3 DEF Value
  <2>3. Values!Over(None, piece) = Values!Blank
    BY <1>3, SameTerms DEF Over, Blank
  <2> QED BY <1>1, <2>1, <2>2, <2>3 DEF Values!WriteRegion
<1>4. CASE tile[s] = None /\ ~ \A q \in DOMAIN piece : piece[q] = Transparent
  <2> DEFINE new == [NewTile EXCEPT !.blank = "unknown"]
             px  == Over(Blank, piece)
  <2>1. Free # {} /\ Become([tile EXCEPT ![s] = new], With(Fresh, px))
    BY <1>4 DEF WriteRegion
  <2>2. new \in Tile /\ new.buf = Fresh /\ new.blank = "unknown"
    BY <2>1, FreshIsFree DEF NewTile, Tile
  <2>3. px \in Pixels
    BY BlankIsPixels, OverIsPixels
  <2> HIDE DEF new, px
  <2>4. Value' = [t \in Place |-> IF t = s THEN px ELSE Value[t]]
    BY <2>1, <2>2, <2>3, NewImplements
  <2>5. Value[s] = None /\ Values!Over(Value[s], piece) = px
    BY <1>0, <1>4, SameTerms DEF Value, px
  <2>6. Value' = [Value EXCEPT ![s] = Values!Over(Value[s], piece)]
    BY <1>0, <2>4, <2>5 DEF Value
  <2> QED BY <1>1, <2>6 DEF Values!WriteRegion
<1> QED BY <1>2, <1>3, <1>4

\* Both sides of the command show nothing.
LEMMA BeginImplements ==
  ASSUME IInv, Begin
  PROVE  Values!Begin
<1> DEFINE ts == [s \in Slot |-> IF s \in Place \ OnMap THEN None ELSE tile[s]]
<1>1. Sound(ts, pix)
  BY DEF IInv, StoreInv, Sound
<1>2. Value' = ValueOf(ts, pix)
  BY <1>1, ValueAfter DEF Begin
<1>3. \A s \in Place : s \in Slot /\ (s \in Place \ OnMap <=> s[1] \notin Map)
  BY DEF Slot, Place, OnMap
<1>4. Value' = [s \in Place |-> IF s[1] \in Map THEN Value[s] ELSE None]
  BY <1>2, <1>3 DEF ValueOf, Value, Content
<1>5. Held' = Held
  BY DEF Begin, Held
<1> QED BY <1>4, <1>5, SameTerms DEF Begin, Values!Begin

\* What is captured shows what the map shows.
LEMMA CapturedImplements ==
  ASSUME IInv, NEW side \in {"before", "after"}, NEW coords \in SUBSET Coord,
         Become(Cloned(Target, side, coords), pix)
  PROVE  Value' = Values!Moved(Target, side, coords)
<1> DEFINE ts == Cloned(Target, side, coords)
<1>1. Sound(ts, pix)
  BY ClonedSound, TileStoreAssumption DEF IInv
<1>2. Value' = ValueOf(ts, pix)
  BY <1>1, ValueAfter
<1>3. \A s \in Place : s \in Slot /\ s # Orphan /\ <<Target, s[2]>> \in Place
  BY TileStoreAssumption DEF Slot, Place
<1>4. \A s \in Place :
        ts[s] = IF s[1] = side /\ s[2] \in coords THEN tile[<<Target, s[2]>>] ELSE tile[s]
  BY <1>3 DEF Cloned
<1> QED BY <1>2, <1>3, <1>4, SameTerms DEF ValueOf, Value, Content, Values!Moved

\* The same for the command's entries, after the change.
LEMMA CaptureAfterImplements ==
  ASSUME IInv, CaptureAfter
  PROVE  Values!CaptureAfter
<1>1. entries \subseteq Coord
  BY DEF IInv, HandInv
<1>2. Value' = Values!Moved(Target, "after", entries)
  BY <1>1, CapturedImplements DEF CaptureAfter
<1> QED BY <1>2 DEF CaptureAfter, Values!CaptureAfter, Held

\* The same for a coordinate not captured yet, before it.
LEMMA CaptureBeforeImplements ==
  ASSUME IInv, NEW c \in Coord, CaptureBefore({c})
  PROVE  Values!CaptureBefore({c})
<1>1. {c} \ entries \in SUBSET Coord
  OBVIOUS
<1>2. Value' = Values!Moved(Target, "before", {c} \ entries)
  BY <1>1, CapturedImplements DEF CaptureBefore
<1> QED BY <1>2 DEF CaptureBefore, Values!CaptureBefore, Held

\* Every place the command fills gets a buffer that is no other place's, which
\* is why the pixels copied for one of them are never another's.
LEMMA RestoreImplements ==
  ASSUME IInv, NEW side \in {"before", "after"}, Restore(side)
  PROVE  Values!Restore(side)
<1> DEFINE gone   == {<<Target, c>> : c \in {d \in entries : tile[<<side, d>>] = None}}
           filled == {<<Target, c>> : c \in entries} \ gone
           new    == {s \in filled : tile[s] = None \/ Shared(s)}
           fresh  == CHOOSE f \in FreshFor(new) : TRUE
           buf(s) == IF s \in new THEN fresh[s] ELSE tile[s].buf
           source(s) == <<side, s[2]>>
           owner(b)  == CHOOSE s \in filled : buf(s) = b
           copied == [b \in DOMAIN pix \cup {buf(s) : s \in filled} |->
                        IF \E s \in filled : buf(s) = b THEN Content(source(owner(b))) ELSE pix[b]]
           ts == [s \in Slot |->
                    IF s \in gone THEN None
                    ELSE IF s \in filled THEN [buf |-> buf(s), blank |-> "unknown"]
                    ELSE tile[s]]
<1>1. /\ FreshFor(new) # {}
      /\ Become(Kept(ts, gone), copied)
      /\ hand' = HandAfter(gone)
      /\ UNCHANGED entries
  BY DEF Restore
<1>2. /\ gone \in SUBSET OnMap /\ filled \subseteq OnMap
      /\ OnMap \subseteq Slot /\ OnMap \subseteq Place
      /\ Orphan \in Slot /\ Orphan \notin Place
  <2>1. OnMap \subseteq Slot /\ OnMap \subseteq Place /\ Orphan \in Slot /\ Orphan \notin Place
    BY TileStoreAssumption DEF OnMap, Slot, Place
  <2>2. \A c \in entries : <<Target, c>> \in OnMap
    BY TileStoreAssumption DEF IInv, HandInv, OnMap
  <2> QED BY <2>1, <2>2
<1>3. /\ \A s \in new : fresh[s] \in Buffer /\ fresh[s] \notin DOMAIN pix
      /\ \A s, t \in new : fresh[s] = fresh[t] => s = t
  BY <1>1 DEF FreshFor, Injection, IsInjective, Free
<1>4. \A s \in filled \ new : tile[s] # None /\ ~Shared(s) /\ tile[s].buf \in DOMAIN pix
  BY <1>2 DEF IInv, StoreInv, InUse
<1>5. \A s, t \in filled : buf(s) = buf(t) => s = t
  <2> SUFFICES ASSUME NEW s \in filled, NEW t \in filled, buf(s) = buf(t) PROVE s = t
    OBVIOUS
  <2>1. CASE s \in new /\ t \in new
    BY <1>3, <2>1
  <2>2. CASE s \notin new /\ t \notin new
    BY <1>2, <1>4, <2>2 DEF Shared
  <2>3. CASE ~(s \in new <=> t \in new)
    BY <1>3, <1>4, <2>3
  <2> QED BY <2>1, <2>2, <2>3
<1>6. \A s \in filled : copied[buf(s)] = Content(source(s))
  <2> SUFFICES ASSUME NEW s \in filled PROVE copied[buf(s)] = Content(source(s))
    OBVIOUS
  <2> HIDE DEF buf, filled, source
  <2>1. owner(buf(s)) = s
    BY <1>5
  <2> QED BY <2>1
<1>7. \A t \in Slot \ filled : tile[t] # None => copied[tile[t].buf] = Content(t)
  <2> SUFFICES ASSUME NEW t \in Slot \ filled, tile[t] # None
               PROVE  copied[tile[t].buf] = Content(t)
    OBVIOUS
  <2>1. tile[t].buf \in DOMAIN pix
    BY DEF IInv, StoreInv, InUse
  <2>2. \A s \in new : buf(s) # tile[t].buf
    BY <1>3, <2>1
  <2>3. \A s \in filled \ new : buf(s) # tile[t].buf
    BY <1>2, <1>4 DEF Shared
  <2> QED BY <2>1, <2>2, <2>3 DEF Content
<1>8. \A s \in Place : Kept(ts, gone)[s] = ts[s]
  <2> HIDE DEF gone, ts
  <2> QED BY <1>2 DEF Kept
<1>9. Value' = ValueOf(Kept(ts, gone), copied)
  <2> HIDE DEF copied, ts, gone
  <2>1. \A s \in Place : tile'[s] # None => tile'[s].buf \in InUse(tile')
    BY DEF InUse, Slot
  <2> QED BY <1>1, <2>1 DEF Become, Value, ValueOf, Content, Restrict
<1>10. \A s \in filled : buf(s) \in Buffer
  BY <1>2, <1>3 DEF IInv, StoreInv, Sound, Tile
<1> DEFINE back(s) == IF s \in gone THEN None
                      ELSE IF s \in filled THEN Content(source(s))
                      ELSE Value[s]
<1>11. Value' = [s \in Place |-> back(s)]
  <2> HIDE DEF copied, buf, source, gone, filled
  <2>1. \A s \in Place : s \in Slot
    BY DEF Slot
  <2>2. \A s \in filled \ gone : /\ ts[s] = [buf |-> buf(s), blank |-> "unknown"]
                                 /\ ts[s] \in Tile
    BY <1>2, <1>10 DEF Tile
  <2>3. \A s \in filled \ gone : ts[s] # None /\ ts[s].buf = buf(s)
    <3> SUFFICES ASSUME NEW s \in filled \ gone PROVE ts[s] # None /\ ts[s].buf = buf(s)
      OBVIOUS
    <3>1. ts[s] = [buf |-> buf(s), blank |-> "unknown"] /\ ts[s] \in Tile
      BY <2>2
    <3> HIDE DEF ts
    <3>2. ts[s].buf = buf(s)
      BY <3>1
    <3> QED BY <3>1, <3>2, NoneIsNothing
  <2>4. \A s \in Place \ (gone \cup filled) : ts[s] = tile[s]
    BY <2>1
  <2>5. \A s \in Place \ filled : Value[s] = IF tile[s] = None THEN None ELSE copied[tile[s].buf]
    BY <1>7, <2>1 DEF Value
  <2>6. \A s \in gone \cap Place : ts[s] = None
    BY <2>1
  <2> HIDE DEF ts
  <2>7. Value' = [s \in Place |-> IF ts[s] = None THEN None ELSE copied[ts[s].buf]]
    BY <1>8, <1>9 DEF ValueOf
  <2> QED BY <1>6, <2>3, <2>4, <2>5, <2>6, <2>7
<1> HIDE DEF copied, buf, fresh, new, ts, owner
<1>12. \A c \in entries : <<side, c>> \in Place /\ <<Target, c>> \in Place /\ c \in Coord
  BY TileStoreAssumption DEF IInv, HandInv, Place
<1>13. \A c \in entries : tile[<<side, c>>] = None <=> Value[<<side, c>>] = None
  BY <1>12, NoneIsNothing DEF IInv, StoreInv, Sound, Value, Content, Slot
<1>14. \A s \in Place : back(s) = IF s[1] = Target /\ s[2] \in entries THEN Value[source(s)] ELSE Value[s]
  <2> SUFFICES ASSUME NEW s \in Place
               PROVE  back(s) = IF s[1] = Target /\ s[2] \in entries THEN Value[source(s)] ELSE Value[s]
    OBVIOUS
  <2>0. \A u \in gone \cup filled : u[1] = Target /\ u[2] \in entries
    <3> SUFFICES ASSUME NEW u \in gone \cup filled PROVE u[1] = Target /\ u[2] \in entries
      OBVIOUS
    <3>1. PICK c \in entries : u = <<Target, c>>
      OBVIOUS
    <3> QED BY <3>1
  <2>1. CASE s[1] = Target /\ s[2] \in entries
    <3>1. s = <<Target, s[2]>> /\ source(s) \in Place
      BY <1>12, <2>1 DEF Place
    <3>2. s \in gone <=> tile[source(s)] = None
      <4>1. ASSUME s \in gone PROVE tile[source(s)] = None
        <5>1. PICK c \in entries : s = <<Target, c>> /\ tile[<<side, c>>] = None
          BY <4>1
        <5> QED BY <5>1
      <4>2. ASSUME tile[source(s)] = None PROVE s \in gone
        BY <2>1, <3>1, <4>2
      <4> QED BY <4>1, <4>2
    <3>3. s \in filled <=> s \notin gone
      BY <2>1, <3>1
    <3>4. Value[source(s)] = IF tile[source(s)] = None THEN None ELSE Content(source(s))
      BY <3>1 DEF Value
    <3> HIDE DEF gone, filled, source
    <3> QED BY <2>1, <3>2, <3>3, <3>4
  <2>2. CASE ~(s[1] = Target /\ s[2] \in entries)
    <3>1. s \notin gone /\ s \notin filled
      <4> HIDE DEF gone, filled
      <4> QED BY <2>0, <2>2
    <3> HIDE DEF gone, filled
    <3> QED BY <2>2, <3>1
  <2> QED BY <2>1, <2>2
<1>15. Value' = Values!Moved(side, Target, entries)
  <2> HIDE DEF back
  <2> QED BY <1>11, <1>14, SameTerms DEF Values!Moved
<1>16. gone = {<<Target, c>> : c \in {d \in entries : Value[<<side, d>>] = None}}
  BY <1>13
<1>17. Held' = Values!StillHeld(gone)
  <2> HIDE DEF gone
  <2> QED BY <1>1, <1>2, NoneIsNothing DEF HandAfter, Held, Values!StillHeld, IInv, HandInv
<1> HIDE DEF gone
<1> QED BY <1>1, <1>15, <1>16, <1>17 DEF Values!Restore

\* Every step of the store is one of TileValues, or a stutter there.
LEMMA StepImplements ==
  ASSUME IInv, [Next]_vars
  PROVE  [Values!Next]_(Values!vars)
<1> USE SameTerms
<1>1. ASSUME NEW s \in OnMap, Take(s) PROVE Values!Next
  BY <1>1, TakeImplements DEF Values!Next
<1>2. ASSUME NEW piece \in Pieces, Write(piece) PROVE [Values!Next]_(Values!vars)
  BY <1>2, WriteImplements DEF Values!Next, Values!vars, Pieces
<1>3. CASE Drop
  BY <1>3, DropImplements DEF Values!Next
<1>4. ASSUME NEW s \in Place, AskBlank(s) PROVE UNCHANGED Values!vars
  BY <1>4, AskBlankImplements DEF Values!vars
<1>5. ASSUME NEW gone \in SUBSET OnMap, Erase(gone) PROVE Values!Next
  BY <1>5, EraseImplements DEF Values!Next
<1>6. ASSUME NEW m \in Map, NEW n \in Map, m # n, Snapshot(m, n) PROVE Values!Next
  BY <1>6, SnapshotImplements DEF Values!Next
<1>7. ASSUME NEW s \in OnMap, NEW piece \in Pieces, WriteRegion(s, piece) PROVE Values!Next
  BY <1>7, WriteRegionImplements DEF Values!Next, Pieces
<1>8. CASE Begin
  BY <1>8, BeginImplements DEF Values!Next
<1>9. CASE CaptureAfter
  BY <1>9, CaptureAfterImplements DEF Values!Next
<1>10. ASSUME NEW c \in Coord, CaptureBefore({c}) PROVE Values!Next
  BY <1>10, CaptureBeforeImplements DEF Values!Next
<1>11. ASSUME NEW side \in {"before", "after"}, Restore(side) PROVE Values!Next
  BY <1>11, RestoreImplements DEF Values!Next
<1>12. CASE UNCHANGED vars
  BY <1>12 DEF vars, Values!vars, Value, Held, Content
<1>13. \A m \in Map : {m} \X Coord \in SUBSET OnMap
  BY DEF OnMap
<1> QED BY <1>1, <1>2, <1>3, <1>4, <1>5, <1>6, <1>7, <1>8, <1>9, <1>10, <1>11, <1>12, <1>13 DEF Next

\* Copy on write cannot be seen: tiles that share buffers implement places that
\* each have pixels of their own.
THEOREM SharingCannotBeSeen == Spec => SharingIsInvisible
BY InvHolds, InitImplements, StepImplements, PTL DEF Spec, SharingIsInvisible, Values!Spec
=============================================================================
