----------------------------- MODULE LayerTree ------------------------------
(***************************************************************************)
(* The layer tree (core/src/layer.cpp) and its O(1) snapshots              *)
(* (agent/src/snapshot.cpp) as values: what each operation makes of a      *)
(* tree, or that it refuses.                                               *)
(*                                                                         *)
(* A layer is its id.  kids[0] is roots_, kids[g] the children_ vector of  *)
(* group g, which a group keeps when it is taken out of the tree; index    *)
(* and parent are index_ and parents_, which know the layers of the tree   *)
(* only.  name, locked and pix stand for a layer's properties and pixels:  *)
(* a layer that is removed keeps them too, as whoever holds it sees.       *)
(***************************************************************************)
EXTENDS Naturals, Sequences, SequencesExt, FiniteSets

CONSTANTS
  MaxId,   \* bound: layer ids handed out
  Name,    \* layer names
  Pix      \* what the pixels of a layer may be

ASSUME LayerTreeAssumption == MaxId \in Nat \ {0}

Id   == 1..MaxId
Root == 0   \* kInvalidLayerId, as a parent
NoId == 0   \* kInvalidLayerId, as a layer

Tree == [kids : [0..MaxId -> Seq(Id)], index : SUBSET Id, parent : [Id -> 0..MaxId],
         kind : [Id -> {"raster", "group"}], name : [Id -> Name], locked : [Id -> BOOLEAN],
         pix : [Id -> Pix], active : 0..MaxId, next : 1..(MaxId + 1)]

\* What an operation does: a refusal leaves the tree as it was.
Done(t)    == [ok |-> TRUE, tree |-> t]
Refused(t) == [ok |-> FALSE, tree |-> t]

-----------------------------------------------------------------------------
(* Reading the tree.                                                        *)

Kids(t, p)   == ToSet(t.kids[p])
IsGroup(t, p) == p = Root \/ (p \in t.index /\ t.kind[p] = "group")

\* indexOf: the place among the siblings, from 0.
IndexOf(t, id) == LET list == t.kids[t.parent[id]] IN (CHOOSE k \in DOMAIN list : list[k] = id) - 1

\* The layers below p in the order of the children vectors, parents first.
Walk(t, p) ==
  LET below[d \in 0..MaxId, i \in 0..MaxId] ==
        IF d = 0 \/ t.kids[i] = <<>> THEN <<>>
        ELSE FlattenSeq([k \in DOMAIN t.kids[i] |-> <<t.kids[i][k]>> \o below[d - 1, t.kids[i][k]]])
  IN  below[MaxId, p]

Below(t, p) == ToSet(Walk(t, p))

\* isDescendant, along parents_.
IsDescendant(t, candidate, ancestor) ==
  LET above[d \in 0..MaxId] ==
        IF d = 0 THEN {candidate}
        ELSE above[d - 1] \cup {t.parent[i] : i \in above[d - 1] \ {Root}}
  IN  ancestor \in {t.parent[i] : i \in above[MaxId] \ {Root}}

-----------------------------------------------------------------------------
(* LayerTreeImpl.                                                           *)

\* clampIndex: out of range is on top.
Clamp(at, list) == IF at > Len(list) THEN Len(list) ELSE at

Inserted(list, at, id) == InsertAt(list, Clamp(at, list) + 1, id)

\* indexRecursive: a group comes with whatever its children vector holds.
Indexed(t, id, p) ==
  LET all == {id} \cup Below(t, id)
  IN  [t EXCEPT !.index = @ \cup all,
                !.parent = [i \in Id |->
                   IF i = id THEN p
                   ELSE IF i \in all THEN CHOOSE g \in all : i \in Kids(t, g)
                   ELSE @[i]]]

\* unindexRecursive.
Unindexed(t, id) ==
  LET gone == {id} \cup Below(t, id)
  IN  [t EXCEPT !.index = @ \ gone,
                !.parent = [i \in Id |-> IF i \in gone THEN Root ELSE @[i]],
                !.active = IF @ \in gone THEN NoId ELSE @]

\* insert: the first raster layer becomes the active one when there is none.
Insert(t, id, p, at) ==
  IF ~IsGroup(t, p) THEN Refused(t)
  ELSE LET u == Indexed(t, id, p)
       IN  Done([u EXCEPT !.kids[p] = Inserted(@, at, id),
                          !.active = IF @ = NoId /\ u.kind[id] = "raster" THEN id ELSE @])

\* A new layer: nobody locked it and nothing is painted on it.
Created(t, kind, name) ==
  [t EXCEPT !.kind[t.next] = kind, !.name[t.next] = name, !.locked[t.next] = FALSE,
            !.pix[t.next] = CHOOSE x \in Pix : \A y \in Pix : x <= y, !.next = @ + 1]

\* addRaster and addGroup: the id is used up even if the parent is refused.
Add(t, kind, name, p, at) ==
  Insert(Created(t, kind, name), t.next, p, at)

SetActive(t, id) == IF id \in t.index THEN Done([t EXCEPT !.active = id]) ELSE Refused(t)

RemoveLayer(t, id) ==
  IF id \notin t.index \/ id \notin Kids(t, t.parent[id]) THEN Refused(t)
  ELSE Done(Unindexed([t EXCEPT !.kids[t.parent[id]] = Remove(@, id)], id))

\* Mutant: a group may be moved below itself.
MoveAnywhere(t, id, p, at) ==
  IF id \notin t.index \/ id = p \/ ~IsGroup(t, p) \/ id \notin Kids(t, t.parent[id])
  THEN Refused(t)
  ELSE LET u == [t EXCEPT !.kids[t.parent[id]] = Remove(@, id),
                          !.parent[id] = p]
       IN  Done([u EXCEPT !.kids[p] = Inserted(@, at, id)])

Move(t, id, p, at) ==
  IF \/ id \notin t.index
     \/ id = p
     \/ ~IsGroup(t, p)
     \/ p # Root /\ IsDescendant(t, p, id)
     \/ id \notin Kids(t, t.parent[id])
  THEN Refused(t)
  ELSE LET u == [t EXCEPT !.kids[t.parent[id]] = Remove(@, id),
                          !.parent[id] = p]
       IN  Done([u EXCEPT !.kids[p] = Inserted(@, at, id)])

\* duplicateLayer: ids for the layer and all below it in the order of the walk,
\* and the copy, which is named, above the original.
Duplicate(t, id, name) ==
  IF id \notin t.index THEN Refused(t)
  ELSE LET old  == <<id>> \o Walk(t, id)
           copy == [i \in ToSet(old) |-> t.next - 1 + CHOOSE k \in DOMAIN old : old[k] = i]
           orig == [c \in {copy[i] : i \in ToSet(old)} |-> CHOOSE i \in ToSet(old) : copy[i] = c]
           like(f) == [i \in Id |-> IF i \in DOMAIN orig THEN f[orig[i]] ELSE f[i]]
       IN  Insert([t EXCEPT !.kind = like(@), !.name = [like(@) EXCEPT ![t.next] = name],
                     !.locked = like(@), !.pix = like(@),
                     !.kids = [i \in 0..MaxId |->
                        IF i \in DOMAIN orig
                        THEN [k \in DOMAIN @[orig[i]] |-> copy[@[orig[i]][k]]] ELSE @[i]],
                     !.next = @ + Len(old)],
                  t.next, t.parent[id], IndexOf(t, id) + 1)

\* reattachLayer: a layer that was removed, under the id it had.
Reattach(t, id, p, at) == IF id \in t.index THEN Refused(t) ELSE Insert(t, id, p, at)

-----------------------------------------------------------------------------
(* Snapshots.                                                               *)

\* collectNodes and takeSnapshot.
Node(t, id) ==
  [id |-> id, parent |-> t.parent[id], at |-> IndexOf(t, id),
   name |-> t.name[id], locked |-> t.locked[id], pix |-> t.pix[id]]
Taken(t) == LET walk == Walk(t, Root)
            IN  [nodes |-> [k \in DOMAIN walk |-> Node(t, walk[k])], active |-> t.active]

Wanted(snap) == {snap.nodes[k].id : k \in DOMAIN snap.nodes}

\* The layers the snapshot does not know go first; one may be gone already,
\* with its group.
Trimmed(t, snap) ==
  FoldLeft(LAMBDA u, id : IF id \in Wanted(snap) \cup (Id \ u.index) THEN u ELSE RemoveLayer(u, id).tree,
           t, Walk(t, Root))

\* A node's properties, and setLayerTiles.
Dressed(t, n) == [t EXCEPT !.name[n.id] = n.name, !.locked[n.id] = n.locked, !.pix[n.id] = n.pix]

\* Mutant: a removed layer comes back on top instead of in its place.
PlacedOnTop(r, n) ==
  IF ~r.ok THEN r
  ELSE LET q == IF n.id \in r.tree.index THEN Move(r.tree, n.id, n.parent, n.at)
                ELSE Reattach(r.tree, n.id, n.parent, MaxId)
       IN  IF ~q.ok THEN q ELSE Done(Dressed(q.tree, n))

\* A node: in its place, its properties, a snapshot of its pixels.
Placed(r, n) ==
  IF ~r.ok THEN r
  ELSE LET q == IF n.id \in r.tree.index THEN Move(r.tree, n.id, n.parent, n.at)
                ELSE Reattach(r.tree, n.id, n.parent, n.at)
       IN  IF ~q.ok THEN q ELSE Done(Dressed(q.tree, n))

\* restoreSnapshot: the active layer stays what it is when the snapshot had none.
Restored(t, snap) ==
  LET r == FoldLeft(Placed, Done(Trimmed(t, snap)), snap.nodes)
  IN  IF ~r.ok THEN r
      ELSE Done(SetActive(r.tree, snap.active).tree)

\* A removed group that the snapshot brings back holds a layer the snapshot has
\* elsewhere or not at all: the restore cannot be exact.
HasStaleGroup(t, snap) ==
  LET u == Trimmed(t, snap)
      isChild(id, g) == \E k \in DOMAIN snap.nodes : snap.nodes[k].id = id /\ snap.nodes[k].parent = g
  IN  \E g \in Wanted(snap) \ u.index : \E id \in Kids(u, g) : ~isChild(id, g)

-----------------------------------------------------------------------------
(* What a sound tree is: every layer of the index hangs in one place, where *)
(* parents_ says, below the roots, and the active layer is one of them.     *)
Sound(t) ==
  /\ LET walk == Walk(t, Root)
     IN  ToSet(walk) = t.index /\ Len(walk) = Cardinality(t.index)
  /\ \A id \in t.index : id \in Kids(t, t.parent[id])
  /\ t.active \in t.index \cup {NoId}
=============================================================================
