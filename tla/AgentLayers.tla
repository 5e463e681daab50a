---------------------------- MODULE AgentLayers -----------------------------
(***************************************************************************)
(* The agent session's operations on layers, snapshots and batches         *)
(* (agent/src/ops_layer.cpp, ops_doc.cpp, address.cpp, snapshot.cpp) over  *)
(* the tree of one document.                                               *)
(*                                                                         *)
(* A session serves one request at a time; a step is a request, or one of  *)
(* the operations inside a batch request.  A request names its layer by    *)
(* id, name, role, index or not at all (the active layer), and is refused  *)
(* when that names no layer or more than one.                              *)
(***************************************************************************)
EXTENDS OraFile, TLC

CONSTANTS
  Role,         \* the roles a tag may give
  RoleOf,       \* guessRoleFromLayerName: the role a name tells, or NoRole
  NoRole,
  Address,      \* the layer addresses requests use
  NewLayer,     \* the layers they add
  Props,        \* the properties they set
  Limit,        \* SnapshotStore::limit_
  MaxRequests   \* bound: requests, those in batches included

ASSUME AgentLayersAssumption ==
  /\ RoleOf \in [Name -> Role \cup {NoRole}]
  /\ Limit \in Nat \ {0}
  /\ MaxRequests \in Nat

VARIABLES
  tree,      \* the document's layer tree
  roles,     \* RoleTags: the tag of each id, or NoRole
  store,     \* SnapshotStore::items_, oldest first
  batch,     \* an atomic batch under way: its rollback, and the tree it began with
  last,      \* what the last request answered; op is there for a refusal
  requests,  \* history: requests made
  stale      \* history: a restore brought back a group with layers that are not its own

vars == <<tree, roles, store, batch, last, requests, stale>>

NoBatch == [open |-> FALSE]

\* Documents a session opens: a background, alone or with a group; the session
\* may have a snapshot of them.
Fresh  == [kids |-> [i \in 0..MaxId |-> IF i = 0 THEN <<1>> ELSE <<>>], index |-> {1},
           parent |-> [i \in Id |-> 0], kind |-> [i \in Id |-> "raster"],
           name |-> [i \in Id |-> CHOOSE n \in Name : RoleOf[n] = NoRole],
           locked |-> [i \in Id |-> FALSE], pix |-> [i \in Id |-> 0], active |-> 1, next |-> 2]
Nested == [Fresh EXCEPT !.kids[0] = <<1, 2>>, !.kids[2] = <<3>>, !.index = {1, 2, 3},
                        !.parent[3] = 2, !.kind[2] = "group", !.next = 4]

Init ==
  /\ tree \in {Fresh, Nested}
  /\ roles = [i \in Id |-> NoRole]
  /\ store \in {<<>>, <<Taken(tree)>>}
  /\ batch = NoBatch
  /\ last = [op |-> "", ok |-> TRUE]
  /\ requests = 0
  /\ stale = FALSE

-----------------------------------------------------------------------------
(* Addresses (address.cpp).                                                 *)

\* RoleTags::effective: a tag counts before the name.
Effective(id) == IF roles[id] # NoRole THEN roles[id] ELSE RoleOf[tree.name[id]]

\* The layers an address may mean.
Meant(a) ==
  CASE a.by = "active" -> {tree.active} \ {NoId}
    [] a.by = "id"     -> {a.id} \cap tree.index
    [] a.by = "name"   -> {i \in Below(tree, Root) : tree.name[i] = a.name}
    [] a.by = "role"   -> {i \in Below(tree, Root) : Effective(i) = a.role}
    [] a.by = "index"  -> IF a.at < Len(tree.kids[Root]) THEN {tree.kids[Root][a.at + 1]} ELSE {}

\* resolveLayer and uniqueOr: one layer, or NoId for a refusal.
Resolved(a) == IF Cardinality(Meant(a)) = 1 THEN CHOOSE i \in Meant(a) : TRUE ELSE NoId

-----------------------------------------------------------------------------
(* Requests.                                                                *)

Answer(op, ok) ==
  /\ last' = [op |-> IF ok THEN "" ELSE op, ok |-> ok]
  /\ requests' = requests + 1

Refuse(op) == Answer(op, FALSE) /\ UNCHANGED <<tree, roles, store, batch, stale>>

\* An operation on the tree, r its outcome, that gives the tags tags.
Apply(op, r, tags) ==
  /\ Answer(op, r.ok)
  /\ tree' = r.tree
  /\ roles' = IF r.ok THEN tags ELSE roles
  /\ UNCHANGED <<store, batch, stale>>

Request == requests < MaxRequests

HasIds(n) == tree.next - 1 + n <= MaxId

\* Mutant: the layer stays when its role is unknown.
LayerAddKept(new, parent, at) ==
  /\ Request /\ HasIds(1)
  /\ LET r == Add(tree, new.kind, new.name, parent, at)
     IN  IF r.ok /\ new.role \notin Role \cup {NoRole}
         THEN /\ Answer("layer.add", FALSE)
              /\ tree' = r.tree
              /\ UNCHANGED <<roles, store, batch, stale>>
         ELSE Apply("layer.add", r,
                    IF new.role = NoRole THEN roles ELSE [roles EXCEPT ![tree.next] = new.role])

\* layer.add: a role nobody knows takes the new layer out again.
LayerAdd(new, parent, at) ==
  /\ Request /\ HasIds(1)
  /\ LET r == Add(tree, new.kind, new.name, parent, at)
     IN  IF r.ok /\ new.role \notin Role \cup {NoRole}
         THEN /\ Answer("layer.add", FALSE)
              /\ tree' = RemoveLayer(r.tree, tree.next).tree
              /\ UNCHANGED <<roles, store, batch, stale>>
         ELSE Apply("layer.add", r,
                    IF new.role = NoRole THEN roles ELSE [roles EXCEPT ![tree.next] = new.role])

\* layer.remove: the tag of the layer goes, those of the layers in it stay.
LayerRemove(a) ==
  /\ Request
  /\ LET id == Resolved(a)
     IN  IF id = NoId THEN Refuse("layer.remove")
         ELSE Apply("layer.remove", RemoveLayer(tree, id), [roles EXCEPT ![id] = NoRole])

LayerMove(a, parent, at) ==
  /\ Request
  /\ LET id == Resolved(a)
     IN  IF id = NoId THEN Refuse("layer.move") ELSE Apply("layer.move", Move(tree, id, parent, at), roles)

LayerDuplicate(a, name) ==
  /\ Request
  /\ LET id == Resolved(a)
     IN  IF id = NoId THEN Refuse("layer.duplicate")
         ELSE /\ HasIds(1 + Len(Walk(tree, id)))
              /\ Apply("layer.duplicate", Duplicate(tree, id, name), roles)

\* The sibling right below, or NoId.
SiblingBelow(id) ==
  LET at == IndexOf(tree, id) IN IF at = 0 THEN NoId ELSE tree.kids[tree.parent[id]][at]

\* layer.merge: onto the sibling below, which must be a raster nobody locked.
\* Two empty layers leave the tag behind.
LayerMerge(a) ==
  /\ Request
  /\ LET id    == Resolved(a)
         lower == SiblingBelow(id)
         empty == tree.pix[id] = 0 /\ tree.pix[lower] = 0
     IN  IF id = NoId \/ tree.kind[id] # "raster" THEN Refuse("layer.merge")
         ELSE IF lower = NoId \/ tree.kind[lower] # "raster" \/ tree.locked[lower] THEN Refuse("layer.merge")
         ELSE \E px \in IF tree.pix[id] = 0 THEN {tree.pix[lower]} ELSE Pix :
                Apply("layer.merge",
                      RemoveLayer([tree EXCEPT !.pix[lower] = px], id),
                      IF empty THEN roles ELSE [roles EXCEPT ![id] = NoRole])

\* layer.setProps: name, lock, role and active in this order; a role nobody
\* knows refuses the request when name and lock are set already.
LayerSetProps(a, p) ==
  /\ Request
  /\ LET id == Resolved(a)
         t  == [tree EXCEPT !.name[id] = p.name, !.locked[id] = p.lock]
     IN  IF id = NoId THEN Refuse("layer.setProps")
         ELSE IF p.role \notin Role \cup {NoRole}
         THEN /\ Answer("layer.setProps", FALSE)
              /\ tree' = t
              /\ UNCHANGED <<roles, store, batch, stale>>
         ELSE Apply("layer.setProps", IF p.active THEN SetActive(t, id) ELSE Done(t),
                    [roles EXCEPT ![id] = p.role])

\* What drawing does to the tree (the rest is RecordedDocument).
Draw(a, px) ==
  /\ Request
  /\ LET id == Resolved(a)
     IN  IF id = NoId \/ tree.kind[id] # "raster" \/ tree.locked[id] THEN Refuse("draw")
         ELSE Apply("draw", Done([tree EXCEPT !.pix[id] = px]), roles)

-----------------------------------------------------------------------------
(* Snapshots.                                                               *)

\* SnapshotStore::put: beyond the limit the oldest goes.
Put(snap) == LET all == Append(store, snap)
             IN  IF Len(all) > Limit THEN Tail(all) ELSE all

SnapshotTake ==
  /\ Request
  /\ store' = Put(Taken(tree))
  /\ Answer("snapshot.take", TRUE)
  /\ UNCHANGED <<tree, roles, batch, stale>>

\* snapshot.restore, k being what the id, the label or "the latest" found.
SnapshotRestore(k) ==
  /\ Request
  /\ IF k \notin DOMAIN store THEN Refuse("snapshot.restore")
     ELSE LET r == Restored(tree, store[k])
          IN  /\ tree' = r.tree
              /\ stale' = (stale \/ HasStaleGroup(tree, store[k]))
              /\ Answer("snapshot.restore", r.ok)
              /\ UNCHANGED <<roles, store, batch>>

\* snapshot.branch: back to k, and a new snapshot of that.
SnapshotBranch(k) ==
  /\ Request
  /\ IF k \notin DOMAIN store THEN Refuse("snapshot.branch")
     ELSE LET r == Restored(tree, store[k])
          IN  /\ tree' = r.tree
              /\ stale' = (stale \/ HasStaleGroup(tree, store[k]))
              /\ store' = IF r.ok THEN Put(Taken(r.tree)) ELSE store
              /\ Answer("snapshot.branch", r.ok)
              /\ UNCHANGED <<roles, batch>>

-----------------------------------------------------------------------------
(* Files.                                                                   *)

\* doc.save, doc.close and doc.open of the document's file in a row.  The ids
\* are those of the opened tree; the snapshots are gone with the document, the
\* tags of the old ids are not.
DocReopen ==
  /\ Request
  /\ ~batch.open
  /\ LET r == Loaded(Saved(tree))
     IN  r.ok /\ tree' = r.tree
  /\ store' = <<>>
  /\ Answer("doc.open", TRUE)
  /\ UNCHANGED <<roles, batch, stale>>

-----------------------------------------------------------------------------
(* An atomic batch: the operations are those above.                         *)

BatchBegin ==
  /\ Request
  /\ ~batch.open
  /\ batch' = [open |-> TRUE, rollback |-> Taken(tree), began |-> tree]
  /\ Answer("batch", TRUE)
  /\ UNCHANGED <<tree, roles, store, stale>>

\* Every operation of the list succeeded.
BatchEnd ==
  /\ batch.open
  /\ last.ok
  /\ batch' = NoBatch
  /\ last' = [op |-> "", ok |-> TRUE]
  /\ UNCHANGED <<tree, roles, store, requests, stale>>

\* Mutant: what failed is left as it is.
BatchGivesUp ==
  /\ batch.open
  /\ ~last.ok
  /\ batch' = NoBatch
  /\ last' = [op |-> "batch.fail", ok |-> FALSE]
  /\ UNCHANGED <<tree, roles, store, requests, stale>>

\* One failed: the rest is not run and the tree goes back.  The tags, the
\* snapshots and the undo stack do not.
BatchFail ==
  /\ batch.open
  /\ ~last.ok
  /\ tree' = Restored(tree, batch.rollback).tree
  /\ stale' = (stale \/ HasStaleGroup(tree, batch.rollback))
  /\ batch' = NoBatch
  /\ last' = [op |-> "batch.fail", ok |-> FALSE]
  /\ UNCHANGED <<roles, store, requests>>

MayGoOn == batch.open => last.ok

Places == (0..MaxId) \X {0, MaxId}

Operation ==
  \/ \E new \in NewLayer, place \in Places : LayerAdd(new, place[1], place[2])
  \/ \E a \in Address :
       \/ LayerRemove(a)
       \/ LayerMerge(a)
       \/ \E place \in Places : LayerMove(a, place[1], place[2])
       \/ \E name \in Name : LayerDuplicate(a, name)
       \/ \E p \in Props : LayerSetProps(a, p)
       \/ \E px \in Pix : Draw(a, px)
  \/ SnapshotTake
  \/ \E k \in 1..Limit : SnapshotRestore(k) \/ SnapshotBranch(k)

Next == (MayGoOn /\ (Operation \/ BatchBegin)) \/ BatchEnd \/ BatchFail \/ DocReopen

Spec == Init /\ [][Next]_vars

-----------------------------------------------------------------------------
(* What must hold.                                                          *)

TypeOK ==
  /\ tree \in Tree
  /\ roles \in [Id -> Role \cup {NoRole}]
  /\ Len(store) <= Limit
  /\ batch.open \in BOOLEAN
  /\ last.ok \in BOOLEAN

\* Whatever is added, moved, duplicated, merged, restored or rolled back, each
\* layer hangs in one place and the index, the parents and the active layer
\* agree with that, unless a restore revived a stale group.
TreeIsSound == TypeOK /\ (stale \/ Sound(tree))

\* A saved document opens with the layers it had, in their places; of a damaged
\* file what cannot be read is refused or its losses are told one by one.  The
\* exception is a tree nested deeper than the reader goes, see Parses, which
\* saving does not refuse (writeStack and readStack turn the order around,
\* ora.cpp:130 and 163; readLayer, 208).
SavedTreeComesBack == stale \/ ComesBack(tree)

\* What a snapshot takes of a tree.
Shape(t) == Taken(t).nodes

\* A restore, in one go or as a batch's rollback, ends with the layers of the
\* snapshot under their old ids, in their places, with their properties and
\* pixels, and is not refused half way.  Not when it revives a stale group,
\* see HasStaleGroup.
RestoreBringsBack ==
  [][ \A k \in DOMAIN store :
        SnapshotRestore(k) /\ ~stale' =>
          /\ last'.ok
          /\ Shape(tree') = store[k].nodes
          /\ store[k].active # NoId => tree'.active = store[k].active ]_vars

\* A failed atomic batch leaves the layers it began with, whatever its
\* operations did before one of them failed.
BatchIsAtomic ==
  [][ batch.open /\ ~batch'.open /\ ~last'.ok /\ ~stale' =>
        /\ Shape(tree') = Shape(batch.began)
        /\ batch.began.active # NoId => tree'.active = batch.began.active ]_vars

\* A request that is refused changes neither layers nor tags; layer.setProps,
\* which sets what it reads before it meets what it refuses, is the one that does.
RefusedChangesNothing ==
  [][ requests' # requests /\ ~last'.ok /\ last'.op # "layer.setProps" =>
        /\ Shape(tree') = Shape(tree)
        /\ tree'.index = tree.index
        /\ tree'.active = tree.active
        /\ roles' = roles ]_vars
=============================================================================
