------------------------ MODULE RecordedDocument_proofs ------------------------
(***************************************************************************)
(* Theorems about RecordedDocument for every number of tiles and           *)
(* operations, every limit of the undo stack and every journal buffer:     *)
(* undo and redo run through canvases that were there, what is shown is on *)
(* record while the document takes drawing, and the operation that meets   *)
(* the failure leaves no trace on the canvas.                              *)
(***************************************************************************)
EXTENDS RecordedDocument, JournalFile_proofs, FiniteSetTheorems

Canvas == [Tile -> Nat]

\* The command turns canvas a into canvas b; `own` is its side of b.
Turns(cmd, a, b, own, other) ==
  \A t \in Tile :
    IF t \in DOMAIN cmd THEN cmd[t][own] = b[t] /\ cmd[t][other] = a[t] ELSE b[t] = a[t]

\* The canvases c that the commands of the stack lead through.
Through(c, stack, own, other) ==
  /\ c \in Seq(Canvas) /\ Len(c) = Len(stack) + 1
  /\ \A i \in 1..Len(stack) : Turns(stack[i], c[i], c[i + 1], own, other)

\* There are such canvases, and the last is the one shown.
Runs(stack, canvas, own, other) ==
  \E c : Through(c, stack, own, other) /\ c[Len(stack) + 1] = canvas

-----------------------------------------------------------------------------
(* What becomes of the canvases when a stack grows or shrinks.              *)

\* The same command turns b back into a.
LEMMA TurnsBack ==
  ASSUME NEW cmd, NEW a, NEW b, NEW own, NEW other, Turns(cmd, a, b, own, other)
  PROVE  Turns(cmd, b, a, other, own)
BY DEF Turns

\* An empty stack leads nowhere.
LEMMA EmptyRuns ==
  ASSUME NEW canvas \in Canvas, NEW own, NEW other, NEW stack, stack = <<>>
  PROVE  Runs(stack, canvas, own, other)
<1>1. PICK c \in Seq(Canvas) : c = Append(<<>>, canvas)
  BY EmptySeq, AppendProperties
<1>2. Len(c) = 1 /\ c[1] = canvas /\ Len(stack) = 0
  BY <1>1, EmptySeq, AppendProperties
<1>3. Through(c, stack, own, other)
  BY <1>2 DEF Through
<1> QED BY <1>2, <1>3 DEF Runs

\* A command on top leads on to the next canvas.
LEMMA PushRuns ==
  ASSUME NEW stack \in Seq(Command), NEW a, NEW own, NEW other, Runs(stack, a, own, other),
         NEW cmd \in Command, NEW b \in Canvas, Turns(cmd, a, b, own, other),
         NEW w, w = Append(stack, cmd)
  PROVE  Runs(w, b, own, other)
<1>1. PICK c : Through(c, stack, own, other) /\ c[Len(stack) + 1] = a
  BY DEF Runs
<1>2. PICK l \in Nat : l = Len(stack)
  BY LenProperties
<1>3. PICK d : d = Append(c, b)
  OBVIOUS
<1>4. c \in Seq(Canvas) /\ Len(c) = l + 1 /\ \A i \in 1..l : Turns(stack[i], c[i], c[i + 1], own, other)
  BY <1>1, <1>2 DEF Through
<1>5. /\ d \in Seq(Canvas) /\ Len(d) = (l + 1) + 1
      /\ (\A i \in 1..(l + 1) : d[i] = c[i]) /\ d[(l + 1) + 1] = b
  BY <1>3, <1>4, Appended
<1>6. Len(w) = l + 1 /\ (\A i \in 1..l : w[i] = stack[i]) /\ w[l + 1] = cmd
  BY <1>2, Appended
<1>7. ASSUME NEW i \in 1..(l + 1) PROVE Turns(w[i], d[i], d[i + 1], own, other)
  <2>1. CASE i \in 1..l
    <3>1. i + 1 \in 1..(l + 1)
      BY <2>1
    <3> QED BY <1>4, <1>5, <1>6, <2>1, <3>1
  <2>2. CASE i = l + 1
    <3>1. d[i] = a /\ d[i + 1] = b /\ w[i] = cmd
      BY <1>1, <1>2, <1>5, <1>6, <2>2
    <3> QED BY <3>1
  <2>3. i \in 1..l \/ i = l + 1
    OBVIOUS
  <2> QED BY <2>1, <2>2, <2>3
<1> QED BY <1>5, <1>6, <1>7 DEF Runs, Through

\* Without the command on top the canvas is the one before it.
LEMMA PopRuns ==
  ASSUME NEW stack \in Seq(Command), stack # <<>>, NEW b, NEW own, NEW other, Runs(stack, b, own, other),
         NEW w, w = Front(stack), NEW cmd, cmd = Last(stack)
  PROVE  \E a \in Canvas : /\ Turns(cmd, a, b, own, other) /\ Runs(w, a, own, other)
<1>1. PICK c : Through(c, stack, own, other) /\ c[Len(stack) + 1] = b
  BY DEF Runs
<1>2. PICK l \in Nat : l = Len(stack)
  BY LenProperties
<1>3. Len(w) = l - 1 /\ l >= 1 /\ (\A i \in 1..(l - 1) : w[i] = stack[i]) /\ cmd = stack[l]
  BY <1>2, LastGone
<1>4. c \in Seq(Canvas) /\ Len(c) = l + 1 /\ \A i \in 1..l : Turns(stack[i], c[i], c[i + 1], own, other)
  BY <1>1, <1>2 DEF Through
<1>5. PICK n \in Nat : n = l - 1 /\ n + 1 = l
  BY <1>3
<1>6. PICK d : d = Front(c)
  OBVIOUS
<1>7. d \in Seq(Canvas) /\ Len(d) = n + 1 /\ \A i \in 1..(n + 1) : d[i] = c[i]
  <2>1. c # <<>>
    BY <1>4, EmptySeq
  <2>2. c \in Seq(Canvas)
    BY <1>4
  <2>3. d \in Seq(Canvas) /\ Len(d) = Len(c) - 1 /\ \A i \in 1..Len(d) : d[i] = c[i]
    BY <1>6, <2>1, <2>2, LastGone
  <2> QED BY <1>4, <1>5, <2>3
<1>8. PICK a \in Canvas : a = c[l] /\ d[n + 1] = a
  <2>1. l \in 1..(l + 1) /\ n + 1 \in 1..(n + 1)
    BY <1>3, <1>5
  <2> QED BY <1>4, <1>5, <1>7, <2>1, ElementOfSeq
<1>9. Turns(cmd, a, b, own, other)
  <2>1. l \in 1..l
    BY <1>3
  <2> QED BY <1>1, <1>2, <1>3, <1>4, <1>8, <2>1
<1>10. ASSUME NEW i \in 1..n PROVE Turns(w[i], d[i], d[i + 1], own, other)
  <2>1. i \in 1..(n + 1) /\ i + 1 \in 1..(n + 1) /\ i \in 1..l /\ i \in 1..(l - 1)
    BY <1>5
  <2> QED BY <1>3, <1>4, <1>7, <2>1
<1>11. Runs(w, a, own, other)
  BY <1>3, <1>5, <1>7, <1>8, <1>10 DEF Runs, Through
<1> QED BY <1>8, <1>9, <1>11

\* Without the oldest command the rest leads where it led.
LEMMA TailRuns ==
  ASSUME NEW stack \in Seq(Command), stack # <<>>, NEW b, NEW own, NEW other, Runs(stack, b, own, other),
         NEW w, w = Tail(stack)
  PROVE  Runs(w, b, own, other)
<1>1. PICK c : Through(c, stack, own, other) /\ c[Len(stack) + 1] = b
  BY DEF Runs
<1>2. PICK l \in Nat : l = Len(stack)
  BY LenProperties
<1>3. Len(w) = l - 1 /\ l >= 1 /\ \A i \in 1..(l - 1) : w[i] = stack[i + 1]
  BY <1>2, Shortened
<1>4. c \in Seq(Canvas) /\ Len(c) = l + 1 /\ \A i \in 1..l : Turns(stack[i], c[i], c[i + 1], own, other)
  BY <1>1, <1>2 DEF Through
<1>5. PICK n \in Nat : n = l - 1 /\ n + 1 = l
  BY <1>3
<1>6. PICK d : d = Tail(c)
  OBVIOUS
<1>7. d \in Seq(Canvas) /\ Len(d) = n + 1 /\ \A i \in 1..(n + 1) : d[i] = c[i + 1]
  <2>1. c # <<>>
    BY <1>4, EmptySeq
  <2>2. d \in Seq(Canvas) /\ Len(d) = Len(c) - 1 /\ \A i \in 1..Len(d) : d[i] = c[i + 1]
    BY <1>4, <1>6, <2>1, Shortened
  <2> QED BY <1>4, <1>5, <2>2
<1>8. ASSUME NEW i \in 1..n PROVE Turns(w[i], d[i], d[i + 1], own, other)
  <2>1. i \in 1..(n + 1) /\ i + 1 \in 1..(n + 1) /\ i + 1 \in 1..l /\ i \in 1..(l - 1)
    BY <1>5
  <2> QED BY <1>3, <1>4, <1>7, <2>1
<1>9. d[n + 1] = b
  <2>1. n + 1 \in 1..(n + 1) /\ (n + 1) + 1 = l + 1
    BY <1>5
  <2> QED BY <1>1, <1>2, <1>7, <2>1
<1> QED BY <1>3, <1>5, <1>7, <1>8, <1>9 DEF Runs, Through

-----------------------------------------------------------------------------
(* The chain.                                                               *)

\* A command maps tiles to their content before and after.
LEMMA Commands ==
  ASSUME NEW cmd \in Command
  PROVE  /\ DOMAIN cmd \subseteq Tile
         /\ \A t \in DOMAIN cmd : /\ cmd[t].before \in 0..MaxOps /\ cmd[t].after \in 0..MaxOps
                                  /\ cmd[t] = [before |-> cmd[t].before, after |-> cmd[t].after]
BY DEF Command

\* A tile that no command between touches is the same on both canvases.
LEMMA Untouched ==
  ASSUME NEW stack \in Seq(Command), NEW c, NEW own, NEW other, Through(c, stack, own, other),
         NEW t \in Tile, NEW a \in 1..(Len(stack) + 1), NEW b \in a..(Len(stack) + 1),
         \A j \in a..(b - 1) : t \notin DOMAIN stack[j]
  PROVE  c[b][t] = c[a][t]
<1>1. PICK l \in Nat : l = Len(stack)
  BY LenProperties
<1>2. \A i \in 1..l : Turns(stack[i], c[i], c[i + 1], own, other)
  BY <1>1 DEF Through
<1>3. PICK T : T = {x \in a..b : c[x][t] # c[a][t]}
  OBVIOUS
<1>4. SUFFICES ASSUME T # {} PROVE FALSE
  <2>1. b \in a..b
    BY <1>1
  <2> QED BY <1>3, <2>1
<1>5. T \subseteq Nat
  BY <1>3
<1>6. PICK m \in T : \A y \in T : m <= y
  BY <1>4, <1>5, LeastNumber
<1>7. m \in a..b /\ c[m][t] # c[a][t] /\ a \in Nat /\ b \in Nat /\ b <= l + 1 /\ a >= 1
  BY <1>1, <1>3, <1>6
<1>8. m # a
  BY <1>7
<1>9. PICK p \in Nat : p = m - 1 /\ p + 1 = m /\ p \in a..(b - 1) /\ p \in a..b /\ p \in 1..l /\ ~(m <= p)
  BY <1>7, <1>8
<1>10. c[p][t] = c[a][t]
  BY <1>3, <1>6, <1>9
<1>11. Turns(stack[p], c[p], c[m], own, other) /\ t \notin DOMAIN stack[p]
  BY <1>2, <1>9
<1> QED BY <1>7, <1>10, <1>11 DEF Turns

\* Every command finds its tiles as the ones above it, or the canvas, hold them.
LEMMA RunsChain ==
  ASSUME NEW stack \in Seq(Command), NEW own, NEW other, Runs(stack, tiles, own, other),
         NEW i \in DOMAIN stack, NEW t \in DOMAIN stack[i]
  PROVE  stack[i][t][own] = Beside(stack, i, t, other)
<1>1. PICK c : Through(c, stack, own, other) /\ c[Len(stack) + 1] = tiles
  BY DEF Runs
<1>2. PICK l \in Nat : l = Len(stack)
  BY LenProperties
<1>3. i \in 1..l /\ stack[i] \in Command
  BY <1>2
<1>4. t \in Tile
  BY <1>3, Commands
<1>5. \A k \in 1..l : Turns(stack[k], c[k], c[k + 1], own, other)
  BY <1>1, <1>2 DEF Through
<1>6. stack[i][t][own] = c[i + 1][t]
  BY <1>3, <1>4, <1>5 DEF Turns
<1>7. PICK above : above = {j \in (i + 1)..l : t \in DOMAIN stack[j]}
  OBVIOUS
<1>8. PICK a \in Nat : a = i + 1 /\ a \in 1..(l + 1)
  BY <1>3
<1>9. CASE above = {}
  <2>1. PICK b \in a..(l + 1) : b = l + 1 /\ b - 1 = l
    BY <1>8
  <2>2. \A j \in a..(b - 1) : t \notin DOMAIN stack[j]
    BY <1>7, <1>8, <1>9, <2>1
  <2>3. c[b][t] = c[a][t]
    BY <1>1, <1>2, <1>4, <1>8, <2>1, <2>2, Untouched
  <2>4. Beside(stack, i, t, other) = tiles[t]
    BY <1>2, <1>7, <1>9 DEF Beside
  <2> QED BY <1>1, <1>2, <1>6, <1>8, <2>1, <2>3, <2>4
<1>10. CASE above # {}
  <2>1. PICK m : m = Min(above)
    OBVIOUS
  <2>2. m \in above /\ \A y \in above : m <= y
    <3>1. above \subseteq Nat
      BY <1>7, <1>8
    <3> QED BY <1>10, <2>1, <3>1, MinIs
  <2>3. m \in a..l /\ m \in 1..l /\ m \in a..(l + 1) /\ t \in DOMAIN stack[m]
    BY <1>7, <1>8, <2>2
  <2>4. \A j \in a..(m - 1) : t \notin DOMAIN stack[j]
    <3> TAKE j \in a..(m - 1)
    <3>1. j \in a..l /\ ~(m <= j)
      BY <1>8, <2>3
    <3> QED BY <1>7, <1>8, <2>2, <3>1
  <2>5. c[m][t] = c[a][t]
    BY <1>1, <1>2, <1>4, <1>8, <2>3, <2>4, Untouched
  <2>6. Beside(stack, i, t, other) = stack[m][t][other]
    BY <1>2, <1>7, <1>10, <2>1 DEF Beside
  <2>7. stack[m][t][other] = c[m][t]
    BY <1>4, <1>5, <2>3 DEF Turns
  <2> QED BY <1>6, <1>8, <2>5, <2>6, <2>7
<1> QED BY <1>9, <1>10

-----------------------------------------------------------------------------
(* The document.                                                            *)

\* The commands of the stack hold nothing newer than operation n.
Seen(stack, n) ==
  \A i \in 1..Len(stack) : \A t \in DOMAIN stack[i] :
    stack[i][t].before \in 0..n /\ stack[i][t].after \in 0..n

\* Two stacks u and r that run through canvases from the one shown, x, after n
\* operations; `own` is the side of x for the commands of u.
Meet(u, r, x, n, own, other) ==
  /\ u \in Seq(Command) /\ r \in Seq(Command) /\ x \in [Tile -> 0..n]
  /\ Seen(u, n) /\ Seen(r, n)
  /\ Runs(u, x, own, other) /\ Runs(r, x, other, own)

\* A document after n operations, its stacks together within the limit.
Fits(d, n) ==
  /\ d = [tiles |-> d.tiles, undo |-> d.undo, redo |-> d.redo]
  /\ Meet(d.undo, d.redo, d.tiles, n, "after", "before")
  /\ Len(d.undo) + Len(d.redo) <= UndoLimit

\* A command on top of those.
LEMMA PushSeen ==
  ASSUME NEW stack \in Seq(Command), NEW n, Seen(stack, n), NEW cmd \in Command,
         \A t \in DOMAIN cmd : cmd[t].before \in 0..n /\ cmd[t].after \in 0..n,
         NEW w, w = Append(stack, cmd)
  PROVE  Seen(w, n)
<1>1. PICK l \in Nat : l = Len(stack)
  BY LenProperties
<1>2. Len(w) = l + 1 /\ (\A i \in 1..l : w[i] = stack[i]) /\ w[l + 1] = cmd
  BY <1>1, Appended
<1>3. \A i \in 1..(l + 1) : i \in 1..l \/ i = l + 1
  BY <1>1
<1> QED BY <1>1, <1>2, <1>3 DEF Seen

\* The command on top goes from one stack to the other.
LEMMA Moved ==
  ASSUME NEW u, u # <<>>, NEW r, NEW n \in Nat, NEW x, NEW own, NEW other,
         Meet(u, r, x, n, own, other), other = "before" \/ other = "after",
         NEW y, y = Restore(x, Last(u), other), NEW w, w = Front(u), NEW v, v = Append(r, Last(u))
  PROVE  Meet(w, v, y, n, own, other) /\ Len(w) + Len(v) = Len(u) + Len(r)
<1>0. /\ u \in Seq(Command) /\ r \in Seq(Command) /\ x \in [Tile -> 0..n]
      /\ Seen(u, n) /\ Seen(r, n) /\ Runs(u, x, own, other) /\ Runs(r, x, other, own)
  BY DEF Meet
<1>1. PICK cmd : cmd = Last(u)
  OBVIOUS
<1>2. PICK l \in Nat, m \in Nat : l = Len(u) /\ m = Len(r)
  BY <1>0, LenProperties
<1>3. /\ w \in Seq(Command) /\ Len(w) = l - 1 /\ l >= 1 /\ cmd = u[l] /\ cmd \in Command
      /\ \A i \in 1..(l - 1) : w[i] = u[i]
  <2>0. u \in Seq(Command)
    BY <1>0
  <2>1. w \in Seq(Command) /\ Len(w) = Len(u) - 1 /\ Len(u) >= 1
    BY <2>0, LastGone
  <2>2. Last(u) = u[Len(u)] /\ Last(u) \in Command
    BY <2>0, LastGone
  <2>3. \A i \in 1..Len(w) : w[i] = u[i]
    BY <2>0, LastGone
  <2> QED BY <1>1, <1>2, <2>1, <2>2, <2>3
<1>4. v \in Seq(Command) /\ Len(v) = m + 1
  BY <1>0, <1>1, <1>2, <1>3, Appended
<1>5. l \in 1..l /\ \A i \in 1..(l - 1) : i \in 1..l
  BY <1>3
<1>6. \A t \in DOMAIN cmd : cmd[t].before \in 0..n /\ cmd[t].after \in 0..n
  BY <1>0, <1>2, <1>3, <1>5 DEF Seen
<1>7. Seen(w, n)
  BY <1>0, <1>2, <1>3, <1>5 DEF Seen
<1>8. Seen(v, n)
  BY <1>0, <1>1, <1>3, <1>6, PushSeen
<1>9. PICK a \in Canvas : Turns(cmd, a, x, own, other) /\ Runs(w, a, own, other)
  BY <1>0, <1>1, PopRuns
<1>10. y = a
  <2>1. y = [t \in Tile |-> IF t \in DOMAIN cmd THEN cmd[t][other] ELSE x[t]]
    BY <1>1 DEF Restore
  <2>2. a = [t \in Tile |-> a[t]]
    BY DEF Canvas
  <2>3. \A t \in Tile : a[t] = IF t \in DOMAIN cmd THEN cmd[t][other] ELSE x[t]
    BY <1>9 DEF Turns
  <2> QED BY <2>1, <2>2, <2>3
<1>11. y \in [Tile -> 0..n]
  <2>1. \A t \in DOMAIN cmd : cmd[t][other] \in 0..n
    BY <1>6
  <2> QED BY <1>0, <1>1, <2>1 DEF Restore
<1>12. Runs(v, a, other, own)
  <2>1. Turns(cmd, x, a, other, own)
    BY <1>9, TurnsBack
  <2>2. v = Append(r, cmd)
    BY <1>1
  <2> QED BY <1>0, <1>3, <2>1, <2>2, PushRuns
<1>13. (l - 1) + (m + 1) = l + m
  OBVIOUS
<1>14. Meet(w, v, y, n, own, other)
  BY <1>3, <1>4, <1>7, <1>8, <1>9, <1>10, <1>11, <1>12 DEF Meet
<1> QED BY <1>2, <1>3, <1>4, <1>13, <1>14

\* Undo leaves the document so.
LEMMA UndoneFits ==
  ASSUME NEW n \in Nat, NEW d, Fits(d, n), NEW e, e = Undone(d)
  PROVE  Fits(e, n)
<1>1. CASE d.undo = <<>>
  BY <1>1 DEF Undone
<1>2. CASE d.undo # <<>>
  <2>1. PICK u, r, x : u = d.undo /\ r = d.redo /\ x = d.tiles
    OBVIOUS
  <2>2. PICK y, w, v : y = Restore(x, Last(u), "before") /\ w = Front(u) /\ v = Append(r, Last(u))
    OBVIOUS
  <2>3. e = [tiles |-> y, undo |-> w, redo |-> v]
    BY <1>2, <2>1, <2>2 DEF Undone
  <2>4. e.tiles = y /\ e.undo = w /\ e.redo = v
    BY <2>3
  <2>5. Meet(u, r, x, n, "after", "before") /\ Len(u) + Len(r) <= UndoLimit
    BY <2>1 DEF Fits
  <2>6. PICK own, other : own = "after" /\ other = "before"
    OBVIOUS
  <2>7. Meet(u, r, x, n, own, other)
    BY <2>5, <2>6 DEF Meet
  <2>8. Meet(w, v, y, n, own, other) /\ Len(w) + Len(v) = Len(u) + Len(r)
    <3>1. y = Restore(x, Last(u), other) /\ w = Front(u) /\ v = Append(r, Last(u)) /\ u # <<>>
      BY <1>2, <2>1, <2>2, <2>6
    <3>2. other = "before" \/ other = "after"
      BY <2>6
    <3>3. Meet(w, v, y, n, own, other)
      BY <2>7, <3>1, <3>2, Moved
    <3>4. Len(w) + Len(v) = Len(u) + Len(r)
      BY <2>7, <3>1, <3>2, Moved
    <3> QED BY <3>3, <3>4
  <2>9. Meet(w, v, y, n, "after", "before") /\ Len(w) + Len(v) <= UndoLimit
    <3>1. Meet(w, v, y, n, "after", "before")
      BY <2>6, <2>8 DEF Meet
    <3>2. u \in Seq(Command) /\ r \in Seq(Command) /\ w \in Seq(Command) /\ v \in Seq(Command)
      BY <2>5, <2>8 DEF Meet
    <3>3. Len(w) + Len(v) = Len(u) + Len(r)
      BY <2>8, <3>2, LenProperties
    <3> QED BY <2>5, <3>1, <3>3
  <2> QED BY <2>3, <2>4, <2>9 DEF Fits
<1> QED BY <1>1, <1>2

\* Redo too.
LEMMA RedoneFits ==
  ASSUME NEW n \in Nat, NEW d, Fits(d, n), NEW e, e = Redone(d)
  PROVE  Fits(e, n)
<1>1. CASE d.redo = <<>>
  BY <1>1 DEF Redone
<1>2. CASE d.redo # <<>>
  <2>1. PICK u, r, x : u = d.undo /\ r = d.redo /\ x = d.tiles
    OBVIOUS
  <2>2. PICK y, w, v : y = Restore(x, Last(r), "after") /\ w = Front(r) /\ v = Append(u, Last(r))
    OBVIOUS
  <2>3. e = [tiles |-> y, undo |-> v, redo |-> w]
    BY <1>2, <2>1, <2>2 DEF Redone
  <2>4. e.tiles = y /\ e.undo = v /\ e.redo = w
    BY <2>3
  <2>5. Meet(u, r, x, n, "after", "before") /\ Len(u) + Len(r) <= UndoLimit
    BY <2>1 DEF Fits
  <2>6. PICK own, other : own = "before" /\ other = "after"
    OBVIOUS
  <2>7. Meet(r, u, x, n, own, other)
    BY <2>5, <2>6 DEF Meet
  <2>8. Meet(w, v, y, n, own, other) /\ Len(w) + Len(v) = Len(r) + Len(u)
    <3>1. y = Restore(x, Last(r), other) /\ w = Front(r) /\ v = Append(u, Last(r)) /\ r # <<>>
      BY <1>2, <2>1, <2>2, <2>6
    <3>2. other = "before" \/ other = "after"
      BY <2>6
    <3>3. Meet(w, v, y, n, own, other)
      BY <2>7, <3>1, <3>2, Moved
    <3>4. Len(w) + Len(v) = Len(r) + Len(u)
      BY <2>7, <3>1, <3>2, Moved
    <3> QED BY <3>3, <3>4
  <2>9. Meet(v, w, y, n, "after", "before") /\ Len(v) + Len(w) <= UndoLimit
    <3>1. Meet(v, w, y, n, "after", "before")
      BY <2>6, <2>8 DEF Meet
    <3>2. u \in Seq(Command) /\ r \in Seq(Command) /\ w \in Seq(Command) /\ v \in Seq(Command)
      BY <2>5, <2>8 DEF Meet
    <3>3. Len(v) + Len(w) = Len(u) + Len(r)
      BY <2>8, <3>2, LenProperties
    <3> QED BY <2>5, <3>1, <3>3
  <2> QED BY <2>3, <2>4, <2>9 DEF Fits
<1> QED BY <1>1, <1>2

\* What was seen after n operations was seen after k.
LEMMA SeenLater ==
  ASSUME NEW stack, NEW n \in Nat, Seen(stack, n), NEW k \in Nat, n <= k
  PROVE  Seen(stack, k)
<1>1. 0..n \subseteq 0..k
  OBVIOUS
<1> QED BY <1>1 DEF Seen

\* A command for what turned canvas x, to which stack u led, into y by operation n.
Captured(u, x, y, cmd, n) ==
  /\ u \in Seq(Command) /\ Len(u) <= UndoLimit /\ Seen(u, n) /\ Runs(u, x, "after", "before")
  /\ y \in [Tile -> 0..n]
  /\ cmd \in Command /\ Turns(cmd, x, y, "after", "before")
  /\ \A t \in DOMAIN cmd : cmd[t].before \in 0..n /\ cmd[t].after \in 0..n

\* UndoStack::push: the command is on top, the oldest one may have gone for it,
\* and nothing is left to be redone.
LEMMA PushFits ==
  ASSUME NEW n \in Nat, NEW u, NEW x, NEW y, NEW cmd, Captured(u, x, y, cmd, n),
         NEW old, NEW d, d = [tiles |-> y, undo |-> u, redo |-> old], NEW e, e = Push(d, cmd)
  PROVE  Fits(e, n) /\ e.tiles = y /\ e.undo # <<>> /\ Last(e.undo) = cmd
<1>0. /\ u \in Seq(Command) /\ Len(u) <= UndoLimit /\ Seen(u, n) /\ Runs(u, x, "after", "before")
      /\ y \in [Tile -> 0..n]
      /\ cmd \in Command /\ Turns(cmd, x, y, "after", "before")
      /\ \A t \in DOMAIN cmd : cmd[t].before \in 0..n /\ cmd[t].after \in 0..n
  BY DEF Captured
<1>1. PICK l \in Nat : l = Len(u) /\ l <= UndoLimit
  BY <1>0, LenProperties
<1>2. UndoLimit \in Nat \ {0}
  BY RecordedDocumentAssumption
<1>3. PICK w : w = Append(u, cmd)
  OBVIOUS
<1>4. w \in Seq(Command) /\ Len(w) = l + 1 /\ w[l + 1] = cmd
  BY <1>0, <1>1, <1>3, Appended
<1>5. Seen(w, n)
  BY <1>0, <1>3, PushSeen
<1>6. y \in Canvas
  BY <1>0 DEF Canvas
<1>7. PICK own, other : own = "after" /\ other = "before"
  OBVIOUS
<1>8. Runs(w, y, own, other)
  <2>1. Runs(u, x, own, other) /\ Turns(cmd, x, y, own, other)
    BY <1>0, <1>7
  <2> QED BY <1>0, <1>3, <1>6, <2>1, PushRuns
<1>9. PICK v : v = IF Len(w) > UndoLimit THEN Tail(w) ELSE w
  OBVIOUS
<1>10. /\ v \in Seq(Command) /\ Len(v) <= UndoLimit /\ v # <<>> /\ Last(v) = cmd
       /\ Seen(v, n) /\ Runs(v, y, own, other)
  <2>1. CASE ~(Len(w) > UndoLimit)
    <3>1. v = w /\ Len(w) <= UndoLimit
      BY <1>1, <1>2, <1>4, <1>9, <2>1
    <3>2. w # <<>> /\ Last(w) = cmd
      BY <1>1, <1>4, EmptySeq DEF Last
    <3> QED BY <1>4, <1>5, <1>8, <3>1, <3>2
  <2>2. CASE Len(w) > UndoLimit
    <3>1. v = Tail(w) /\ l + 1 > UndoLimit /\ l <= UndoLimit
      BY <1>1, <1>4, <1>9, <2>2
    <3>2. l = UndoLimit /\ l >= 1
      BY <1>2, <3>1
    <3>3. w # <<>>
      BY <1>1, <1>4, EmptySeq
    <3>4. /\ v \in Seq(Command) /\ Len(v) = Len(w) - 1
          /\ \A i \in 1..Len(v) : v[i] = w[i + 1] /\ i + 1 \in 1..Len(w)
      BY <1>4, <3>1, <3>3, Shortened
    <3>5. (l + 1) - 1 = l /\ l \in 1..l
      BY <3>2
    <3>6. Len(v) = l /\ v[l] = cmd
      BY <1>4, <3>4, <3>5
    <3>7. v # <<>> /\ Last(v) = cmd
      BY <3>2, <3>6, EmptySeq DEF Last
    <3>8. Seen(v, n)
      BY <1>5, <3>4 DEF Seen
    <3>9. Runs(v, y, own, other)
      BY <1>4, <1>8, <3>1, <3>3, TailRuns
    <3> QED BY <3>2, <3>4, <3>6, <3>7, <3>8, <3>9
  <2> QED BY <2>1, <2>2
<1>11. PICK r : r = <<>>
  OBVIOUS
<1>12. e = [tiles |-> y, undo |-> v, redo |-> r]
  <2>3. d.undo = u
    OBVIOUS
  <2>4. e = [d EXCEPT !.undo = v, !.redo = r]
    BY <1>3, <1>9, <1>11, <2>3 DEF Push
  <2> QED BY <2>4
<1>13. e.tiles = y /\ e.undo = v /\ e.redo = r
  BY <1>12
<1>14. r \in Seq(Command) /\ Len(r) = 0 /\ Seen(r, n) /\ Runs(r, y, other, own)
  <2>1. r \in Seq(Command) /\ Len(r) = 0
    BY <1>11, EmptySeq
  <2>2. Seen(r, n)
    BY <2>1 DEF Seen
  <2> QED BY <1>6, <1>11, <2>1, <2>2, EmptyRuns
<1>15. Meet(v, r, y, n, own, other)
  BY <1>0, <1>10, <1>14 DEF Meet
<1>16. Len(v) + Len(r) <= UndoLimit
  BY <1>10, <1>14, LenProperties
<1>17. Fits(e, n)
  BY <1>7, <1>12, <1>13, <1>15, <1>16 DEF Fits
<1> QED BY <1>10, <1>13, <1>17

\* An operation over the area has the number k.
LEMMA PaintedFits ==
  ASSUME NEW n \in Nat, Fits(Current, n), NEW k \in Nat, k = n + 1, k <= MaxOps,
         NEW area \in Areas, NEW changed \in SUBSET area, NEW e, e = Painted(k, area, changed)
  PROVE  /\ Fits(e, k)
         /\ changed # {} => Undone(e).tiles = tiles
<1>1. /\ Current.tiles = tiles /\ Current.undo = undo /\ Current.redo = redo
      /\ Meet(undo, redo, tiles, n, "after", "before") /\ Len(undo) + Len(redo) <= UndoLimit
  BY DEF Current, Fits
<1>2. /\ undo \in Seq(Command) /\ redo \in Seq(Command) /\ tiles \in [Tile -> 0..n]
      /\ Seen(undo, n) /\ Seen(redo, n)
      /\ Runs(undo, tiles, "after", "before") /\ Runs(redo, tiles, "before", "after")
  BY <1>1 DEF Meet
<1>3. PICK new : new = [t \in Tile |-> IF t \in changed THEN k ELSE tiles[t]]
  OBVIOUS
<1>4. PICK cmd : cmd = Snapshot(area, tiles, new)
  OBVIOUS
<1>5. area \subseteq Tile /\ area # {} /\ changed \subseteq area
  BY DEF Areas
<1>6. 0..n \subseteq 0..k /\ k \in 0..k /\ 0..k \subseteq 0..MaxOps /\ k \notin 0..n
  <2>1. MaxOps \in Nat
    BY RecordedDocumentAssumption
  <2> QED BY <2>1
<1>7. new \in [Tile -> 0..k] /\ \A t \in Tile : tiles[t] \in 0..k
  BY <1>2, <1>3, <1>6
<1>8. /\ DOMAIN cmd = area
      /\ \A t \in area : cmd[t] = [before |-> tiles[t], after |-> new[t]]
      /\ \A t \in area : cmd[t]["before"] = tiles[t] /\ cmd[t]["after"] = new[t]
  BY <1>4 DEF Snapshot
<1>9. cmd \in Command
  <2>1. \A t \in area : [before |-> tiles[t], after |-> new[t]] \in [before : 0..MaxOps, after : 0..MaxOps]
    BY <1>5, <1>6, <1>7
  <2>2. cmd \in [area -> [before : 0..MaxOps, after : 0..MaxOps]]
    BY <1>4, <2>1 DEF Snapshot
  <2>3. area \in (SUBSET Tile) \ {{}}
    BY <1>5
  <2> QED BY <2>2, <2>3 DEF Command
<1>10. Turns(cmd, tiles, new, "after", "before")
  BY <1>3, <1>5, <1>8 DEF Turns
<1>11. PICK d : d = [tiles |-> new, undo |-> undo, redo |-> redo]
  OBVIOUS
<1>12. e = IF Changes(cmd) THEN Push(d, cmd) ELSE d
  BY <1>3, <1>4, <1>11 DEF Painted, Current
<1>13. PICK l \in Nat, m \in Nat : l = Len(undo) /\ m = Len(redo) /\ l + m <= UndoLimit
  BY <1>1, <1>2, LenProperties
<1>14. n \in Nat /\ k \in Nat /\ n <= k
  OBVIOUS
<1>15. Seen(undo, k) /\ Seen(redo, k)
  BY <1>2, <1>14, SeenLater
<1>16. CASE Changes(cmd)
  <2>1. e = Push(d, cmd)
    BY <1>12, <1>16
  <2>2. Len(undo) <= UndoLimit
    BY <1>13, RecordedDocumentAssumption
  <2>3. \A t \in DOMAIN cmd : cmd[t].before \in 0..k /\ cmd[t].after \in 0..k
    BY <1>5, <1>7, <1>8
  <2>4. Captured(undo, tiles, new, cmd, k)
    BY <1>2, <1>7, <1>9, <1>10, <1>15, <2>2, <2>3 DEF Captured
  <2>5. e.undo # <<>> /\ Last(e.undo) = cmd /\ e.tiles = new /\ Fits(e, k)
    BY <1>11, <1>14, <2>1, <2>4, PushFits
  <2>6. Undone(e).tiles = Restore(new, cmd, "before")
    BY <2>5 DEF Undone
  <2>7. Restore(new, cmd, "before") = tiles
    <3>1. \A t \in Tile : tiles[t] = IF t \in DOMAIN cmd THEN cmd[t]["before"] ELSE new[t]
      BY <1>10 DEF Turns
    <3>2. tiles = [t \in Tile |-> tiles[t]]
      BY <1>2
    <3> QED BY <3>1, <3>2 DEF Restore
  <2> QED BY <2>5, <2>6, <2>7
<1>17. CASE ~Changes(cmd)
  <2>1. e = d
    BY <1>12, <1>17
  <2>2. \A t \in Tile : new[t] = tiles[t]
    BY <1>3, <1>5, <1>8, <1>17 DEF Changes
  <2>3. new = tiles
    <3>1. new = [t \in Tile |-> new[t]] /\ tiles = [t \in Tile |-> tiles[t]]
      BY <1>2, <1>7
    <3> QED BY <2>2, <3>1
  <2>4. changed = {}
    <3>1. \A t \in changed : new[t] = k /\ tiles[t] \in 0..n /\ t \in Tile
      BY <1>2, <1>3, <1>5
    <3> QED BY <1>6, <2>2, <3>1
  <2>5. Meet(undo, redo, new, k, "after", "before")
    BY <1>2, <1>7, <1>15, <2>3 DEF Meet
  <2>6. d.tiles = new /\ d.undo = undo /\ d.redo = redo
    BY <1>11
  <2>7. Fits(e, k)
    BY <1>1, <1>11, <2>1, <2>5, <2>6 DEF Fits
  <2> QED BY <2>4, <2>7
<1> QED BY <1>16, <1>17

-----------------------------------------------------------------------------
(* The recording.                                                           *)

\* A point of the pen.
LEMMA EmitHeld ==
  ASSUME NEW n \in Nat, NEW js, \A j \in js : Held(j, n), NEW k \in Nat, k = n + 1, NEW x \in Emit(js, k)
  PROVE  Held(x, k)
<1>0. PICK j \in js : x \in {o.journal : o \in WriteOutcomes(j, Frame(k))}
  BY DEF Emit
<1>1. PICK o \in WriteOutcomes(j, Frame(k)) : x = o.journal
  BY <1>0
<1>2. PICK r \in Record : r = Frame(k)
  BY RecordTypes
<1>3. ~IsEnd(r) /\ Follows(r, n, k)
  BY <1>2, Tags DEF Follows
<1>4. Held(j, n) /\ o \in WriteOutcomes(j, r)
  BY <1>1, <1>2
<1>5. Held(o.journal, k)
  BY <1>3, <1>4, WrittenHeld
<1> QED BY <1>1, <1>5

\* The end of the stroke.
LEMMA FinishSealed ==
  ASSUME NEW n \in Nat, NEW js, \A j \in js : Held(j, n), NEW x \in Finish(js, n)
  PROVE  Sealed(x, n)
<1>1. PICK j \in js : x \in {o.journal : o \in StrokeEndOutcomes(j, n)}
  BY DEF Finish
<1>2. PICK o \in StrokeEndOutcomes(j, n) : x = o.journal
  BY <1>1
<1>3. Held(j, n)
  BY <1>1
<1>4. Sealed(o.journal, n)
  BY <1>3, StrokeEndSealed
<1> QED BY <1>2, <1>4

\* The note behind a region operation.
LEMMA NoteSealed ==
  ASSUME NEW n \in Nat, NEW j, Sealed(j, n), NEW o \in WriteOutcomes(j, Note)
  PROVE  Sealed(o.journal, n)
<1>1. PICK r \in Record : r = Note
  BY RecordTypes
<1>2. ~IsEnd(r) /\ Follows(r, n, n)
  BY <1>1, Tags DEF Follows
<1>3. Held(j, n) /\ o \in WriteOutcomes(j, r)
  BY <1>1 DEF Sealed
<1>4. /\ Held(o.journal, n)
      /\ ~o.journal.failed => ~j.failed /\ Recovered(o.journal.file) = Recovered(j.file)
  BY <1>2, <1>3, WrittenHeld
<1> QED BY <1>4 DEF Sealed

\* The recording of an operation of either kind adds its two frames.
LEMMA RecordingSealed ==
  ASSUME NEW n \in Nat, NEW j, Held(j, n), NEW k \in Nat, 2 * k = n + 2, NEW kind,
         NEW x \in Recordings(j, kind, k)
  PROVE  Sealed(x, 2 * k)
<1>1. PICK p \in Nat, q \in Nat : p = 2 * k - 1 /\ q = 2 * k /\ p = n + 1 /\ q = p + 1 /\ q - 1 = p
  OBVIOUS
<1>2. PICK A, B, C : A = Emit({j}, p) /\ B = Emit(A, q) /\ C = Finish(B, q)
  OBVIOUS
<1>3. \A y \in A : Held(y, p)
  <2>1. \A y \in {j} : Held(y, n)
    OBVIOUS
  <2> QED BY <1>1, <1>2, <2>1, EmitHeld
<1>4. \A y \in B : Held(y, q)
  BY <1>1, <1>2, <1>3, EmitHeld
<1>5. \A y \in C : Sealed(y, q)
  BY <1>2, <1>4, FinishSealed
<1>6. CASE kind = "stroke"
  <2>1. x \in C
    BY <1>1, <1>2, <1>6 DEF Recordings
  <2> QED BY <1>1, <1>5, <2>1
<1>7. CASE kind # "stroke"
  <2>1. x \in UNION {{o.journal : o \in WriteOutcomes(y, Note)} : y \in C}
    BY <1>1, <1>2, <1>7 DEF Recordings, RecordRegionOp
  <2>2. PICK y \in C : x \in {o.journal : o \in WriteOutcomes(y, Note)}
    BY <2>1
  <2>3. PICK o \in WriteOutcomes(y, Note) : x = o.journal
    BY <2>2
  <2>4. Sealed(y, q)
    BY <1>5
  <2>5. Sealed(o.journal, q)
    BY <2>4, NoteSealed
  <2> QED BY <1>1, <2>3, <2>5
<1> QED BY <1>6, <1>7

\* The frames of a journal are in order up to n, and its file begins with f.
Grown(j, f, n) == j \in Journal /\ Begins(f, j.file) /\ FramesAscend(AllOf(j), n)

\* A record more, taken or lost.
LEMMA WriteGrows ==
  ASSUME NEW f \in Seq(Record), NEW j, NEW n \in Nat, Grown(j, f, n), NEW r \in Record, NEW m \in Nat,
         (~IsFrame(r) /\ m = n) \/ (r = Frame(n + 1) /\ m = n + 1),
         NEW o \in WriteOutcomes(j, r)
  PROVE  Grown(o.journal, f, m)
<1>1. j \in Journal /\ Begins(f, j.file) /\ FramesAscend(AllOf(j), n)
  BY DEF Grown
<1>2. o.journal \in Journal /\ Begins(j.file, o.journal.file)
  BY <1>1, WriteAdvances DEF Advances
<1>3. j.file \in Seq(Record) /\ o.journal.file \in Seq(Record)
  BY <1>1, <1>2, JournalFields
<1>4. Begins(f, o.journal.file)
  BY <1>1, <1>2, <1>3, BeginsTransitive
<1>5. FramesAscend(AllOf(o.journal), m)
  BY <1>1, WriteOrdered
<1> QED BY <1>2, <1>4, <1>5 DEF Grown

\* The end of a stroke.
LEMMA StrokeEndGrows ==
  ASSUME NEW f \in Seq(Record), NEW j, NEW n \in Nat, Grown(j, f, n), NEW s \in Nat,
         NEW o \in StrokeEndOutcomes(j, s)
  PROVE  Grown(o.journal, f, n)
<1>1. j \in Journal /\ Begins(f, j.file) /\ FramesAscend(AllOf(j), n)
  BY DEF Grown
<1>2. o.journal \in Journal /\ Begins(j.file, o.journal.file)
  BY <1>1, StrokeEndAdvances DEF Advances
<1>3. j.file \in Seq(Record) /\ o.journal.file \in Seq(Record)
  BY <1>1, <1>2, JournalFields
<1>4. Begins(f, o.journal.file)
  BY <1>1, <1>2, <1>3, BeginsTransitive
<1>5. FramesAscend(AllOf(o.journal), n)
  BY <1>1, StrokeEndOrdered
<1> QED BY <1>2, <1>4, <1>5 DEF Grown

\* A point of the pen.
LEMMA EmitGrows ==
  ASSUME NEW f \in Seq(Record), NEW n \in Nat, NEW js, \A j \in js : Grown(j, f, n),
         NEW k \in Nat, k = n + 1, NEW x \in Emit(js, k)
  PROVE  Grown(x, f, k)
<1>1. PICK j \in js : x \in {o.journal : o \in WriteOutcomes(j, Frame(k))}
  BY DEF Emit
<1>2. PICK o \in WriteOutcomes(j, Frame(k)) : x = o.journal
  BY <1>1
<1>3. PICK r \in Record : r = Frame(k)
  BY RecordTypes
<1>4. Grown(j, f, n) /\ o \in WriteOutcomes(j, r) /\ r = Frame(n + 1)
  BY <1>2, <1>3
<1>5. Grown(o.journal, f, k)
  BY <1>4, WriteGrows
<1> QED BY <1>2, <1>5

\* Whatever the disk refuses of an operation's recording, the frames stay in
\* order, and nothing that was on file is gone.
LEMMA RecordingGrows ==
  ASSUME NEW f \in Seq(Record), NEW n \in Nat, NEW j, Grown(j, f, n), NEW k \in Nat, 2 * k = n + 2, NEW kind,
         NEW x \in Recordings(j, kind, k)
  PROVE  Grown(x, f, 2 * k)
<1>1. PICK p \in Nat, q \in Nat : p = 2 * k - 1 /\ q = 2 * k /\ p = n + 1 /\ q = p + 1 /\ q - 1 = p
  OBVIOUS
<1>2. PICK A, B, C : A = Emit({j}, p) /\ B = Emit(A, q) /\ C = Finish(B, q)
  OBVIOUS
<1>3. \A y \in A : Grown(y, f, p)
  <2>1. \A y \in {j} : Grown(y, f, n)
    OBVIOUS
  <2> QED BY <1>1, <1>2, <2>1, EmitGrows
<1>4. \A y \in B : Grown(y, f, q)
  BY <1>1, <1>2, <1>3, EmitGrows
<1>5. ASSUME NEW y \in C PROVE Grown(y, f, q)
  <2>1. PICK b \in B : y \in {o.journal : o \in StrokeEndOutcomes(b, q)}
    BY <1>2 DEF Finish
  <2>2. PICK o \in StrokeEndOutcomes(b, q) : y = o.journal
    BY <2>1
  <2>3. Grown(b, f, q)
    BY <1>4
  <2>4. Grown(o.journal, f, q)
    BY <2>3, StrokeEndGrows
  <2> QED BY <2>2, <2>4
<1>6. CASE kind = "stroke"
  <2>1. x \in C
    BY <1>1, <1>2, <1>6 DEF Recordings
  <2> QED BY <1>1, <1>5, <2>1
<1>7. CASE kind # "stroke"
  <2>1. x \in UNION {{o.journal : o \in WriteOutcomes(y, Note)} : y \in C}
    BY <1>1, <1>2, <1>7 DEF Recordings, RecordRegionOp
  <2>2. PICK y \in C : x \in {o.journal : o \in WriteOutcomes(y, Note)}
    BY <2>1
  <2>3. PICK r \in Record : r = Note /\ ~IsFrame(r)
    BY RecordTypes, Tags
  <2>4. PICK o \in WriteOutcomes(y, r) : x = o.journal
    BY <2>2, <2>3
  <2>5. Grown(y, f, q)
    BY <1>5
  <2>6. Grown(o.journal, f, q)
    BY <2>3, <2>5, WriteGrows
  <2> QED BY <1>1, <2>4, <2>6
<1> QED BY <1>6, <1>7

-----------------------------------------------------------------------------
(* The process log.                                                         *)

\* What summarizeStrokes yields.
Summary == [first : Nat, last : Nat, points : Nat, synthetic : BOOLEAN]

\* The frames of operation k.
FirstPoint(f, k, syn) == f = [seq |-> 2 * k - 1, down |-> TRUE, up |-> FALSE, synthetic |-> syn]
LastPoint(f, k, syn)  == f = [seq |-> 2 * k, down |-> FALSE, up |-> TRUE, synthetic |-> syn]

\* Frame s belongs to operation k.
LEMMA Halves ==
  ASSUME NEW k \in Nat \ {0}
  PROVE  /\ (2 * k - 1) % 2 = 1 /\ (2 * k) % 2 = 0
         /\ ((2 * k - 1) + 1) \div 2 = k /\ (2 * k + 1) \div 2 = k
OBVIOUS

\* FrameOf makes a first or a last point, synthetic as the operation is a region's.
LEMMA FrameOfIs ==
  ASSUME NEW d, NEW k \in Nat \ {0}, NEW s, NEW f, f = FrameOf(d, s)
  PROVE  \E syn \in BOOLEAN : /\ syn = TRUE <=> d[k] = "region"
                              /\ s = 2 * k - 1 => FirstPoint(f, k, syn)
                              /\ s = 2 * k => LastPoint(f, k, syn)
<1>1. PICK syn \in BOOLEAN : syn = (d[k] = "region")
  BY Zenon
<1>2. syn = TRUE <=> d[k] = "region"
  BY <1>1, Zenon
<1>3. ASSUME s = 2 * k - 1 PROVE FirstPoint(f, k, syn)
  <2>1. s % 2 = 1 /\ s % 2 # 0 /\ (s + 1) \div 2 = k
    BY <1>3, Halves
  <2>2. (s % 2 = 1) = TRUE /\ (s % 2 = 0) = FALSE
    BY <2>1, Zenon
  <2> QED BY <1>1, <1>3, <2>1, <2>2, Zenon DEF FrameOf, FirstPoint
<1>4. ASSUME s = 2 * k PROVE LastPoint(f, k, syn)
  <2>1. s % 2 = 0 /\ s % 2 # 1 /\ (s + 1) \div 2 = k
    BY <1>4, Halves
  <2>2. (s % 2 = 1) = FALSE /\ (s % 2 = 0) = TRUE
    BY <2>1, Zenon
  <2> QED BY <1>1, <1>4, <2>1, <2>2, Zenon DEF FrameOf, LastPoint
<1> QED BY <1>2, <1>3, <1>4

\* A first point ends what was left open and opens a summary.
LEMMA FirstSummarized ==
  ASSUME NEW acc, NEW f, NEW k \in Nat \ {0}, NEW syn \in BOOLEAN, FirstPoint(f, k, syn),
         NEW c, c = [first |-> 2 * k - 1, last |-> 2 * k - 1, points |-> 1, synthetic |-> syn]
  PROVE  /\ Summarized(acc, f) = [done |-> acc.done \o acc.cur, cur |-> <<c>>]
         /\ c \in Summary
<1>1. PICK s \in Nat : s = 2 * k - 1
  OBVIOUS
<1>2. f = [seq |-> s, down |-> TRUE, up |-> FALSE, synthetic |-> syn]
  BY <1>1 DEF FirstPoint
<1>3. f.seq = s /\ f.down = TRUE /\ f.up = FALSE /\ f.synthetic = syn
  BY <1>2
<1>4. c = [first |-> s, last |-> s, points |-> 1, synthetic |-> syn]
  BY <1>1
<1>5. Begun(f) = c
  BY <1>3, <1>4 DEF Begun
<1>6. c \in Summary
  BY <1>4 DEF Summary
<1> QED BY <1>3, <1>5, <1>6 DEF Summarized

\* A last point continues a summary ...
LEMMA PointContinued ==
  ASSUME NEW f, NEW k \in Nat \ {0}, NEW syn \in BOOLEAN, LastPoint(f, k, syn),
         NEW c \in Summary, NEW s, s = Continued(c, f)
  PROVE  s \in Summary /\ s.first = c.first /\ s.last = 2 * k /\ s.synthetic = c.synthetic
<1>1. PICK q \in Nat : q = 2 * k
  OBVIOUS
<1>2. f = [seq |-> q, down |-> FALSE, up |-> TRUE, synthetic |-> syn]
  BY <1>1 DEF LastPoint
<1>3. f.seq = q
  BY <1>2
<1>4. c.points + 1 \in Nat
  BY DEF Summary
<1>5. s = [c EXCEPT !.last = q, !.points = c.points + 1]
  BY <1>3 DEF Continued
<1>6. s \in Summary /\ s.first = c.first /\ s.last = q /\ s.synthetic = c.synthetic
  BY <1>4, <1>5 DEF Summary
<1> QED BY <1>1, <1>6

\* ... which it closes ...
LEMMA LastSummarized ==
  ASSUME NEW acc, NEW f, NEW k \in Nat \ {0}, NEW syn \in BOOLEAN, LastPoint(f, k, syn),
         NEW c \in Summary, acc.cur = <<c>>, NEW s, s = Continued(c, f)
  PROVE  Summarized(acc, f) = [done |-> Append(acc.done, s), cur |-> <<>>]
<1>1. f = [seq |-> 2 * k, down |-> FALSE, up |-> TRUE, synthetic |-> syn]
  BY DEF LastPoint
<1>2. f.down = FALSE /\ f.up = TRUE
  BY <1>1
<1>3. acc.cur # <<>> /\ acc.cur[1] = c
  OBVIOUS
<1> QED BY <1>2, <1>3 DEF Summarized

\* ... or is a summary by itself.
LEMMA LoneSummarized ==
  ASSUME NEW acc, acc.done \in Seq(Summary), NEW f, NEW k \in Nat \ {0}, NEW syn \in BOOLEAN,
         LastPoint(f, k, syn), acc.cur = <<>>,
         NEW s, s = [first |-> 2 * k, last |-> 2 * k, points |-> 1, synthetic |-> syn]
  PROVE  /\ Summarized(acc, f) = [done |-> Append(acc.done, s), cur |-> <<>>]
         /\ s \in Summary
<1>1. PICK q \in Nat : q = 2 * k
  OBVIOUS
<1>2. f = [seq |-> q, down |-> FALSE, up |-> TRUE, synthetic |-> syn]
  BY <1>1 DEF LastPoint
<1>3. f.seq = q /\ f.down = FALSE /\ f.up = TRUE /\ f.synthetic = syn
  BY <1>2
<1>4. s = [first |-> q, last |-> q, points |-> 1, synthetic |-> syn]
  BY <1>1
<1>5. Begun(f) = s /\ s \in Summary
  BY <1>3, <1>4 DEF Begun, Summary
<1>6. acc.done \o acc.cur = acc.done
  BY ConcatEmptySeq
<1> QED BY <1>3, <1>5, <1>6 DEF Summarized

\* The summary is of one operation.
Same(s) == (s.first + 1) \div 2 = (s.last + 1) \div 2

\* The frames of the first n operations, in order; where both frames of one are
\* there, nothing is between them.
Points(frames, d, n) ==
  /\ \A i \in 1..Len(frames) : \E k \in 1..n : \E syn \in BOOLEAN :
       /\ syn = TRUE <=> d[k] = "region"
       /\ FirstPoint(frames[i], k, syn) \/ LastPoint(frames[i], k, syn)
  /\ \A i \in 2..Len(frames) : \A k, l \in 1..n : \A a, b \in BOOLEAN :
       FirstPoint(frames[i - 1], k, a) /\ LastPoint(frames[i], l, b) => k = l

\* After i frames: whole summaries of one operation each, and perhaps the first
\* point of another.
Summing(acc, frames, i, n) ==
  /\ acc.done \in Seq(Summary) /\ acc.cur \in Seq(Summary)
  /\ \A j \in 1..Len(acc.done) : Same(acc.done[j])
  /\ acc.cur # <<>> => \E c \in Summary : \E k \in 1..n : \E syn \in BOOLEAN :
       /\ acc.cur = <<c>> /\ c.first = 2 * k - 1 /\ c.last = 2 * k - 1
       /\ i # 0 /\ FirstPoint(frames[i], k, syn)

\* Nothing read, nothing summed.
LEMMA SummingNothing ==
  ASSUME NEW acc, acc = [done |-> <<>>, cur |-> <<>>], NEW frames, NEW n
  PROVE  Summing(acc, frames, 0, n)
<1>1. <<>> \in Seq(Summary) /\ Len(<<>>) = 0
  BY EmptySeq
<1> QED BY <1>1 DEF Summing

\* A summary is added.
LEMMA OneSummed ==
  ASSUME NEW q \in Seq(Summary), \A j \in 1..Len(q) : Same(q[j]), NEW s \in Summary, Same(s),
         NEW w, w = Append(q, s)
  PROVE  w \in Seq(Summary) /\ \A j \in 1..Len(w) : Same(w[j])
<1>1. PICK l \in Nat : l = Len(q)
  BY LenProperties
<1>2. w \in Seq(Summary) /\ Len(w) = l + 1 /\ (\A j \in 1..l : w[j] = q[j]) /\ w[l + 1] = s
  BY <1>1, Appended
<1>3. ASSUME NEW j \in 1..(l + 1) PROVE Same(w[j])
  <2>1. j \in 1..l \/ j = l + 1
    OBVIOUS
  <2> QED BY <1>1, <1>2, <2>1
<1> QED BY <1>2, <1>3

\* One frame more.
LEMMA SummingOn ==
  ASSUME NEW frames, NEW d, NEW n \in Nat, Points(frames, d, n),
         NEW i \in 1..Len(frames), NEW acc, Summing(acc, frames, i - 1, n),
         NEW next, next = Summarized(acc, frames[i]), Len(frames) \in Nat
  PROVE  Summing(next, frames, i, n)
<1>1. PICK k \in 1..n : \E syn \in BOOLEAN :
        FirstPoint(frames[i], k, syn) \/ LastPoint(frames[i], k, syn)
  BY DEF Points
<1>2. PICK syn \in BOOLEAN : FirstPoint(frames[i], k, syn) \/ LastPoint(frames[i], k, syn)
  BY <1>1
<1>3. k \in Nat \ {0} /\ i # 0
  BY <1>1
<1>4. acc.done \in Seq(Summary) /\ acc.cur \in Seq(Summary) /\ \A j \in 1..Len(acc.done) : Same(acc.done[j])
  BY DEF Summing
<1>5. CASE FirstPoint(frames[i], k, syn)
  <2>1. PICK c : c = [first |-> 2 * k - 1, last |-> 2 * k - 1, points |-> 1, synthetic |-> syn]
    OBVIOUS
  <2>2. next = [done |-> acc.done \o acc.cur, cur |-> <<c>>] /\ c \in Summary
    BY <1>3, <1>5, <2>1, FirstSummarized
  <2>3. PICK w : w = acc.done \o acc.cur
    OBVIOUS
  <2>4. w \in Seq(Summary) /\ \A j \in 1..Len(w) : Same(w[j])
    <3>1. CASE acc.cur = <<>>
      <4>1. w = acc.done
        BY <1>4, <2>3, <3>1, ConcatEmptySeq
      <4> QED BY <1>4, <4>1
    <3>2. CASE acc.cur # <<>>
      <4>1. PICK b \in Summary : acc.cur = <<b>> /\ b.first = b.last
        BY <3>2 DEF Summing
      <4>2. w = Append(acc.done, b)
        BY <1>4, <2>3, <4>1, AppendIsConcat
      <4>3. Same(b)
        BY <4>1 DEF Same
      <4> QED BY <1>4, <4>2, <4>3, OneSummed
    <3> QED BY <3>1, <3>2
  <2>7. <<c>> \in Seq(Summary)
    BY <2>2
  <2>8. PICK e : e = <<c>>
    OBVIOUS
  <2>9. next = [done |-> w, cur |-> e]
    BY <2>2, <2>3, <2>8
  <2>10. next.done = w /\ next.cur = e
    BY <2>9
  <2>5. next.done = w /\ next.cur = <<c>>
    BY <2>8, <2>10
  <2>6. c.first = 2 * k - 1 /\ c.last = 2 * k - 1
    BY <2>1
  <2> QED BY <1>3, <1>5, <2>2, <2>4, <2>5, <2>6, <2>7 DEF Summing
<1>6. CASE LastPoint(frames[i], k, syn)
  <2>1. PICK s \in Summary : Same(s) /\ next = [done |-> Append(acc.done, s), cur |-> <<>>]
    <3>1. CASE acc.cur = <<>>
      <4>1. PICK s : s = [first |-> 2 * k, last |-> 2 * k, points |-> 1, synthetic |-> syn]
        OBVIOUS
      <4>2. s \in Summary /\ next = [done |-> Append(acc.done, s), cur |-> <<>>]
        <5>1. LastPoint(frames[i], k, syn) /\ acc.done \in Seq(Summary) /\ k \in Nat \ {0}
          BY <1>3, <1>4, <1>6
        <5>2. /\ Summarized(acc, frames[i]) = [done |-> Append(acc.done, s), cur |-> <<>>]
              /\ s \in Summary
          BY <3>1, <4>1, <5>1, LoneSummarized
        <5> QED BY <1>4, <5>2
      <4>3. Same(s)
        BY <4>1 DEF Same
      <4> QED BY <4>2, <4>3
    <3>2. CASE acc.cur # <<>>
      <4>1. PICK c \in Summary : \E l \in 1..n : \E b \in BOOLEAN :
              /\ acc.cur = <<c>> /\ c.first = 2 * l - 1
              /\ i - 1 # 0 /\ FirstPoint(frames[i - 1], l, b)
        BY <3>2 DEF Summing
      <4>2. PICK l \in 1..n : \E b \in BOOLEAN :
              /\ acc.cur = <<c>> /\ c.first = 2 * l - 1
              /\ i - 1 # 0 /\ FirstPoint(frames[i - 1], l, b)
        BY <4>1
      <4>3. PICK b \in BOOLEAN : FirstPoint(frames[i - 1], l, b)
        BY <4>2
      <4>4. i \in 2..Len(frames)
        BY <4>2
      <4>5. l = k
        BY <1>2, <1>6, <4>3, <4>4 DEF Points
      <4>10. PICK f : f = frames[i] /\ LastPoint(f, k, syn)
        BY <1>6
      <4>6. PICK s : s = Continued(c, f)
        OBVIOUS
      <4>11. acc.cur = <<c>>
        BY <4>2
      <4>12. k \in Nat \ {0} /\ LastPoint(f, k, syn) /\ c \in Summary
        BY <1>3, <4>10
      <4>13. Summarized(acc, f) = [done |-> Append(acc.done, s), cur |-> <<>>]
        BY <4>6, <4>11, <4>12, LastSummarized
      <4>14. s \in Summary /\ s.first = c.first /\ s.last = 2 * k
        BY <4>6, <4>12, PointContinued
      <4>7. /\ next = [done |-> Append(acc.done, s), cur |-> <<>>]
            /\ s \in Summary /\ s.first = c.first /\ s.last = 2 * k
        BY <4>10, <4>13, <4>14
      <4>8. s.first = 2 * k - 1 /\ s.last = 2 * k
        BY <4>2, <4>5, <4>7
      <4>9. Same(s)
        BY <1>3, <4>8, Halves DEF Same
      <4> QED BY <4>7, <4>9
    <3> QED BY <3>1, <3>2
  <2>2. PICK w : w = Append(acc.done, s)
    OBVIOUS
  <2>3. w \in Seq(Summary) /\ \A j \in 1..Len(w) : Same(w[j])
    BY <1>4, <2>1, <2>2, OneSummed
  <2>4. next.done = w /\ next.cur = <<>> /\ <<>> \in Seq(Summary)
    BY <2>1, <2>2, EmptySeq
  <2> QED BY <2>3, <2>4 DEF Summing
<1> QED BY <1>2, <1>5, <1>6

\* One step of summing, from what the steps before have summed.
SumStep(frames, before, i) ==
  IF i = 0 THEN [done |-> <<>>, cur |-> <<>>] ELSE Summarized(before[i - 1], frames[i])

\* f sums the first n frames step by step, and v is what it has then.
Sums(f, frames, n, v) ==
  /\ f = [i \in 0..n |-> SumStep(frames, f, i)]
  /\ v = f[n].done \o f[n].cur

\* The steps can be made one after the other.
LEMMA SummingGoesOn ==
  ASSUME NEW frames, NEW n \in Nat
  PROVE  \E f : f = [i \in 0..n |-> SumStep(frames, f, i)]
<1> DEFINE T == {m \in Nat : ~ \E f : f = [i \in 0..m |-> SumStep(frames, f, i)]}
<1>1. T = {}
  <2> SUFFICES ASSUME T # {} PROVE FALSE
    OBVIOUS
  <2>1. PICK m \in T : \A y \in T : m <= y
    <3>1. T \subseteq Nat
      OBVIOUS
    <3> HIDE DEF T
    <3> QED BY <3>1, LeastNumber
  <2>2. m \in Nat /\ ~ \E f : f = [i \in 0..m |-> SumStep(frames, f, i)]
    OBVIOUS
  <2>3. CASE m = 0
    <3>1. PICK f : f = [i \in 0..0 |-> [done |-> <<>>, cur |-> <<>>]]
      OBVIOUS
    <3>2. f = [i \in 0..m |-> SumStep(frames, f, i)]
      BY <2>3, <3>1 DEF SumStep
    <3> QED BY <2>2, <3>2
  <2>4. CASE m # 0
    <3>1. m - 1 \in Nat /\ ~(m <= m - 1)
      BY <2>2, <2>4
    <3>2. m - 1 \notin T
      BY <2>1, <3>1
    <3>3. PICK f : f = [i \in 0..(m - 1) |-> SumStep(frames, f, i)]
      BY <3>1, <3>2
    <3>4. PICK g : g = [i \in 0..m |-> IF i = m THEN SumStep(frames, f, m) ELSE f[i]]
      OBVIOUS
    <3>5. \A i \in 0..(m - 1) : g[i] = f[i] /\ f[i] = SumStep(frames, f, i)
      <4> SUFFICES ASSUME NEW i \in 0..(m - 1)
                   PROVE  g[i] = f[i] /\ f[i] = SumStep(frames, f, i)
        OBVIOUS
      <4>1. i \in 0..m /\ i # m
        BY <2>2
      <4> QED BY <3>3, <3>4, <4>1
    <3>6. ASSUME NEW i \in 0..m PROVE g[i] = SumStep(frames, g, i)
      <4>1. i # 0 => i - 1 \in 0..(m - 1) /\ g[i - 1] = f[i - 1]
        BY <2>2, <3>5
      <4>2. SumStep(frames, g, i) = SumStep(frames, f, i)
        BY <4>1 DEF SumStep
      <4>3. i = m \/ i \in 0..(m - 1)
        BY <2>2
      <4> QED BY <3>4, <3>5, <4>2, <4>3
    <3>7. g = [i \in 0..m |-> SumStep(frames, g, i)]
      BY <3>4, <3>6
    <3> QED BY <2>2, <3>7
  <2> QED BY <2>3, <2>4
<1> QED BY <1>1

\* The strokes are what the steps lead to.
LEMMA StrokesAre ==
  ASSUME NEW frames, NEW n \in Nat, Len(frames) = n, NEW v, v = SummarizeStrokes(frames)
  PROVE  \E f : Sums(f, frames, n, v)
<1>1. PICK f : f = CHOOSE g : g = [i \in 0..n |-> SumStep(frames, g, i)]
  OBVIOUS
<1>2. f = [i \in 0..n |-> SumStep(frames, f, i)]
  BY <1>1, SummingGoesOn
<1>3. v = f[n].done \o f[n].cur
  BY <1>1 DEF SummarizeStrokes, SumStep
<1> QED BY <1>2, <1>3 DEF Sums

\* No summary is of two operations.
LEMMA EachOfOne ==
  ASSUME NEW frames, NEW d, NEW n \in Nat, Points(frames, d, n), NEW l \in Nat, Len(frames) = l,
         NEW v, v = SummarizeStrokes(frames)
  PROVE  v \in Seq(Summary) /\ \A j \in 1..Len(v) : Same(v[j])
<1>0. PICK f : Sums(f, frames, l, v)
  BY StrokesAre
<1>1. f = [i \in 0..l |-> SumStep(frames, f, i)] /\ v = f[l].done \o f[l].cur
  BY <1>0 DEF Sums
<1> DEFINE T == {i \in Nat : i <= l /\ ~Summing(f[i], frames, i, n)}
<1>2. T = {}
  <2> SUFFICES ASSUME T # {} PROVE FALSE
    OBVIOUS
  <2>1. PICK m \in T : \A y \in T : m <= y
    <3>1. T \subseteq Nat
      OBVIOUS
    <3> HIDE DEF T
    <3> QED BY <3>1, LeastNumber
  <2>2. m \in Nat /\ m <= l /\ ~Summing(f[m], frames, m, n)
    OBVIOUS
  <2>3. m \in 0..l /\ f[m] = SumStep(frames, f, m)
    BY <1>1, <2>2
  <2>4. CASE m = 0
    <3>1. f[m] = [done |-> <<>>, cur |-> <<>>]
      BY <2>3, <2>4 DEF SumStep
    <3> QED BY <2>2, <2>4, <3>1, SummingNothing
  <2>5. CASE m # 0
    <3>1. m - 1 \in Nat /\ ~(m <= m - 1) /\ m - 1 <= l /\ m \in 1..Len(frames)
      BY <2>2, <2>5
    <3>2. m - 1 \notin T
      BY <2>1, <3>1
    <3>3. PICK a, b : a = f[m - 1] /\ b = f[m]
      OBVIOUS
    <3>4. Summing(a, frames, m - 1, n)
      BY <3>1, <3>2, <3>3
    <3>5. b = Summarized(a, frames[m])
      BY <2>3, <2>5, <3>3 DEF SumStep
    <3>6. Summing(b, frames, m, n)
      BY <3>1, <3>4, <3>5, SummingOn
    <3> QED BY <2>2, <3>3, <3>6
  <2> QED BY <2>4, <2>5
<1> HIDE DEF T
<1>3. l \notin T /\ l <= l
  BY <1>2
<1> USE DEF T
<1>4. PICK acc : acc = f[l] /\ Summing(acc, frames, l, n)
  BY <1>3
<1> HIDE DEF T
<1>5. v = acc.done \o acc.cur
  BY <1>1, <1>4
<1>6. acc.done \in Seq(Summary) /\ \A j \in 1..Len(acc.done) : Same(acc.done[j])
  BY <1>4 DEF Summing
<1>7. CASE acc.cur = <<>>
  <2>1. v = acc.done
    BY <1>5, <1>6, <1>7, ConcatEmptySeq
  <2> QED BY <1>6, <2>1
<1>8. CASE acc.cur # <<>>
  <2>1. PICK b \in Summary : acc.cur = <<b>> /\ b.first = b.last
    BY <1>4, <1>8 DEF Summing
  <2>2. v = Append(acc.done, b)
    BY <1>5, <1>6, <2>1, AppendIsConcat
  <2>3. Same(b)
    BY <2>1 DEF Same
  <2> QED BY <1>6, <2>2, <2>3, OneSummed
<1> QED BY <1>7, <1>8

\* f and g are the frames of operation k.
BothPoints(f, g, d, k) ==
  \E syn \in BOOLEAN : /\ syn = TRUE <=> d[k] = "region"
                       /\ FirstPoint(f, k, syn) /\ LastPoint(g, k, syn)

\* Both frames of each of n operations, and nothing else.
Paired(frames, d, n) ==
  /\ Len(frames) = 2 * n
  /\ \A k \in 1..n : BothPoints(frames[2 * k - 1], frames[2 * k], d, k)

\* A summary for each of k operations, synthetic as the operation is a region's.
OneEach(q, d, k) ==
  /\ q \in Seq(Summary) /\ Len(q) = k
  /\ \A j \in 1..k : q[j].synthetic = TRUE <=> d[j] = "region"

\* ... and no point of another is open.
Closed(acc, d, k) == OneEach(acc.done, d, k) /\ acc.cur = <<>>

\* One operation more.
LEMMA OneEachOn ==
  ASSUME NEW d, NEW k \in Nat \ {0}, NEW acc, Closed(acc, d, k - 1), NEW f, NEW g, BothPoints(f, g, d, k),
         NEW next, next = Summarized(Summarized(acc, f), g)
  PROVE  Closed(next, d, k)
<1>0. PICK syn \in BOOLEAN : /\ syn = TRUE <=> d[k] = "region"
                             /\ FirstPoint(f, k, syn) /\ LastPoint(g, k, syn)
  BY DEF BothPoints
<1>20. PICK mid : mid = Summarized(acc, f)
  OBVIOUS
<1>21. next = Summarized(mid, g) /\ acc.cur = <<>>
  BY <1>20 DEF Closed
<1>1. PICK c : c = [first |-> 2 * k - 1, last |-> 2 * k - 1, points |-> 1, synthetic |-> syn]
  OBVIOUS
<1>2. mid = [done |-> acc.done \o acc.cur, cur |-> <<c>>] /\ c \in Summary
  BY <1>0, <1>1, <1>20, FirstSummarized
<1>3. PICK q \in Seq(Summary) : q = acc.done /\ Len(q) = k - 1 /\ \A j \in 1..(k - 1) : q[j].synthetic = TRUE <=> d[j] = "region"
  BY DEF OneEach, Closed
<1>4. acc.done \o acc.cur = q
  BY <1>3, <1>21, ConcatEmptySeq
<1>5. mid.done = q /\ mid.cur = <<c>>
  BY <1>2, <1>4
<1>6. PICK s : s = Continued(c, g)
  OBVIOUS
<1>7. next = [done |-> Append(mid.done, s), cur |-> <<>>]
  <2>1. Summarized(mid, g) = [done |-> Append(mid.done, s), cur |-> <<>>]
    BY <1>0, <1>2, <1>5, <1>6, LastSummarized
  <2> QED BY <1>21, <2>1
<1>8. s \in Summary /\ s.synthetic = c.synthetic
  BY <1>0, <1>2, <1>6, PointContinued
<1>9. c.synthetic = syn
  BY <1>1
<1>10. PICK w : w = Append(q, s)
  OBVIOUS
<1>11. /\ w \in Seq(Summary) /\ Len(w) = (k - 1) + 1
       /\ \A j \in 1..(k - 1) : w[j] = q[j]
       /\ w[(k - 1) + 1] = s
  BY <1>3, <1>8, <1>10, Appended
<1>12. (k - 1) + 1 = k
  OBVIOUS
<1>13. ASSUME NEW j \in 1..k PROVE w[j].synthetic = TRUE <=> d[j] = "region"
  <2>1. j \in 1..(k - 1) \/ j = k
    OBVIOUS
  <2> QED BY <1>0, <1>3, <1>8, <1>9, <1>11, <1>12, <2>1
<1>14. OneEach(w, d, k)
  BY <1>11, <1>12, <1>13 DEF OneEach
<1>15. next.done = w /\ next.cur = <<>>
  BY <1>5, <1>7, <1>10
<1> QED BY <1>14, <1>15 DEF Closed

\* Of whole operations there is a summary each.
LEMMA AllSummed ==
  ASSUME NEW frames, NEW d, NEW n \in Nat, Paired(frames, d, n),
         NEW v, v = SummarizeStrokes(frames)
  PROVE  OneEach(v, d, n)
<1>1. PICK l \in Nat : l = 2 * n /\ Len(frames) = l
  BY DEF Paired
<1>0. PICK f : Sums(f, frames, l, v)
  BY <1>1, StrokesAre
<1>2. f = [i \in 0..l |-> SumStep(frames, f, i)] /\ v = f[l].done \o f[l].cur
  BY <1>0 DEF Sums
<1> DEFINE T == {k \in Nat : k <= n /\ ~Closed(f[2 * k], d, k)}
<1>3. T = {}
  <2> SUFFICES ASSUME T # {} PROVE FALSE
    OBVIOUS
  <2>1. PICK m \in T : \A y \in T : m <= y
    <3>1. T \subseteq Nat
      OBVIOUS
    <3> HIDE DEF T
    <3> QED BY <3>1, LeastNumber
  <2>2. m \in Nat /\ m <= n /\ ~Closed(f[2 * m], d, m)
    OBVIOUS
  <2>3. CASE m = 0
    <3>1. 2 * m = 0 /\ 0 \in 0..l
      BY <1>1, <2>3
    <3>2. f[2 * m] = [done |-> <<>>, cur |-> <<>>]
      BY <1>2, <3>1 DEF SumStep
    <3>3. PICK e : e = <<>> /\ e \in Seq(Summary) /\ Len(e) = 0
      BY EmptySeq
    <3>4. OneEach(e, d, m)
      BY <2>3, <3>3 DEF OneEach
    <3>5. f[2 * m].done = e /\ f[2 * m].cur = <<>>
      BY <3>2, <3>3
    <3> QED BY <2>2, <3>4, <3>5 DEF Closed
  <2>4. CASE m # 0
    <3>1. m - 1 \in Nat /\ ~(m <= m - 1) /\ m - 1 <= n /\ m \in 1..n /\ m \in Nat \ {0}
      BY <2>2, <2>4
    <3>2. m - 1 \notin T
      BY <2>1, <3>1
    <3>3. PICK a \in Nat, b \in Nat, c \in Nat : /\ a = 2 * (m - 1) /\ b = 2 * m - 1 /\ c = 2 * m
                                                 /\ b - 1 = a /\ c - 1 = b /\ b # 0 /\ c # 0
                                                 /\ b \in 0..l /\ c \in 0..l
      BY <1>1, <3>1
    <3>4. PICK x, y, z : x = f[a] /\ y = f[b] /\ z = f[c]
      OBVIOUS
    <3>5. Closed(x, d, m - 1)
      BY <3>1, <3>2, <3>3, <3>4
    <3>6. f[b] = SumStep(frames, f, b) /\ f[c] = SumStep(frames, f, c)
      BY <1>2, <3>3
    <3>7. y = Summarized(x, frames[b]) /\ z = Summarized(y, frames[c])
      BY <3>3, <3>4, <3>6 DEF SumStep
    <3>9. PICK p, q : p = frames[b] /\ q = frames[c] /\ BothPoints(p, q, d, m)
      BY <3>1, <3>3 DEF Paired
    <3>8. z = Summarized(Summarized(x, p), q)
      BY <3>7, <3>9
    <3>10. Closed(z, d, m)
      BY <3>1, <3>5, <3>8, <3>9, OneEachOn
    <3> QED BY <2>2, <3>3, <3>4, <3>10
  <2> QED BY <2>3, <2>4
<1> HIDE DEF T
<1>4. n \notin T /\ n <= n
  BY <1>3
<1> USE DEF T
<1>5. PICK acc : acc = f[l] /\ Closed(acc, d, n)
  BY <1>1, <1>4
<1> HIDE DEF T
<1>6. PICK q \in Seq(Summary) : q = acc.done /\ OneEach(q, d, n)
  BY <1>5 DEF OneEach, Closed
<1>8. acc.cur = <<>>
  BY <1>5 DEF Closed
<1>7. v = q
  BY <1>8, <1>2, <1>5, <1>6, ConcatEmptySeq
<1> QED BY <1>6, <1>7

\* The frames that have the numbers w.
FramesOf(w, d) == [i \in DOMAIN w |-> FrameOf(d, w[i])]

\* What recovery returned of n operations while or after the last of them was
\* recorded: numbers in order, with all of the operations before.
Returned(w, n) ==
  /\ w \in Seq(Nat)
  /\ \A i \in 1..Len(w) : w[i] \in 1..(2 * n)
  /\ \A i, k \in 1..Len(w) : i < k => w[i] < w[k]
  /\ \A s \in 1..(2 * n - 2) : \E i \in 1..Len(w) : w[i] = s

\* A number up to 2n belongs to one of n operations.
LEMMA OfOne ==
  ASSUME NEW n \in Nat, NEW s \in 1..(2 * n)
  PROVE  \E k \in 1..n : s = 2 * k - 1 \/ s = 2 * k
<1>1. PICK k \in Int : k = (s + 1) \div 2
  OBVIOUS
<1>2. s = 2 * k - 1 \/ s = 2 * k
  BY <1>1
<1>3. k \in 1..n
  BY <1>2
<1> QED BY <1>2, <1>3

\* The frames of what is returned are points in order.
LEMMA PointsReturned ==
  ASSUME NEW n \in Nat, NEW d, NEW w, Returned(w, n),
         NEW frames, frames = FramesOf(w, d)
  PROVE  Points(frames, d, n) /\ Len(frames) = Len(w) /\ Len(w) \in Nat
<1>1. PICK l \in Nat : l = Len(w) /\ DOMAIN w = 1..l
  BY LenProperties DEF Returned
<1>2. frames = [i \in 1..l |-> FrameOf(d, w[i])]
  BY <1>1 DEF FramesOf
<1>3. Len(frames) = l
  BY <1>2
<1>4. /\ \A i \in 1..l : w[i] \in 1..(2 * n)
      /\ \A i, k \in 1..l : i < k => w[i] < w[k]
      /\ \A s \in 1..(2 * n - 2) : \E i \in 1..l : w[i] = s
  BY <1>1 DEF Returned
<1>5. ASSUME NEW i \in 1..l
      PROVE  \E k \in 1..n : \E syn \in BOOLEAN :
               /\ syn = TRUE <=> d[k] = "region"
               /\ FirstPoint(frames[i], k, syn) \/ LastPoint(frames[i], k, syn)
  <2>1. PICK s \in 1..(2 * n) : s = w[i]
    BY <1>4
  <2>2. PICK k \in 1..n : s = 2 * k - 1 \/ s = 2 * k
    BY OfOne
  <2>3. PICK f : f = frames[i] /\ f = FrameOf(d, s)
    BY <1>2, <2>1
  <2>4. k \in Nat \ {0}
    OBVIOUS
  <2>5. PICK syn \in BOOLEAN : /\ syn = TRUE <=> d[k] = "region"
                               /\ s = 2 * k - 1 => FirstPoint(f, k, syn)
                               /\ s = 2 * k => LastPoint(f, k, syn)
    BY <2>3, <2>4, FrameOfIs
  <2> QED BY <2>2, <2>3, <2>5
<1>6. ASSUME NEW i \in 2..l, NEW k \in 1..n, NEW m \in 1..n, NEW a \in BOOLEAN, NEW b \in BOOLEAN,
             FirstPoint(frames[i - 1], k, a), LastPoint(frames[i], m, b)
      PROVE  k = m
  <2>1. PICK h \in 1..l : h = i - 1 /\ h < i /\ i \in 1..l
    OBVIOUS
  <2>2. frames[h].seq = w[h] /\ frames[i].seq = w[i]
    BY <1>2, <2>1 DEF FrameOf
  <2>3. frames[h].seq = 2 * k - 1 /\ frames[i].seq = 2 * m
    BY <1>6, <2>1 DEF FirstPoint, LastPoint
  <2>4. w[h] = 2 * k - 1 /\ w[i] = 2 * m /\ w[h] < w[i]
    BY <1>4, <2>1, <2>2, <2>3
  <2>5. k <= m
    BY <2>4
  <2>6. ~(k < m)
    <3> SUFFICES ASSUME k < m PROVE FALSE
      OBVIOUS
    <3>1. PICK s \in 1..(2 * n - 2) : s = 2 * k
      OBVIOUS
    <3>2. PICK x \in 1..l : w[x] = s
      BY <1>4
    <3>3. w[h] < w[x] /\ w[x] < w[i]
      BY <2>4, <3>1, <3>2
    <3>4. w[h] \in Nat /\ w[x] \in Nat /\ w[i] \in Nat
      BY <1>4, <2>1
    <3>5. x # h /\ x # i /\ ~(x < h) /\ ~(i < x)
      BY <1>4, <2>1, <3>3, <3>4
    <3> QED BY <2>1, <3>5
  <2> QED BY <2>5, <2>6
<1>7. \A i \in 2..l : \A k, m \in 1..n : \A a, b \in BOOLEAN :
        FirstPoint(frames[i - 1], k, a) /\ LastPoint(frames[i], m, b) => k = m
  BY <1>6, Zenon
<1>8. Points(frames, d, n)
  BY <1>3, <1>5, <1>7 DEF Points
<1> QED BY <1>1, <1>3, <1>8

\* Of whole operations in order, they are all the points.
LEMMA PairsReturned ==
  ASSUME NEW n \in Nat, NEW d, NEW w, w = [i \in 1..(2 * n) |-> i],
         NEW frames, frames = FramesOf(w, d)
  PROVE  /\ Paired(frames, d, n)
         /\ \A i \in 1..(2 * n) : frames[i].seq = i
<1>1. frames = [i \in 1..(2 * n) |-> FrameOf(d, i)]
  BY DEF FramesOf
<1>2. Len(frames) = 2 * n
  BY <1>1
<1>3. ASSUME NEW k \in 1..n PROVE BothPoints(frames[2 * k - 1], frames[2 * k], d, k)
  <2>1. PICK p \in 1..(2 * n), q \in 1..(2 * n) : p = 2 * k - 1 /\ q = 2 * k /\ k \in Nat \ {0}
    OBVIOUS
  <2>2. PICK f, g : f = frames[p] /\ f = FrameOf(d, p) /\ g = frames[q] /\ g = FrameOf(d, q)
    BY <1>1
  <2>3. PICK a \in BOOLEAN : (a = TRUE <=> d[k] = "region") /\ (p = 2 * k - 1 => FirstPoint(f, k, a))
    BY <2>1, <2>2, FrameOfIs
  <2>4. PICK b \in BOOLEAN : (b = TRUE <=> d[k] = "region") /\ (q = 2 * k => LastPoint(g, k, b))
    BY <2>1, <2>2, FrameOfIs
  <2>5. a = b
    BY <2>3, <2>4
  <2>6. BothPoints(f, g, d, k)
    BY <2>1, <2>3, <2>4, <2>5 DEF BothPoints
  <2> QED BY <2>1, <2>2, <2>6
<1>4. \A i \in 1..(2 * n) : frames[i].seq = i
  BY <1>1 DEF FrameOf
<1> QED BY <1>2, <1>3, <1>4 DEF Paired

\* The log never takes frames of two operations for one.
LEMMA LogOfOne ==
  ASSUME NEW n \in Nat, NEW d, NEW w, Returned(w, n),
         NEW log, log = BuildProofLog(FramesOf(w, d))
  PROVE  \A s \in ToSet(log.strokes) : Same(s)
<1>1. PICK frames : frames = FramesOf(w, d)
  OBVIOUS
<1>2. PICK v : v = SummarizeStrokes(frames)
  OBVIOUS
<1>3. log.strokes = v
  BY <1>1, <1>2 DEF BuildProofLog
<1>4. Points(frames, d, n) /\ Len(frames) = Len(w) /\ Len(w) \in Nat
  BY <1>1, PointsReturned
<1>5. v \in Seq(Summary) /\ \A j \in 1..Len(v) : Same(v[j])
  BY <1>2, <1>4, EachOfOne
<1> QED BY <1>3, <1>5 DEF ToSet

\* Of whole operations it counts each, and misses no frame.
LEMMA LogCounts ==
  ASSUME NEW n \in Nat, NEW d \in Seq(Kinds), Len(d) = n, NEW w, w = [i \in 1..(2 * n) |-> i],
         NEW log, log = BuildProofLog(FramesOf(w, d))
  PROVE  /\ log.brushStrokes = Cardinality({k \in 1..n : d[k] = "stroke"})
         /\ log.regionOps = Cardinality({k \in 1..n : d[k] = "region"})
         /\ log.lostFrames = {}
<1>1. PICK frames : frames = FramesOf(w, d)
  OBVIOUS
<1>2. PICK v : v = SummarizeStrokes(frames)
  OBVIOUS
<1>3. /\ log.brushStrokes = Counts(v, FALSE) /\ log.regionOps = Counts(v, TRUE)
      /\ log.lostFrames = SeqGaps(frames)
  BY <1>1, <1>2 DEF BuildProofLog
<1>4. Paired(frames, d, n) /\ \A i \in 1..(2 * n) : frames[i].seq = i
  BY <1>1, PairsReturned
<1>5. OneEach(v, d, n)
  BY <1>2, <1>4, AllSummed
<1>6. DOMAIN v = 1..n /\ \A j \in 1..n : v[j].synthetic \in BOOLEAN /\ (v[j].synthetic = TRUE <=> d[j] = "region")
  <2>1. v \in Seq(Summary) /\ Len(v) = n /\ \A j \in 1..n : v[j].synthetic = TRUE <=> d[j] = "region"
    BY <1>5 DEF OneEach
  <2>2. \A j \in 1..n : v[j] \in Summary
    BY <2>1, ElementOfSeq
  <2>3. \A j \in 1..n : v[j].synthetic \in BOOLEAN
    BY <2>2 DEF Summary
  <2> QED BY <2>1, <2>3
<1>7. \A j \in 1..n : d[j] = "stroke" \/ d[j] = "region"
  <2>1. \A j \in 1..n : d[j] \in Kinds
    BY ElementOfSeq
  <2> QED BY <2>1 DEF Kinds
<1>8. \A j \in 1..n : v[j].synthetic = FALSE <=> d[j] = "stroke"
  <2> SUFFICES ASSUME NEW j \in 1..n PROVE v[j].synthetic = FALSE <=> d[j] = "stroke"
    OBVIOUS
  <2>1. v[j].synthetic = FALSE <=> ~(v[j].synthetic = TRUE)
    BY <1>6, Zenon
  <2>2. d[j] = "stroke" <=> ~(d[j] = "region")
    BY <1>7
  <2> QED BY <1>6, <2>1, <2>2
<1>9. {i \in DOMAIN v : v[i].synthetic = FALSE} = {k \in 1..n : d[k] = "stroke"}
  BY <1>6, <1>8, Zenon
<1>10. {i \in DOMAIN v : v[i].synthetic = TRUE} = {k \in 1..n : d[k] = "region"}
  BY <1>6, Zenon
<1>11. SeqGaps(frames) = {}
  <2>1. Len(frames) = 2 * n
    BY <1>4 DEF Paired
  <2>2. \A i \in 2..(2 * n) : frames[i - 1].seq + 1 .. frames[i].seq - 1 = {}
    <3> SUFFICES ASSUME NEW i \in 2..(2 * n) PROVE frames[i - 1].seq + 1 .. frames[i].seq - 1 = {}
      OBVIOUS
    <3>1. frames[i - 1].seq = i - 1 /\ frames[i].seq = i
      BY <1>4
    <3> QED BY <3>1
  <2> QED BY <2>1, <2>2 DEF SeqGaps
<1> QED BY <1>3, <1>9, <1>10, <1>11 DEF Counts

-----------------------------------------------------------------------------
(* The inductive invariant.                                                 *)

\* The stacks lead through canvases, and nothing is newer than the operations
\* that began.
DocInv ==
  /\ drawn \in Seq(Kinds) /\ Len(drawn) <= MaxOps
  /\ broken \in BOOLEAN /\ tally \in [Kinds -> Nat]
  /\ Fits(Current, Len(drawn))

\* While the document takes drawing, recovery would return both frames of every
\* operation; a flush that fails takes nothing from that, for no stroke end
\* waits in a buffer.
FileInv ==
  /\ journal \in Journal
  /\ ~broken => /\ Held(journal, 2 * Len(drawn))
                /\ Recovered(journal.file) = [i \in 1..(2 * Len(drawn)) |-> i]
                /\ EndsWithin(AllOf(journal), Len(journal.file), Nat)

IInv == DocInv /\ FileInv

\* The operations of a kind among the first n.
Drawn(d, n, kind) == {k \in 1..n : d[k] = kind}

\* Whatever failed, the frames are in order, and recovery would return those of
\* every operation but the last; until then every operation is in the tally.
LogInv ==
  /\ FramesAscend(AllOf(journal), 2 * Len(drawn))
  /\ \A s \in 1..(2 * Len(drawn) - 2) :
       \E i \in 1..Len(Recovered(journal.file)) : Recovered(journal.file)[i] = s
  /\ ~broken => \A kind \in Kinds : tally[kind] = Cardinality(Drawn(drawn, Len(drawn), kind))

\* The parts of the current document.
LEMMA CurrentFits ==
  ASSUME NEW n, Fits(Current, n)
  PROVE  /\ Meet(undo, redo, tiles, n, "after", "before")
         /\ Len(undo) + Len(redo) <= UndoLimit
         /\ undo \in Seq(Command) /\ redo \in Seq(Command) /\ tiles \in [Tile -> 0..n]
         /\ Seen(undo, n) /\ Seen(redo, n)
         /\ Runs(undo, tiles, "after", "before") /\ Runs(redo, tiles, "before", "after")
<1>1. Current.tiles = tiles /\ Current.undo = undo /\ Current.redo = redo
  BY DEF Current
<1> QED BY <1>1 DEF Fits, Meet

\* What the document becomes is the current one.
LEMMA BecomesFits ==
  ASSUME NEW n, NEW d, Fits(d, n), Becomes(d)
  PROVE  Fits(Current', n)
<1>1. d = [tiles |-> d.tiles, undo |-> d.undo, redo |-> d.redo]
  BY DEF Fits
<1>2. Current' = d
  BY <1>1 DEF Current, Becomes
<1> QED BY <1>2

\* The types follow.
LEMMA InvTypes ==
  ASSUME IInv
  PROVE  TypeOK
<1>1. PICK n \in Nat : n = Len(drawn) /\ Fits(Current, n)
  BY LenProperties DEF IInv, DocInv
<1>2. /\ undo \in Seq(Command) /\ redo \in Seq(Command) /\ tiles \in [Tile -> 0..n]
      /\ Len(undo) + Len(redo) <= UndoLimit
  BY <1>1, CurrentFits
<1>3. tiles \in [Tile -> Nat]
  BY <1>2
<1>4. (\A i \in DOMAIN undo : undo[i] \in Command) /\ (\A i \in DOMAIN redo : redo[i] \in Command)
  BY <1>2
<1> QED BY <1>2, <1>3, <1>4 DEF TypeOK, IInv, DocInv, FileInv

\* So does the chain.
LEMMA InvChain ==
  ASSUME IInv
  PROVE  UndoChain
<1>1. PICK n \in Nat : n = Len(drawn) /\ Fits(Current, n)
  BY LenProperties DEF IInv, DocInv
<1>2. PICK own, other : own = "after" /\ other = "before"
  OBVIOUS
<1>3. /\ undo \in Seq(Command) /\ redo \in Seq(Command)
      /\ Runs(undo, tiles, own, other) /\ Runs(redo, tiles, other, own)
  BY <1>1, <1>2, CurrentFits
<1>4. ASSUME NEW i \in DOMAIN undo, NEW t \in DOMAIN undo[i]
      PROVE  undo[i][t].after = Beside(undo, i, t, "before")
  <2>1. undo[i][t][own] = Beside(undo, i, t, other)
    BY <1>3, RunsChain
  <2> QED BY <1>2, <2>1
<1>5. ASSUME NEW i \in DOMAIN redo, NEW t \in DOMAIN redo[i]
      PROVE  redo[i][t].before = Beside(redo, i, t, "after")
  <2>1. redo[i][t][other] = Beside(redo, i, t, own)
    BY <1>3, RunsChain
  <2> QED BY <1>2, <2>1
<1> QED BY <1>4, <1>5, InvTypes DEF UndoChain

\* ... and that everything shown, or held by a command, is on record.
LEMMA InvRecorded ==
  ASSUME IInv
  PROVE  RecordedWhileRecording
<1>1. SUFFICES ASSUME ~broken
               PROVE  /\ DrawnIsRecorded
                      /\ \A c \in ToSet(undo \o redo) : \A t \in DOMAIN c :
                           {c[t].before, c[t].after} \subseteq OnRecord \cup {0}
  BY DEF RecordedWhileRecording
<1>2. PICK n \in Nat : n = Len(drawn) /\ Fits(Current, n)
  BY LenProperties DEF IInv, DocInv
<1>3. PICK m \in Nat : m = 2 * n /\ Recovered(journal.file) = [i \in 1..m |-> i]
  BY <1>1, <1>2 DEF IInv, FileInv
<1>4. \A k \in 1..n : {2 * k - 1, 2 * k} \subseteq ToSet(Recovered(journal.file))
  <2> TAKE k \in 1..n
  <2>1. 2 * k - 1 \in 1..m /\ 2 * k \in 1..m
    BY <1>3
  <2>2. \A i \in 1..m : i \in ToSet([x \in 1..m |-> x])
    BY DEF ToSet
  <2> QED BY <1>3, <2>1, <2>2
<1>5. \A k \in 0..n : k \in OnRecord \cup {0}
  <2> TAKE k \in 0..n
  <2>1. k \in 1..n \/ k = 0
    OBVIOUS
  <2> QED BY <1>2, <1>4, <2>1 DEF OnRecord
<1>6. /\ undo \in Seq(Command) /\ redo \in Seq(Command) /\ tiles \in [Tile -> 0..n]
      /\ Seen(undo, n) /\ Seen(redo, n)
  BY <1>2, CurrentFits
<1>7. DrawnIsRecorded
  BY <1>5, <1>6 DEF DrawnIsRecorded
<1>8. ASSUME NEW c \in ToSet(undo \o redo), NEW t \in DOMAIN c
      PROVE  c[t].before \in 0..n /\ c[t].after \in 0..n
  <2>1. PICK w : w = undo \o redo
    OBVIOUS
  <2>2. /\ w \in Seq(Command)
        /\ \A i \in 1..Len(undo) : w[i] = undo[i]
        /\ \A i \in 1..Len(redo) : w[Len(undo) + i] = redo[i]
        /\ \A i \in 1..Len(w) : i \in 1..Len(undo) \/ (i - Len(undo)) \in 1..Len(redo)
    BY <1>6, <2>1, Joined
  <2>3. PICK l \in Nat : l = Len(undo)
    BY <1>6, LenProperties
  <2>4. PICK i \in 1..Len(w) : c = w[i]
    BY <2>1, <2>2 DEF ToSet
  <2>5. CASE i \in 1..Len(undo)
    BY <1>6, <2>2, <2>4, <2>5 DEF Seen
  <2>6. CASE i - l \in 1..Len(redo)
    <3>1. l + (i - l) = i
      BY <2>3
    <3>2. c = redo[i - l]
      BY <2>2, <2>3, <2>4, <2>6, <3>1
    <3> QED BY <1>6, <2>6, <3>2 DEF Seen
  <2> QED BY <2>2, <2>3, <2>5, <2>6
<1> QED BY <1>5, <1>7, <1>8

\* With its own invariant, the log is as the tally.
LEMMA InvTally ==
  ASSUME IInv, LogInv
  PROVE  TallyMatchesJournal
<1>1. PICK n \in Nat : n = Len(drawn)
  BY LenProperties DEF IInv, DocInv
<1>2. PICK w : w = Recovered(journal.file)
  OBVIOUS
<1>3. PICK log : log = BuildProofLog(FramesOf(w, drawn)) /\ log = Log
  BY <1>2 DEF Log, FramesOf
<1>4. journal \in Journal
  BY DEF IInv, FileInv
<1>5. journal.file \in Seq(Record) /\ FramesAscend(journal.file, 2 * n)
  <2>1. FramesAscend(AllOf(journal), 2 * n)
    BY <1>1 DEF LogInv
  <2> QED BY <1>4, <2>1, JournalFields, FileOrdered
<1>6. /\ w \in Seq(Nat)
      /\ \A i \in 1..Len(w) : w[i] \in 1..(2 * n)
      /\ \A i, k \in 1..Len(w) : i < k => w[i] < w[k]
  BY <1>2, <1>5, RecoveredInOrder
<1>7. \A s \in 1..(2 * n - 2) : \E i \in 1..Len(w) : w[i] = s
  BY <1>1, <1>2 DEF LogInv
<1>8. Returned(w, n)
  BY <1>6, <1>7 DEF Returned
<1>9. \A s \in ToSet(log.strokes) : Same(s)
  BY <1>3, <1>8, LogOfOne
<1>10. ASSUME ~broken
       PROVE  log.brushStrokes = tally["stroke"] /\ log.regionOps = tally["region"] /\ log.lostFrames = {}
  <2>1. drawn \in Seq(Kinds) /\ Len(drawn) = n
    BY <1>1 DEF IInv, DocInv
  <2>2. w = [i \in 1..(2 * n) |-> i]
    BY <1>1, <1>2, <1>10 DEF IInv, FileInv
  <2>3. /\ log.brushStrokes = Cardinality({k \in 1..n : drawn[k] = "stroke"})
        /\ log.regionOps = Cardinality({k \in 1..n : drawn[k] = "region"})
        /\ log.lostFrames = {}
    BY <1>3, <2>1, <2>2, LogCounts
  <2>4. \A kind \in Kinds : tally[kind] = Cardinality(Drawn(drawn, n, kind))
    BY <1>1, <1>10 DEF LogInv
  <2>5. "stroke" \in Kinds /\ "region" \in Kinds
    BY DEF Kinds
  <2> QED BY <2>3, <2>4, <2>5 DEF Drawn
<1> QED BY <1>3, <1>9, <1>10 DEF TallyMatchesJournal, Same

-----------------------------------------------------------------------------
(* The steps.                                                               *)

\* Init establishes the invariant.
LEMMA InitInv ==
  ASSUME Init
  PROVE  IInv
<1>1. PICK e : e = <<>>
  OBVIOUS
<1>2. /\ journal = NewJournal /\ broken = FALSE /\ drawn = e /\ undo = e /\ redo = e
      /\ tiles = [t \in Tile |-> 0] /\ tally = [k \in Kinds |-> 0]
  BY <1>1 DEF Init
<1>3. e \in Seq(Kinds) /\ e \in Seq(Command) /\ Len(e) = 0
  BY <1>1, EmptySeq
<1>4. MaxOps \in Nat /\ UndoLimit \in Nat
  BY RecordedDocumentAssumption
<1>5. tiles \in [Tile -> 0..0] /\ tiles \in Canvas /\ tally \in [Kinds -> Nat]
  BY <1>2 DEF Canvas
<1>6. Seen(e, 0)
  BY <1>3 DEF Seen
<1>7. Runs(e, tiles, "after", "before") /\ Runs(e, tiles, "before", "after")
  BY <1>1, <1>5, EmptyRuns
<1>8. Fits(Current, 0)
  <2>1. Current = [tiles |-> tiles, undo |-> e, redo |-> e]
    BY <1>2 DEF Current
  <2>2. Current.tiles = tiles /\ Current.undo = e /\ Current.redo = e
    BY <2>1
  <2>3. Meet(e, e, tiles, 0, "after", "before")
    BY <1>3, <1>5, <1>6, <1>7 DEF Meet
  <2> QED BY <1>3, <1>4, <2>1, <2>2, <2>3 DEF Fits
<1>9. DocInv
  <2>1. PICK n : n = Len(drawn) /\ n = 0
    BY <1>2, <1>3
  <2>2. drawn \in Seq(Kinds) /\ broken \in BOOLEAN
    BY <1>2, <1>3
  <2>4. n <= MaxOps
    BY <1>4, <2>1
  <2>3. Fits(Current, n)
    BY <1>8, <2>1
  <2> QED BY <1>5, <2>1, <2>2, <2>3, <2>4 DEF DocInv
<1>10. journal \in Journal /\ Sound(journal, 0, Nat) /\ Recovered(journal.file) = <<>>
  BY <1>2, NewSound
<1>11. [i \in 1..0 |-> i] = <<>> /\ 2 * Len(drawn) = 0
  BY <1>2, <1>3, EmptySeq
<1>12. EndsWithin(AllOf(journal), Len(journal.file), Nat)
  BY <1>10 DEF Sound
<1>13. FileInv
  BY <1>10, <1>11, <1>12 DEF FileInv, Held
<1> QED BY <1>9, <1>13 DEF IInv

\* An operation that is painted, recorded and, after a failure, rolled back.
LEMMA DrawKeeps ==
  ASSUME IInv, NEW kind \in Kinds, NEW area \in Areas, NEW changed \in SUBSET area,
         Draw(kind, area, changed)
  PROVE  IInv'
<1>1. PICK n \in Nat : n = Len(drawn) /\ Fits(Current, n)
  BY LenProperties DEF IInv, DocInv
<1>2. PICK k \in Nat : k = n + 1 /\ k = Len(drawn) + 1
  BY <1>1
<1>3. PICK d : d = Painted(k, area, changed)
  OBVIOUS
<1>4. ~broken /\ k <= MaxOps /\ drawn' = Append(drawn, kind)
  BY <1>2 DEF Draw
<1>5. PICK j \in Recordings(journal, kind, k) :
        /\ journal' = j
        /\ broken' = Checked(j)
        /\ tally' = Counted(kind, Checked(j))
        /\ Becomes(IF Checked(j) THEN Undone(d) ELSE d)
  BY <1>2, <1>3 DEF Draw
<1>6. drawn' \in Seq(Kinds) /\ Len(drawn') = k
  BY <1>1, <1>2, <1>4, Appended DEF IInv, DocInv
<1>7. Fits(d, k)
  BY <1>1, <1>2, <1>3, <1>4, PaintedFits
<1>8. Fits(Undone(d), k)
  <2>1. PICK e : e = Undone(d)
    OBVIOUS
  <2>2. Fits(e, k)
    BY <1>7, <2>1, UndoneFits
  <2> QED BY <2>1, <2>2
<1>9. Fits(Current', k)
  <2>1. PICK e : e = IF Checked(j) THEN Undone(d) ELSE d
    OBVIOUS
  <2>2. Fits(e, k) /\ Becomes(e)
    BY <1>5, <1>7, <1>8, <2>1
  <2> QED BY <2>2, BecomesFits
<1>10. Sealed(j, 2 * k)
  <2>1. PICK m \in Nat : m = 2 * n /\ 2 * k = m + 2
    BY <1>2
  <2>2. Held(journal, m)
    BY <1>1, <1>4, <2>1 DEF IInv, FileInv
  <2> QED BY <2>1, <2>2, RecordingSealed
<1>11. j \in Journal /\ j.failed \in BOOLEAN
  BY <1>10, JournalFields DEF Sealed, Held
<1>12. broken' = j.failed
  BY <1>4, <1>5, <1>11 DEF Checked, IInv, DocInv
<1>13. DocInv'
  <2>1. tally \in [Kinds -> Nat]
    BY DEF IInv, DocInv
  <2>2. tally' \in [Kinds -> Nat]
    BY <1>5, <2>1 DEF Counted
  <2> QED BY <1>4, <1>6, <1>9, <1>11, <1>12, <2>2 DEF DocInv
<1>14. FileInv'
  <2>1. ASSUME ~j.failed
        PROVE  /\ Held(j, 2 * k) /\ Recovered(j.file) = [i \in 1..(2 * k) |-> i]
               /\ EndsWithin(AllOf(j), Len(j.file), Nat)
    <3>1. Held(j, 2 * k) /\ Sound(j, 2 * k, Nat) /\ Recovered(j.file) = [i \in 1..(2 * k) |-> i]
      BY <1>10, <2>1 DEF Sealed, Held
    <3> QED BY <3>1 DEF Sound
  <2> QED BY <1>5, <1>6, <1>11, <1>12, <2>1 DEF FileInv
<1> QED BY <1>13, <1>14 DEF IInv

\* Undo and redo leave the journal alone.
LEMMA MoveKeeps ==
  ASSUME IInv, NEW d, Fits(Current, Len(drawn)) => Fits(d, Len(drawn)), Becomes(d),
         UNCHANGED <<journal, broken, drawn, tally>>
  PROVE  IInv'
<1>1. PICK n \in Nat : n = Len(drawn) /\ Fits(Current, n)
  BY LenProperties DEF IInv, DocInv
<1>2. Fits(d, n)
  BY <1>1
<1>3. Fits(Current', n)
  BY <1>2, BecomesFits
<1>4. DocInv'
  BY <1>1, <1>3 DEF IInv, DocInv
<1>5. FileInv'
  BY DEF IInv, FileInv
<1> QED BY <1>4, <1>5 DEF IInv

\* A flush, whatever comes of it.
LEMMA SaveKeeps ==
  ASSUME IInv, SaveProofLog
  PROVE  IInv'
<1>1. PICK o \in FlushOutcomes(journal) : journal' = o.journal
  BY DEF SaveProofLog
<1>2. UNCHANGED <<broken, drawn, tiles, undo, redo, tally>>
  BY DEF SaveProofLog
<1>3. DocInv'
  BY <1>2 DEF IInv, DocInv, Current
<1>4. PICK n : n = 2 * Len(drawn) /\ n = 2 * Len(drawn')
  BY <1>2
<1>5. journal \in Journal
  BY DEF IInv, FileInv
<1>6. o.journal \in Journal
  BY <1>5, FlushAdvances DEF Advances
<1>7. ASSUME ~broken
      PROVE  /\ Held(o.journal, n) /\ Recovered(o.journal.file) = [i \in 1..n |-> i]
             /\ EndsWithin(AllOf(o.journal), Len(o.journal.file), Nat)
  <2>1. /\ Held(journal, n) /\ Recovered(journal.file) = [i \in 1..n |-> i]
        /\ EndsWithin(AllOf(journal), Len(journal.file), Nat)
    BY <1>4, <1>7 DEF IInv, FileInv
  <2>2. /\ journal.failed => o.journal.failed
        /\ EndsWithin(AllOf(o.journal), Len(o.journal.file), Nat)
        /\ Recovered(o.journal.file) = Recovered(journal.file)
    BY <1>1, <1>5, <2>1, FlushKeepsRecovery
  <2>3. ASSUME ~o.journal.failed PROVE Sound(o.journal, n, Nat)
    <3>1. Sound(journal, n, Nat)
      BY <2>1, <2>2, <2>3 DEF Held
    <3>2. n \in Nat
      <4>1. Len(drawn) \in Nat
        BY LenProperties DEF IInv, DocInv
      <4> QED BY <1>4, <4>1
    <3> QED BY <1>1, <1>5, <2>3, <3>1, <3>2, FlushSound
  <2>4. Held(o.journal, n)
    BY <1>6, <2>3 DEF Held
  <2> QED BY <2>1, <2>2, <2>4
<1>8. FileInv'
  BY <1>1, <1>2, <1>4, <1>6, <1>7 DEF FileInv
<1> QED BY <1>3, <1>8 DEF IInv

\* A stroke, a fill, an erasure, a gradient and a transformation draw over an area.
LEMMA OperationDraws ==
  ASSUME Stroke \/ Fill \/ Erase \/ Gradient \/ Transform
  PROVE  \E kind \in Kinds : \E area \in Areas : \E changed \in SUBSET area : Draw(kind, area, changed)
<1>1. "stroke" \in Kinds /\ "region" \in Kinds
  BY DEF Kinds
<1>2. CASE Stroke
  BY <1>1, <1>2 DEF Stroke
<1>3. CASE Fill \/ Gradient
  BY <1>1, <1>3 DEF Fill, Gradient
<1>4. CASE Erase
  <2>1. PICK area \in Areas : \E changed \in SUBSET {t \in area : tiles[t] # 0} : Draw("region", area, changed)
    BY <1>4 DEF Erase
  <2>2. PICK changed \in SUBSET area : Draw("region", area, changed)
    BY <2>1
  <2> QED BY <1>1, <2>2
<1>5. CASE Transform
  <2>1. PICK area \in Areas : \E changed \in SUBSET area : Draw("region", area, changed)
    BY <1>5 DEF Transform
  <2> QED BY <1>1, <2>1
<1> QED BY <1>2, <1>3, <1>4, <1>5

\* Every step keeps the invariant.
LEMMA NextInv ==
  ASSUME IInv, [Next]_vars
  PROVE  IInv'
<1>1. CASE Stroke \/ Fill \/ Erase \/ Gradient \/ Transform
  <2>1. PICK kind \in Kinds : \E area \in Areas : \E changed \in SUBSET area : Draw(kind, area, changed)
    BY <1>1, OperationDraws
  <2>2. PICK area \in Areas : \E changed \in SUBSET area : Draw(kind, area, changed)
    BY <2>1
  <2>3. PICK changed \in SUBSET area : Draw(kind, area, changed)
    BY <2>2
  <2> QED BY <2>3, DrawKeeps
<1>2. Len(drawn) \in Nat
  BY LenProperties DEF IInv, DocInv
<1>3. CASE Undo
  <2>1. PICK d : d = Undone(Current)
    OBVIOUS
  <2>2. Becomes(d) /\ UNCHANGED <<journal, broken, drawn, tally>>
    BY <1>3, <2>1 DEF Undo
  <2>3. Fits(Current, Len(drawn)) => Fits(d, Len(drawn))
    BY <1>2, <2>1, UndoneFits
  <2> QED BY <2>2, <2>3, MoveKeeps
<1>4. CASE Redo
  <2>1. PICK d : d = Redone(Current)
    OBVIOUS
  <2>2. Becomes(d) /\ UNCHANGED <<journal, broken, drawn, tally>>
    BY <1>4, <2>1 DEF Redo
  <2>3. Fits(Current, Len(drawn)) => Fits(d, Len(drawn))
    BY <1>2, <2>1, RedoneFits
  <2> QED BY <2>2, <2>3, MoveKeeps
<1>5. CASE SaveProofLog
  BY <1>5, SaveKeeps
<1>6. CASE UNCHANGED vars
  BY <1>6 DEF vars, IInv, DocInv, FileInv, Current
<1> QED BY <1>1, <1>3, <1>4, <1>5, <1>6 DEF Next

-----------------------------------------------------------------------------
(* The steps, once more: the process log.                                   *)

\* Of its kind there is one more than before, of the other there are as many.
OneMoreOf(d, e, n, kind, c) ==
  Cardinality(Drawn(e, n + 1, c)) = Cardinality(Drawn(d, n, c)) + (IF c = kind THEN 1 ELSE 0)

\* One operation more of its kind.
LEMMA OneMoreDrawn ==
  ASSUME NEW d \in Seq(Kinds), NEW n \in Nat, n = Len(d), NEW kind \in Kinds, NEW e, e = Append(d, kind),
         NEW c \in Kinds
  PROVE  OneMoreOf(d, e, n, kind, c)
<1>1. /\ Len(e) = n + 1 /\ \A i \in 1..n : e[i] = d[i]
      /\ e[n + 1] = kind
  BY Appended
<1>2. PICK A, B : A = Drawn(d, n, c) /\ B = Drawn(e, n + 1, c)
  OBVIOUS
<1>3. IsFiniteSet(A) /\ Cardinality(A) \in Nat
  <2>1. IsFiniteSet(1..n)
    BY FS_Interval
  <2>2. A \subseteq 1..n
    BY <1>2 DEF Drawn
  <2> QED BY <2>1, <2>2, FS_Subset, FS_CardinalityType
<1>4. \A i \in 1..(n + 1) : i \in 1..n \/ i = n + 1
  OBVIOUS
<1>5. n + 1 \notin A
  BY <1>2 DEF Drawn
<1>6. CASE c = kind
  <2>1. B = A \cup {n + 1}
    BY <1>1, <1>2, <1>4, <1>6 DEF Drawn
  <2>2. Cardinality(B) = Cardinality(A) + 1
    BY <1>3, <1>5, <2>1, FS_AddElement
  <2> QED BY <1>2, <1>3, <1>6, <2>2 DEF OneMoreOf
<1>7. CASE c # kind
  <2>1. B = A
    BY <1>1, <1>2, <1>4, <1>7 DEF Drawn
  <2> QED BY <1>2, <1>3, <1>7, <2>1 DEF OneMoreOf
<1> QED BY <1>6, <1>7

\* Recovery of a file returns frame s.
Returns(f, s) == \E i \in 1..Len(Recovered(f)) : Recovered(f)[i] = s

\* A file that has grown still returns what it returned.
LEMMA StillReturned ==
  ASSUME NEW f \in Seq(Record), NEW g \in Seq(Record), Begins(f, g), NEW s, Returns(f, s)
  PROVE  Returns(g, s)
<1>1. PICK v, w : v = Recovered(f) /\ w = Recovered(g)
  OBVIOUS
<1>2. \E i \in 1..Len(v) : v[i] = s
  BY <1>1 DEF Returns
<1>3. \E i \in 1..Len(w) : w[i] = s
  BY <1>1, <1>2, RecoveredKeeps, SMTT(30)
<1> QED BY <1>1, <1>3 DEF Returns

\* An operation, recorded or not.
LEMMA DrawKeepsLog ==
  ASSUME IInv, LogInv, NEW kind \in Kinds, NEW area, NEW changed, Draw(kind, area, changed)
  PROVE  LogInv'
<1>1. PICK n \in Nat : n = Len(drawn)
  BY LenProperties DEF IInv, DocInv
<1>2. PICK k \in Nat : k = n + 1 /\ k = Len(drawn) + 1 /\ 2 * k = 2 * n + 2 /\ 2 * n = 2 * k - 2
  BY <1>1
<1>3. ~broken /\ drawn' = Append(drawn, kind)
  BY DEF Draw
<1>4. PICK j \in Recordings(journal, kind, k) :
        journal' = j /\ broken' = Checked(j) /\ tally' = Counted(kind, Checked(j))
  BY <1>2 DEF Draw
<1>5. drawn \in Seq(Kinds) /\ Len(drawn') = k
  BY <1>1, <1>2, <1>3, Appended DEF IInv, DocInv
<1>6. PICK f \in Seq(Record) : f = journal.file
  BY JournalFields DEF IInv, FileInv
<1>7. PICK m \in Nat : m = 2 * n /\ 2 * k = m + 2
  BY <1>2
<1>8. Grown(journal, f, m)
  <2>1. journal \in Journal /\ FramesAscend(AllOf(journal), m)
    BY <1>1, <1>7 DEF IInv, FileInv, LogInv
  <2>2. Begins(f, f)
    <3>1. Len(f) \in Nat
      BY LenProperties
    <3> QED BY <3>1 DEF Begins
  <2> QED BY <1>6, <2>1, <2>2 DEF Grown
<1>9. Grown(j, f, 2 * k)
  BY <1>7, <1>8, RecordingGrows
<1>10. FramesAscend(AllOf(journal'), 2 * Len(drawn'))
  BY <1>4, <1>5, <1>9 DEF Grown
<1>11. ASSUME NEW s \in 1..(2 * Len(drawn') - 2)
       PROVE  \E i \in 1..Len(Recovered(journal'.file)) : Recovered(journal'.file)[i] = s
  <2>1. s \in 1..m
    BY <1>2, <1>5, <1>7
  <2>2. Recovered(f) = [i \in 1..m |-> i]
    BY <1>1, <1>3, <1>6, <1>7 DEF IInv, FileInv
  <2>3. Returns(f, s)
    <3>1. Len([i \in 1..m |-> i]) = m
      OBVIOUS
    <3> QED BY <2>1, <2>2, <3>1 DEF Returns
  <2>4. j.file \in Seq(Record) /\ Begins(f, j.file)
    BY <1>9, JournalFields DEF Grown
  <2>5. Returns(j.file, s)
    BY <2>3, <2>4, StillReturned
  <2> QED BY <1>4, <2>5 DEF Returns
<1>12. ASSUME ~broken', NEW c \in Kinds
       PROVE  tally'[c] = Cardinality(Drawn(drawn', Len(drawn'), c))
  <2>1. tally' = [tally EXCEPT ![kind] = tally[kind] + 1]
    BY <1>4, <1>12 DEF Counted
  <2>2. tally \in [Kinds -> Nat]
    BY DEF IInv, DocInv
  <2>3. tally[c] = Cardinality(Drawn(drawn, n, c))
    BY <1>1, <1>3 DEF LogInv
  <2>4. PICK e : e = drawn' /\ e = Append(drawn, kind)
    BY <1>3
  <2>5. Cardinality(Drawn(e, n + 1, c)) = Cardinality(Drawn(drawn, n, c)) + (IF c = kind THEN 1 ELSE 0)
    <3>1. PICK d \in Seq(Kinds) : d = drawn /\ n = Len(d) /\ e = Append(d, kind)
      BY <1>1, <1>5, <2>4
    <3>2. OneMoreOf(d, e, n, kind, c)
      BY <3>1, OneMoreDrawn
    <3> QED BY <3>1, <3>2 DEF OneMoreOf
  <2>6. tally'[c] = tally[c] + (IF c = kind THEN 1 ELSE 0)
    BY <2>1, <2>2
  <2> QED BY <1>2, <1>5, <2>3, <2>4, <2>5, <2>6
<1> QED BY <1>10, <1>11, <1>12 DEF LogInv

\* A flush, whatever comes of it.
LEMMA SaveKeepsLog ==
  ASSUME IInv, LogInv, SaveProofLog
  PROVE  LogInv'
<1>1. PICK o \in FlushOutcomes(journal) : journal' = o.journal
  BY DEF SaveProofLog
<1>2. UNCHANGED <<broken, drawn, tally>>
  BY DEF SaveProofLog
<1>3. PICK n : n = 2 * Len(drawn) /\ n = 2 * Len(drawn')
  BY <1>2
<1>4. journal \in Journal
  BY DEF IInv, FileInv
<1>5. o.journal \in Journal /\ Begins(journal.file, o.journal.file)
  BY <1>4, FlushAdvances DEF Advances
<1>6. FramesAscend(AllOf(o.journal), n)
  <2>1. FramesAscend(AllOf(journal), n)
    BY <1>3 DEF LogInv
  <2> QED BY <1>4, <2>1, FlushOrdered
<1>7. journal.file \in Seq(Record) /\ o.journal.file \in Seq(Record)
  BY <1>4, <1>5, JournalFields
<1>8. \A s \in 1..(n - 2) : \E i \in 1..Len(Recovered(o.journal.file)) : Recovered(o.journal.file)[i] = s
  <2> SUFFICES ASSUME NEW s \in 1..(n - 2)
               PROVE  \E i \in 1..Len(Recovered(o.journal.file)) : Recovered(o.journal.file)[i] = s
    OBVIOUS
  <2>1. \E i \in 1..Len(Recovered(journal.file)) : Recovered(journal.file)[i] = s
    BY <1>3 DEF LogInv
  <2>2. PICK f, g : f = journal.file /\ g = o.journal.file
    OBVIOUS
  <2>3. f \in Seq(Record) /\ g \in Seq(Record) /\ Begins(f, g) /\ Returns(f, s)
    BY <1>5, <1>7, <2>1, <2>2 DEF Returns
  <2>4. Returns(g, s)
    BY <2>3, StillReturned
  <2> QED BY <2>2, <2>4 DEF Returns
<1>9. ~broken' => \A kind \in Kinds : tally'[kind] = Cardinality(Drawn(drawn', Len(drawn'), kind))
  BY <1>2 DEF LogInv
<1> QED BY <1>1, <1>3, <1>6, <1>8, <1>9 DEF LogInv

\* Init counts nothing, of nothing.
LEMMA InitLog ==
  ASSUME Init
  PROVE  LogInv
<1>1. journal = NewJournal /\ drawn = <<>> /\ tally = [k \in Kinds |-> 0]
  BY DEF Init
<1>2. journal \in Journal /\ Sound(journal, 0, Nat)
  BY <1>1, NewSound
<1>3. Len(drawn) = 0
  BY <1>1, EmptySeq
<1>4. FramesAscend(AllOf(journal), 0)
  BY <1>2 DEF Sound, Whole
<1>5. 1..(2 * 0 - 2) = {} /\ 2 * 0 = 0
  OBVIOUS
<1>6. ASSUME NEW kind \in Kinds PROVE tally[kind] = Cardinality(Drawn(drawn, 0, kind))
  <2>1. Drawn(drawn, 0, kind) = {}
    BY DEF Drawn
  <2> QED BY <1>1, <2>1, FS_EmptySet
<1> QED BY <1>3, <1>4, <1>5, <1>6 DEF LogInv

\* Every step keeps the invariant of the log.
LEMMA NextLog ==
  ASSUME IInv, LogInv, [Next]_vars
  PROVE  LogInv'
<1>1. CASE Stroke \/ Fill \/ Erase \/ Gradient \/ Transform
  <2>1. PICK kind \in Kinds : \E area \in Areas : \E changed \in SUBSET area : Draw(kind, area, changed)
    BY <1>1, OperationDraws
  <2>2. PICK area \in Areas : \E changed \in SUBSET area : Draw(kind, area, changed)
    BY <2>1
  <2>3. PICK changed \in SUBSET area : Draw(kind, area, changed)
    BY <2>2
  <2> QED BY <2>3, DrawKeepsLog
<1>2. CASE UNCHANGED <<journal, broken, drawn, tally>>
  BY <1>2 DEF LogInv
<1>3. CASE Undo \/ Redo \/ UNCHANGED vars
  <2>1. UNCHANGED <<journal, broken, drawn, tally>>
    BY <1>3 DEF Undo, Redo, vars
  <2> QED BY <1>2, <2>1
<1>4. CASE SaveProofLog
  BY <1>4, SaveKeepsLog
<1> QED BY <1>1, <1>3, <1>4 DEF Next

-----------------------------------------------------------------------------
(* The theorems.                                                            *)

\* In every behaviour the invariant holds.
LEMMA Inductive == Spec => []IInv
<1>1. Init => IInv
  BY InitInv
<1>2. IInv /\ [Next]_vars => IInv'
  BY NextInv
<1> QED BY <1>1, <1>2, PTL DEF Spec

\* The variables keep their types, and the undo stack keeps its limit
\* (core/undo.cpp, UndoStack::push).
THEOREM TypeCorrect == Spec => []TypeOK
<1>1. IInv => TypeOK
  BY InvTypes
<1> QED BY <1>1, Inductive, PTL

\* However draws, evictions, rollbacks, undos and redos are mixed, undoing all of
\* the stack, or redoing all of it, runs through canvases that were there.
THEOREM UndoRunsBack == Spec => []UndoChain
<1>1. IInv => UndoChain
  BY InvChain
<1> QED BY <1>1, Inductive, PTL

\* docs/06 H1: while the document takes drawing, nothing is shown, and nothing
\* can come back by undo or redo, that recovery would not find in the journal.
THEOREM NothingUnrecorded == Spec => []RecordedWhileRecording
<1>1. IInv => RecordedWhileRecording
  BY InvRecorded
<1> QED BY <1>1, Inductive, PTL

\* docs/06 H3: until the recording breaks, strokes and region operations are
\* counted apart as the journal shows them, with no frame missed; and even then
\* the process log takes no two operations for one.
THEOREM LogIsTrue == Spec => []TallyMatchesJournal
<1>1. Init => LogInv
  BY InitLog
<1>2. IInv /\ LogInv /\ [Next]_vars => LogInv'
  BY NextLog
<1>3. IInv /\ LogInv => TallyMatchesJournal
  BY InvTally
<1> QED BY <1>1, <1>2, <1>3, Inductive, PTL DEF Spec

\* docs/06 decision 4: the operation that meets the failure is rolled back.  One
\* that changed no tile pushed no command, so its rollback would take back the
\* command before it; hence the premise, which is that of the run.
THEOREM FailureRestores ==
  ASSUME "unchanged" \notin Uses
  PROVE  Spec => FailedOpRestoresCanvas
<1>1. ASSUME IInv, Next, ~broken, broken' PROVE tiles' = tiles
  <2>1. ~(Undo \/ Redo \/ SaveProofLog)
    BY <1>1 DEF Undo, Redo, SaveProofLog
  <2>2. PICK kind \in Kinds : \E area \in Areas : \E changed \in SUBSET area : Draw(kind, area, changed)
    BY <1>1, <2>1, OperationDraws DEF Next
  <2>3. PICK area \in Areas : \E changed \in SUBSET area : Draw(kind, area, changed)
    BY <2>2
  <2>4. PICK changed \in SUBSET area : Draw(kind, area, changed)
    BY <2>3
  <2>5. PICK n \in Nat : n = Len(drawn) /\ Fits(Current, n)
    BY <1>1, LenProperties DEF IInv, DocInv
  <2>6. PICK k \in Nat : k = n + 1 /\ k = Len(drawn) + 1
    BY <2>5
  <2>7. PICK d : d = Painted(k, area, changed)
    OBVIOUS
  <2>8. k <= MaxOps /\ changed # {}
    BY <2>4, <2>6 DEF Draw
  <2>9. Undone(d).tiles = tiles
    BY <2>5, <2>6, <2>7, <2>8, PaintedFits
  <2>10. tiles' = Undone(d).tiles
    <3>1. PICK j \in Recordings(journal, kind, k) :
            broken' = Checked(j) /\ Becomes(IF Checked(j) THEN Undone(d) ELSE d)
      BY <2>4, <2>6, <2>7 DEF Draw
    <3>2. Becomes(Undone(d))
      BY <1>1, <3>1
    <3> QED BY <3>2 DEF Becomes
  <2> QED BY <2>9, <2>10
<1>2. IInv /\ [Next]_vars => [~broken /\ broken' => tiles' = tiles]_vars
  BY <1>1
<1> QED BY <1>2, Inductive, PTL DEF Spec, FailedOpRestoresCanvas
=============================================================================
