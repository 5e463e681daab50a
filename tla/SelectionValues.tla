-------------------------- MODULE SelectionValues ---------------------------
(***************************************************************************)
(* What a selection is (include/mari/core/selection.hpp): a degree between *)
(* 0 and Full for every pixel of the canvas, and nothing outside it; and   *)
(* what each operation means for those degrees.  One row of pixels stands  *)
(* for the canvas.                                                         *)
(***************************************************************************)
EXTENDS Integers

CONSTANT Full   \* 255

Value == 0..Full
Ops   == {"replace", "add", "subtract", "intersect", "xor"}

\* applyOp
Mixed(a, b, op) ==
  CASE op = "replace"   -> b
    [] op = "add"       -> IF a > b THEN a ELSE b
    [] op = "subtract"  -> (a * (Full - b)) \div Full
    [] op = "intersect" -> (a * b) \div Full
    [] op = "xor"       -> IF a > b THEN a - b ELSE b - a

\* A pixel outside the canvas is not selected.
On(d, x) == x \in DOMAIN d /\ 2 * d[x] > Full

Near(x, r)   == (x - r)..(x + r)
Grown(d, r)  == [x \in DOMAIN d |-> IF \E y \in Near(x, r) : On(d, y) THEN Full ELSE 0]
Eroded(d, r) == [x \in DOMAIN d |-> IF \A y \in Near(x, r) : On(d, y) THEN Full ELSE 0]
MixedWith(d, e, op) == [x \in DOMAIN d |-> Mixed(d[x], e[x], op)]
Turned(d) == [x \in DOMAIN d |-> Full - d[x]]

\* A blur mixes a pixel with those around it, the canvas going on as its edge is.
Around(d, x, r) ==
  LET last == CHOOSE y \in DOMAIN d : y + 1 \notin DOMAIN d
  IN  {d[IF y < 0 THEN 0 ELSE IF y \in DOMAIN d THEN y ELSE last] : y \in Near(x, r)}
IsBlur(e, d, r) ==
  \A x \in DOMAIN d : /\ \E v \in Around(d, x, r) : v <= e[x]
                      /\ \E v \in Around(d, x, r) : e[x] <= v
=============================================================================
