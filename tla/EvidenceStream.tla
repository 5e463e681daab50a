--------------------------- MODULE EvidenceStream ---------------------------
(***************************************************************************)
(* What the publisher owes Sigan (docs/03 4.2 and 5.3): the frames of a    *)
(* session arrive without a hole, whatever is lost or repeated on the way, *)
(* unless the journal behind it says that it is broken.                    *)
(***************************************************************************)
EXTENDS Naturals

VARIABLES
  drawn,     \* frames published so far, numbered from 1
  received,  \* those of them Sigan holds
  broken     \* whether the journal has reported a failure

vars == <<drawn, received, broken>>

Init == drawn = 0 /\ received = {} /\ broken = FALSE

Draw == drawn' = drawn + 1 /\ UNCHANGED received

\* The next frame it misses arrives, and only that one.
Receive == /\ \E n \in 1..drawn : received = 1..(n - 1) /\ received' = 1..n
           /\ UNCHANGED drawn

Next == broken' \/ ((Draw \/ Receive) /\ UNCHANGED broken)

Spec == Init /\ [][Next]_vars
=============================================================================
