---------------------------- MODULE StrokeLedger ----------------------------
(***************************************************************************)
(* What the journal promises the person who draws (docs/03 5.4,            *)
(* journal.hpp): however the program ends, recovery returns whole strokes, *)
(* and every stroke that was finished before the end is among them unless  *)
(* the power went.  The promise ends where the journal says it is broken.  *)
(***************************************************************************)
EXTENDS Naturals, Sequences

VARIABLES
  points,     \* how many points have been drawn; they are numbered from 1
  ends,       \* the points at which a stroke was finished
  recovered,  \* the points recovery would return now
  alive,      \* whether the program still runs
  broken      \* whether the journal has reported a failure

ledger == <<points, ends, recovered, alive>>
vars   == <<ledger, broken>>

UpTo(n) == [i \in 1..n |-> i]

Init == points = 0 /\ ends = {} /\ recovered = <<>>
        /\ alive = TRUE /\ broken = FALSE

Point == /\ alive
         /\ points' = points + 1
         /\ UNCHANGED <<ends, recovered, alive>>

Seal == /\ alive
        /\ ends' = ends \cup {points}
        /\ recovered' = UpTo(points)
        /\ UNCHANGED <<points, alive>>

\* The program ends: between two calls, or while a stroke is being sealed,
\* and then that stroke is either whole or absent.
Stop == /\ alive
        /\ alive' = FALSE
        /\ \/ UNCHANGED <<ends, recovered>>
           \/ /\ ends' = ends \cup {points}
              /\ recovered' \in {recovered, UpTo(points)}
        /\ UNCHANGED points

\* Without fsync a power cut may take finished strokes, but never half of one.
PowerLoss == /\ alive
             /\ alive' = FALSE
             /\ \E n \in ends \cup {0} : n <= Len(recovered)
                                         /\ recovered' = UpTo(n)
             /\ UNCHANGED <<points, ends>>

Kept == Point \/ Seal \/ Stop \/ PowerLoss

\* Nothing is promised of a step that leaves the journal broken.
Next == broken' \/ (Kept /\ UNCHANGED broken)

Spec == Init /\ [][Next]_vars
=============================================================================
