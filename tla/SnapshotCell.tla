---------------------------- MODULE SnapshotCell ----------------------------
(***************************************************************************)
(* What the background refresh promises of one kind of snapshot: it only   *)
(* moves on, it shows nothing that was not asked for, and it catches up    *)
(* with every request, until somebody disturbs it: by publishing a         *)
(* snapshot over a job at work, or by using a copy after a newer one.      *)
(***************************************************************************)
EXTENDS Integers

CONSTANT Versions   \* the versions a snapshot can be of

VARIABLES
  asked,     \* the version at the latest request, -1 before the first
  shown,     \* the version of the snapshot, -1 before the first
  disturbed

cell == <<asked, shown, disturbed>>

Init == asked = -1 /\ shown = -1 /\ ~disturbed

\* Requests come in, and the snapshot moves on to one of them.
MovesOn ==
  /\ ~disturbed /\ ~disturbed'
  /\ asked' >= asked
  /\ shown <= shown' /\ shown' <= asked'

Disturbs == disturbed'

Next == MovesOn \/ Disturbs

CatchesUp == \A v \in Versions : (asked >= v) ~> (shown >= v \/ disturbed)

\* The safety half of the promise, and the whole of it.
Moves == Init /\ [][Next]_cell
Spec == Moves /\ CatchesUp
=============================================================================
