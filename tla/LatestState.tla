---------------------------- MODULE LatestState ----------------------------
(***************************************************************************)
(* What the robot state broadcaster promises of the hand-over between its  *)
(* update and its publish thread: a box for one robot state.  The producer *)
(* replaces what is in it by a newer state, the consumer takes what is in  *)
(* it, and nothing is taken twice, out of order or in part.  States are    *)
(* numbered in the order in which they are measured; 0 is none.            *)
(***************************************************************************)
EXTENDS Naturals

VARIABLES
  box,   \* the state in the box, 0 when it is empty
  taken  \* the last state that was taken

vars == <<box, taken>>

Init == box = 0 /\ taken = 0

\* A newer state than any before is put into the box.
Put ==
  /\ box' \in Nat
  /\ box' > box /\ box' > taken
  /\ UNCHANGED taken

Take ==
  /\ box # 0
  /\ taken' = box
  /\ box' = 0

\* A change of lifecycle may empty the box.
Drop ==
  /\ box' = 0
  /\ UNCHANGED taken

Next == Put \/ Take \/ Drop

Spec == Init /\ [][Next]_vars
=============================================================================
