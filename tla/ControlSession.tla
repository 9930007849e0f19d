--------------------------- MODULE ControlSession ---------------------------
(***************************************************************************)
(* What the hardware interface promises to libfranka, whichever            *)
(* controllers are switched and whatever fails: one control session at a   *)
(* time, and in each control cycle at most one command, of the kind of the *)
(* session that is open, once every vector it is made of was written for   *)
(* that session.                                                           *)
(***************************************************************************)
CONSTANTS
  Kinds,  \* the kinds of control session
  None    \* no session, or no command

VARIABLES
  kind,   \* kind of the session that is open, or None
  ready,  \* its command has been written whole
  sent    \* kind of the command of this control cycle, or None

vars == <<kind, ready, sent>>

Init == kind = None /\ ready = FALSE /\ sent = None

\* A session is opened when there is none, and has no command yet.
Open ==
  /\ kind = None /\ kind' \in Kinds
  /\ ready' = FALSE
  /\ UNCHANGED sent

\* The last vector of its command is written.
Complete ==
  /\ kind # None /\ ready' = TRUE
  /\ UNCHANGED <<kind, sent>>

\* The mode is left before its session is closed.
Withdraw ==
  /\ ready' = FALSE
  /\ UNCHANGED <<kind, sent>>

\* Closed, or aborted by the robot.
Close ==
  /\ kind' = None /\ ready' = FALSE
  /\ UNCHANGED sent

Send ==
  /\ ready /\ sent = None
  /\ sent' = kind
  /\ UNCHANGED <<kind, ready>>

NextCycle ==
  /\ sent' = None
  /\ UNCHANGED <<kind, ready>>

Next == Open \/ Complete \/ Withdraw \/ Close \/ Send \/ NextCycle

Spec == Init /\ [][Next]_vars
=============================================================================
