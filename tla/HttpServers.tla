----------------------------- MODULE HttpServers -----------------------------
(***************************************************************************)
(* What three HTTP servers keep between their requests: the state cache of *)
(* FrankaHTTPBridge, and the two that drive the robot without ROS.  They   *)
(* are separate programs and share no variable, so a behavior is checked   *)
(* where one of them runs, in place of the interleavings of all three.     *)
(***************************************************************************)
EXTENDS SerlState, LibfrankaServer, FrankyServer

VARIABLE part  \* which of them runs

vars == <<part, stateVars, libfrankaVars, frankyVars>>

Init ==
  /\ part \in {"serl", "libfranka", "franky"}
  /\ StateInit /\ LibfrankaInit /\ FrankyInit

Serl(A) == part = "serl" /\ A /\ UNCHANGED <<part, libfrankaVars, frankyVars>>
Libfranka(A) == part = "libfranka" /\ A /\ UNCHANGED <<part, stateVars, frankyVars>>
Franky(A) == part = "franky" /\ A /\ UNCHANGED <<part, stateVars, libfrankaVars>>

Next == Serl(StateNext) \/ Libfranka(LibfrankaNext) \/ Franky(FrankyNext)

\* The timer ticks, and the service, unless it goes away, answers and does not
\* refuse for ever.  Threads go on; helpers and motions end.
Spec ==
  /\ Init /\ [][Next]_vars
  /\ WF_vars(Serl(ApplyDefaultCollisionBehaviorOnce))
  /\ SF_vars(Serl(Respond("success")))
  /\ \A t \in Clients : WF_vars(Libfranka(RunHelper(t))) /\ WF_vars(Libfranka(HelperEnds(t)))
  /\ \A t \in Handlers : WF_vars(Franky(Handle(t)))

-----------------------------------------------------------------------------
(* Properties.                                                              *)

\* Every variable of the servers keeps its type; locks their depth.
TypeOK == StateTypeOK /\ LibfrankaTypeOK /\ FrankyTypeOK

\* Each request is answered: the lock is free again after every request, and a
\* request under the lock does not wait for itself.  And once the service stays
\* up the default collision behavior is set, after any number of failures; only
\* an answer that never comes, from a service that went away, keeps the timer
\* from trying again.
RequestsAnswered ==
  /\ \A t \in Clients : at[t] # "idle" ~> at[t] = "idle"
  /\ \A t \in Handlers : pc[t] # "idle" ~> pc[t] = "idle"
  /\ part = "serl" /\ <>[]ready => <>(behaviorApplied \/ future = "lost")
=============================================================================
