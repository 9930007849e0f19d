---------------------------- MODULE FrankyServer ----------------------------
(***************************************************************************)
(* FrankyHTTPServer: every request runs on a thread of its own and uses    *)
(* the one robot, and the gripper that the first use of it makes, under a  *)
(* reentrant lock, which a motion holds until it ends.                     *)
(*                                                                         *)
(* Thresholds and factors are values; poses and the state's values are     *)
(* left out.  Requests refused before the lock, and answers from memory,   *)
(* change nothing.  External: franky, i.e. the robot and the gripper.      *)
(***************************************************************************)
EXTENDS Naturals

CONSTANTS
  Handlers,   \* threads of ThreadingHTTPServer
  Factors,    \* values of relative_dynamics_factor
  Collisions, \* values of the collision thresholds
  MaxCalls    \* bound on the requests

Nobody == "nobody"

ASSUME FrankyAssumption ==
  Nobody \notin Handlers /\ Factors # {} /\ Collisions # {} /\ MaxCalls \in Nat

VARIABLES
  lock,        \* who holds the lock, how often
  call,        \* what each thread was asked: the operation and its value
  pc,          \* where it is
  factor,      \* relative_dynamics_factor
  collisions,  \* collision_thresholds
  gripper,     \* was the gripper made?
  robotFactor, robotCollisions, \* the robot's (external)
  refused,     \* did the last setting of the thresholds throw?
  calls        \* number of requests so far

frankyVars == <<lock, call, pc, factor, collisions, gripper, robotFactor,
                robotCollisions, refused, calls>>

\* clear_error is like get_state here, and all gripper operations are one.
Operations == {"get_state", "move_position", "move_pose", "set_collision", "gripper"}
Moves == {"move_position", "move_pose"}
Call == [op : Operations, value : Factors \cup Collisions]

InitialFactor == CHOOSE f \in Factors : TRUE      \* the launch argument
InitialCollisions == CHOOSE c \in Collisions : TRUE  \* the defaults
NoCall == [op |-> "get_state", value |-> InitialFactor]

\* The constructor has applied the thresholds and the factor.
FrankyInit ==
  /\ lock = [holder |-> Nobody, depth |-> 0]
  /\ call = [t \in Handlers |-> NoCall]
  /\ pc = [t \in Handlers |-> "idle"]
  /\ factor = InitialFactor /\ robotFactor = factor
  /\ collisions = InitialCollisions
  /\ robotCollisions = collisions
  /\ gripper = FALSE /\ refused = FALSE /\ calls = 0

Arrive(t, op, value) ==
  /\ pc[t] = "idle" /\ calls < MaxCalls
  /\ calls' = calls + 1
  /\ value \in (IF op \in Moves THEN Factors
                ELSE IF op = "set_collision" THEN Collisions ELSE {InitialFactor})
  /\ call' = [call EXCEPT ![t] = [op |-> op, value |-> value]]
  /\ pc' = [pc EXCEPT ![t] = "acquire"]
  /\ UNCHANGED <<lock, factor, collisions, gripper, robotFactor, robotCollisions, refused>>

\* Mutant of Acquire: a lock that is not reentrant.
AcquireOnce(t) ==
  /\ lock.holder = Nobody
  /\ lock' = [holder |-> t, depth |-> lock.depth + 1]

\* threading.RLock
Acquire(t) ==
  /\ lock.holder \in {Nobody, t}
  /\ lock' = [holder |-> t, depth |-> lock.depth + 1]

Release(t) == lock' = IF lock.depth = 1 THEN [holder |-> Nobody, depth |-> 0]
                                        ELSE [lock EXCEPT !.depth = @ - 1]
Goto(t, place) == pc' = [pc EXCEPT ![t] = place]
Return(t) == Release(t) /\ Goto(t, "idle")

Enter(t) ==
  /\ pc[t] = "acquire" /\ Acquire(t)
  /\ Goto(t, "locked")
  /\ UNCHANGED <<call, factor, collisions, gripper, robotFactor, robotCollisions, refused, calls>>

\* Mutant of MovePose: the server remembers the factor once the motion is made.
MovePoseRemembersLate(t) ==
  /\ call[t].op \in Moves
  /\ \/ /\ pc[t] = "locked"
        /\ robotFactor' = call[t].value
        /\ Goto(t, IF call[t].op = "move_position" THEN "acquire_state" ELSE "quaternion")
        /\ UNCHANGED <<lock, factor>>
     \/ /\ pc[t] = "acquire_state" /\ Acquire(t) /\ Goto(t, "state")
        /\ UNCHANGED <<factor, robotFactor>>
     \/ /\ pc[t] = "state" /\ Release(t) /\ Goto(t, "quaternion")
        /\ UNCHANGED <<factor, robotFactor>>
     \/ /\ pc[t] = "quaternion" /\ Return(t) /\ UNCHANGED <<factor, robotFactor>>
     \/ /\ pc[t] = "quaternion" /\ Goto(t, "moving")
        /\ factor' = robotFactor /\ UNCHANGED <<lock, robotFactor>>
     \/ /\ pc[t] = "moving" /\ Return(t) /\ UNCHANGED <<factor, robotFactor>>
  /\ UNCHANGED <<call, collisions, gripper, robotCollisions, refused, calls>>

\* The factor is set and remembered, and stays so when the motion is refused
\* for its quaternion, or throws.  A position alone keeps the orientation of
\* the state, read under the same lock.
MovePose(t) ==
  /\ call[t].op \in Moves
  /\ \/ /\ pc[t] = "locked"
        /\ robotFactor' = call[t].value /\ factor' = call[t].value
        /\ Goto(t, IF call[t].op = "move_position" THEN "acquire_state" ELSE "quaternion")
        /\ UNCHANGED lock
     \/ /\ pc[t] = "acquire_state" /\ Acquire(t) /\ Goto(t, "state")
        /\ UNCHANGED <<factor, robotFactor>>
     \/ /\ pc[t] = "state" /\ Release(t) /\ Goto(t, "quaternion")
        /\ UNCHANGED <<factor, robotFactor>>
     \/ /\ pc[t] = "quaternion" /\ Return(t) /\ UNCHANGED <<factor, robotFactor>>
     \/ /\ pc[t] = "quaternion" /\ Goto(t, "moving")
        /\ UNCHANGED <<lock, factor, robotFactor>>
     \/ /\ pc[t] = "moving" /\ Return(t) /\ UNCHANGED <<factor, robotFactor>>
  /\ UNCHANGED <<call, collisions, gripper, robotCollisions, refused, calls>>

\* The memory first, then the robot, which may throw.
SetCollision(t) ==
  /\ call[t].op = "set_collision"
  /\ \/ /\ pc[t] = "locked"
        /\ collisions' = call[t].value
        /\ Goto(t, "applying") /\ UNCHANGED <<lock, robotCollisions, refused>>
     \/ /\ pc[t] = "applying"
        /\ \/ robotCollisions' = collisions /\ refused' = FALSE
           \/ refused' = TRUE /\ UNCHANGED robotCollisions
        /\ Return(t) /\ UNCHANGED collisions
  /\ UNCHANGED <<call, factor, gripper, robotFactor, calls>>

\* recover_from_errors, or the state, with the gripper's if there is a gripper;
\* exceptions leave the lock too.
UseRobot(t) ==
  /\ pc[t] = "locked" /\ call[t].op = "get_state"
  /\ Return(t)
  /\ UNCHANGED <<call, factor, collisions, gripper, robotFactor, robotCollisions, refused, calls>>

\* The gripper is made when it is first needed, unless that throws.
UseGripper(t) ==
  /\ pc[t] = "locked" /\ call[t].op = "gripper"
  /\ gripper' \in {gripper, TRUE}
  /\ Return(t)
  /\ UNCHANGED <<call, factor, collisions, robotFactor, robotCollisions, refused, calls>>

Handle(t) == Enter(t) \/ MovePose(t) \/ SetCollision(t) \/ UseRobot(t) \/ UseGripper(t)

FrankyNext ==
  \E t \in Handlers :
    \/ \E op \in Operations, value \in Factors \cup Collisions : Arrive(t, op, value)
    \/ Handle(t)

-----------------------------------------------------------------------------
(* Properties.                                                              *)

FrankyTypeOK ==
  /\ lock \in [holder : Handlers \cup {Nobody}, depth : 0..2]
  /\ call \in [Handlers -> Call]
  /\ pc \in [Handlers -> {"idle", "acquire", "locked", "acquire_state", "state",
                          "quaternion", "moving", "applying"}]
  /\ factor \in Factors /\ robotFactor \in Factors
  /\ collisions \in Collisions /\ robotCollisions \in Collisions
  /\ {gripper, refused} \subseteq BOOLEAN
  /\ calls \in 0..MaxCalls

\* Whatever request fails, and where: when nobody holds the lock, the factor
\* that the next motion has by default, and the thresholds that get_collision
\* answers, are the robot's, unless it threw when it was last given thresholds.
MemoryKept ==
  lock.holder = Nobody =>
    /\ factor = robotFactor
    /\ ~refused => collisions = robotCollisions
=============================================================================
