------------------------------ MODULE SerlState ------------------------------
(***************************************************************************)
(* FrankaHTTPBridge: what the executor's thread keeps under _state_lock    *)
(* from the topics, what the endpoints read of it, and the timer that sets *)
(* the default collision behavior once.                                    *)
(*                                                                         *)
(* A message is its number; a measured vector is the number of the message *)
(* it came with, 0 before the first, so that have_x is x # 0.  External:   *)
(* the publishers, the collision behavior service.                         *)
(***************************************************************************)
EXTENDS Naturals

CONSTANT MaxMessage  \* messages are numbered modulo this

ASSUME MaxMessageType == MaxMessage \in Nat \ {0}

VARIABLES
  state,   \* the cached vectors
  behaviorApplied, \* default_collision_behavior_applied
  future,  \* default_collision_behavior_future
  ready    \* is the service ready? (external)

stateVars == <<state, behaviorApplied, future, ready>>

Messages == 1..MaxMessage
Vector == {0} \cup Messages
Futures == {"none", "pending", "success", "failure", "lost"}

\* vel: the jacobian and the joint velocities it was computed from.
State == [jacobian : Vector, dq : Vector, vel : Vector \X Vector,
          pose : {"zeros", "franka_state", "current_pose"},
          wrench : {"zeros", "franka_state", "stiffness_wrench"}, gripper : BOOLEAN]

\* What the getters answer: they read under the lock, also before any message.
GetState == state

StateInit ==
  /\ state = [jacobian |-> 0, dq |-> 0, vel |-> <<0, 0>>, pose |-> "zeros",
              wrench |-> "zeros", gripper |-> FALSE]
  /\ behaviorApplied = FALSE /\ future = "none" /\ ready = FALSE

\* Under the lock.
Store(new) == state' = new /\ UNCHANGED <<behaviorApplied, future, ready>>

PoseCallback == Store([state EXCEPT !.pose = "current_pose"])
WrenchCallback == Store([state EXCEPT !.wrench = "stiffness_wrench"])

\* Mutant of JointStateCallback: the velocity waits for the next jacobian.
JointStateCallbackKeepsVel(m) == Store([state EXCEPT !.dq = m])

JointStateCallback(m) ==
  Store([state EXCEPT !.dq = m,
                      !.vel = IF state.jacobian # 0 THEN <<state.jacobian, m>> ELSE @])

JacobianCallback(m) ==
  Store([state EXCEPT !.jacobian = m,
                      !.vel = IF state.dq # 0 THEN <<m, state.dq>> ELSE @])

\* The pose of the robot state serves until there is one, the wrench always.
FrankaStateCallback ==
  Store([state EXCEPT !.pose = IF @ = "zeros" THEN "franka_state" ELSE @,
                      !.wrench = "franka_state"])

GripperJointStateCallback == Store([state EXCEPT !.gripper = TRUE])

-----------------------------------------------------------------------------

\* One tick of the timer does one of: take a success, forget a failure, call.
ApplyDefaultCollisionBehaviorOnce ==
  /\ ~behaviorApplied
  /\ \/ future = "success" /\ behaviorApplied' = TRUE /\ UNCHANGED future
     \/ future = "failure" /\ future' = "none" /\ UNCHANGED behaviorApplied
     \/ future = "none" /\ ready /\ future' = "pending" /\ UNCHANGED behaviorApplied
  /\ UNCHANGED <<state, ready>>

Respond(answer) ==
  /\ future = "pending" /\ future' = answer
  /\ answer = "lost" => ~ready
  /\ UNCHANGED <<state, behaviorApplied, ready>>

ServiceReady == ready' = ~ready /\ UNCHANGED <<state, behaviorApplied, future>>

StateNext ==
  \/ PoseCallback \/ WrenchCallback \/ FrankaStateCallback
  \/ \E m \in Messages :
       JointStateCallback(m) \/ JacobianCallback(m)
  \/ GripperJointStateCallback
  \/ ApplyDefaultCollisionBehaviorOnce
  \/ \E answer \in {"success", "failure", "lost"} : Respond(answer)
  \/ ServiceReady

-----------------------------------------------------------------------------
(* Properties.                                                              *)

StateTypeOK ==
  /\ state \in State
  /\ behaviorApplied \in BOOLEAN /\ future \in Futures /\ ready \in BOOLEAN

\* The Cartesian velocity that an endpoint answers is that of the jacobian and
\* the joint velocities it answers with it, whichever topic came last.
VelocityConsistent ==
  LET reply == GetState IN
  reply.jacobian # 0 /\ reply.dq # 0 => reply.vel = <<reply.jacobian, reply.dq>>
=============================================================================
