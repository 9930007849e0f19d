-------------------------- MODULE HttpServersProofs --------------------------
(***************************************************************************)
(* For any number of clients, requests and values: what the libfranka and  *)
(* the franky server remember is what their robot has.                     *)
(*                                                                         *)
(* The libfranka server changes its memory without the lock, so that the   *)
(* argument is about the request that is still to come: a helper runs with *)
(* the thresholds of the memory, or a later set_collision waits for the    *)
(* lock.  The franky server never leaves its lock between memory and robot *)
(* but by an exception.                                                    *)
(***************************************************************************)
EXTENDS HttpServers, TLAPS

-----------------------------------------------------------------------------
(* The libfranka server.                                                    *)

\* What is missing in ThresholdsApplied to be inductive: who runs, and with
\* which thresholds.
HelpersInv ==
  /\ helperLock = {t \in Clients : at[t] = "running"}
  /\ \A t, u \in helperLock : t = u
  /\ \A t \in Clients : at[t] = "running" =>
       \/ env[t] = thresholds
       \/ \E u \in Clients : at[u] = "waiting" /\ request[u] = "set_collision"

LibfrankaInv == LibfrankaTypeOK /\ HelpersInv /\ ThresholdsApplied

\* A default is one of the values.
LEMMA DefaultThresholds == InitialThresholds \in Thresholds
BY LibfrankaAssumption DEF InitialThresholds

LEMMA LibfrankaStart == LibfrankaInit => LibfrankaInv
BY DefaultThresholds, LibfrankaAssumption
DEF LibfrankaInit, LibfrankaInv, LibfrankaTypeOK, HelpersInv, ThresholdsApplied,
    Helpers, Places

\* A request is counted and remembered.
LEMMA ReceiveStep ==
  ASSUME LibfrankaInv, NEW t \in Clients, NEW helper \in Helpers,
         NEW values \in Thresholds, Receive(t, helper, values)
  PROVE  LibfrankaInv'
<1> USE DEF LibfrankaInv
<1>1. LibfrankaTypeOK'
  BY LibfrankaAssumption DEF Receive, LibfrankaTypeOK, Places
<1>2. HelpersInv'
  <2>1. \A u \in Clients : at'[u] = "running" <=> at[u] = "running"
    BY DEF Receive, LibfrankaTypeOK
  <2>2. CASE helper = "set_collision"
    BY <2>1, <2>2 DEF Receive, LibfrankaTypeOK, HelpersInv
  <2>3. CASE helper # "set_collision"
    <3>1. thresholds' = thresholds /\ env' = env /\ helperLock' = helperLock
      BY <2>3 DEF Receive
    <3>2. \A u \in Clients : at[u] = "waiting" =>
            at'[u] = "waiting" /\ request'[u] = request[u]
      BY DEF Receive, LibfrankaTypeOK
    <3> QED
      BY <2>1, <3>1, <3>2 DEF HelpersInv
  <2> QED
    BY <2>2, <2>3
<1>3. ThresholdsApplied'
  BY DEF Receive, LibfrankaTypeOK, ThresholdsApplied
<1> QED
  BY <1>1, <1>2, <1>3

\* A helper is started with the thresholds of that moment.
LEMMA RunHelperStep ==
  ASSUME LibfrankaInv, NEW t \in Clients, RunHelper(t)
  PROVE  LibfrankaInv'
<1> USE DEF LibfrankaInv
<1>1. LibfrankaTypeOK'
  BY DEF RunHelper, LibfrankaTypeOK, Places
<1>2. HelpersInv'
  BY DEF RunHelper, LibfrankaTypeOK, HelpersInv
<1>3. ThresholdsApplied'
  BY DEF RunHelper, LibfrankaTypeOK, ThresholdsApplied
<1> QED
  BY <1>1, <1>2, <1>3

\* A helper that ends leaves the robot with what is remembered, or another
\* set_collision waits.
LEMMA HelperEndsStep ==
  ASSUME LibfrankaInv, NEW t \in Clients, HelperEnds(t)
  PROVE  LibfrankaInv'
<1> USE DEF LibfrankaInv
<1>1. LibfrankaTypeOK'
  BY DefaultThresholds DEF HelperEnds, LibfrankaTypeOK, Places, Helpers
<1>2. HelpersInv'
  <2>1. helperLock' = {}
    BY DEF HelperEnds, HelpersInv
  <2>2. \A u \in Clients : at'[u] # "running"
    BY DEF HelperEnds, LibfrankaTypeOK, HelpersInv
  <2> QED
    BY <2>1, <2>2 DEF HelpersInv
<1>3. ThresholdsApplied'
  <2>1. \A u \in Clients : u # t => at'[u] = at[u] /\ request'[u] = request[u]
    BY DEF HelperEnds, LibfrankaTypeOK
  <2>2. thresholds' = thresholds /\ at[t] = "running"
    BY DEF HelperEnds
  <2>3. CASE request[t] \in Applying
    <3>1. env[t] = thresholds
          \/ \E u \in Clients : at'[u] = "waiting" /\ request'[u] = "set_collision"
      BY <2>1, <2>2 DEF HelpersInv
    <3>2. unsure' \/ applied' = env[t]
      BY <2>3 DEF HelperEnds
    <3> QED
      BY <2>2, <3>1, <3>2 DEF ThresholdsApplied
  <2>4. CASE request[t] \notin Applying
    BY <2>1, <2>2, <2>4 DEF HelperEnds, Applying, ThresholdsApplied
  <2> QED
    BY <2>3, <2>4
<1> QED
  BY <1>1, <1>2, <1>3

LEMMA LibfrankaStep == LibfrankaInv /\ [LibfrankaNext]_libfrankaVars => LibfrankaInv'
<1> SUFFICES ASSUME LibfrankaInv, [LibfrankaNext]_libfrankaVars
             PROVE  LibfrankaInv'
  OBVIOUS
<1>1. CASE UNCHANGED libfrankaVars
  BY <1>1 DEF libfrankaVars, LibfrankaInv, LibfrankaTypeOK, HelpersInv, ThresholdsApplied
<1>2. CASE LibfrankaNext
  BY <1>2, ReceiveStep, RunHelperStep, HelperEndsStep DEF LibfrankaNext
<1> QED
  BY <1>1, <1>2

-----------------------------------------------------------------------------
(* The franky server.                                                       *)

\* The places under the lock.
Under == {"locked", "acquire_state", "state", "quaternion", "moving", "applying"}
Holds(t) == pc[t] \in Under

\* What is missing in MemoryKept to be inductive: who holds the lock and how
\* often, and what a request is about.
LockInv ==
  /\ \A t \in Handlers : Holds(t) <=> lock.holder = t
  /\ lock.holder = Nobody <=> lock.depth = 0
  /\ \A t \in Handlers : Holds(t) => lock.depth = IF pc[t] = "state" THEN 2 ELSE 1

CallInv ==
  \A t \in Handlers :
    /\ call[t].op \in Moves => call[t].value \in Factors
    /\ call[t].op = "set_collision" => call[t].value \in Collisions
    /\ pc[t] = "applying" => call[t].op = "set_collision"

\* Only a request that is at the robot has a memory ahead of it.
MemoryInv ==
  /\ factor = robotFactor
  /\ ~refused /\ collisions # robotCollisions => \E t \in Handlers : pc[t] = "applying"

FrankyInv == FrankyTypeOK /\ LockInv /\ CallInv /\ MemoryInv

\* Initial values are values.
LEMMA InitialValues == InitialFactor \in Factors /\ InitialCollisions \in Collisions
BY FrankyAssumption DEF InitialFactor, InitialCollisions

LEMMA FrankyStart == FrankyInit => FrankyInv
<1> SUFFICES ASSUME FrankyInit PROVE FrankyInv
  OBVIOUS
<1>1. call \in [Handlers -> Call]
  BY InitialValues DEF FrankyInit, Call, Operations, NoCall
<1>2. FrankyTypeOK
  <2>1. lock \in [holder : Handlers \cup {Nobody}, depth : 0..2]
    BY DEF FrankyInit
  <2>2. pc \in [Handlers -> {"idle", "acquire", "locked", "acquire_state", "state",
                             "quaternion", "moving", "applying"}]
    BY DEF FrankyInit
  <2>3. calls \in 0..MaxCalls
    BY FrankyAssumption DEF FrankyInit
  <2>4. {gripper, refused} \subseteq BOOLEAN
    BY DEF FrankyInit
  <2> QED
    BY <1>1, <2>1, <2>2, <2>3, <2>4, InitialValues DEF FrankyInit, FrankyTypeOK
<1>3. LockInv
  BY FrankyAssumption DEF FrankyInit, LockInv, Holds, Under
<1>4. CallInv /\ MemoryInv
  BY InitialValues DEF FrankyInit, CallInv, MemoryInv, NoCall, Moves
<1> QED
  BY <1>2, <1>3, <1>4 DEF FrankyInv

\* Who applies thresholds holds the lock, so that the memory is kept without.
LEMMA FrankyMemory == FrankyInv => MemoryKept
<1> SUFFICES ASSUME FrankyInv, lock.holder = Nobody
             PROVE  \A t \in Handlers : pc[t] # "applying"
  BY DEF FrankyInv, MemoryInv, MemoryKept
<1> QED
  BY FrankyAssumption DEF FrankyInv, LockInv, Holds, Under

\* A request arrives at a thread that holds nothing.
LEMMA ArriveStep ==
  ASSUME FrankyInv, NEW t \in Handlers, NEW op \in Operations,
         NEW value \in Factors \cup Collisions, Arrive(t, op, value)
  PROVE  FrankyInv'
<1> USE DEF FrankyInv
<1>1. FrankyTypeOK'
  BY FrankyAssumption DEF Arrive, FrankyTypeOK, Call
<1>2. LockInv'
  BY DEF Arrive, FrankyTypeOK, LockInv, Holds, Under
<1>3. CallInv'
  <2>1. \A u \in Handlers : u # t => pc'[u] = pc[u] /\ call'[u] = call[u]
    BY DEF Arrive, FrankyTypeOK
  <2>2. pc'[t] = "acquire" /\ call'[t] = [op |-> op, value |-> value]
    BY DEF Arrive, FrankyTypeOK
  <2>3. /\ op \in Moves => value \in Factors
        /\ op = "set_collision" => value \in Collisions
    BY DEF Arrive, Moves
  <2> QED
    BY <2>1, <2>2, <2>3 DEF CallInv
<1>4. MemoryInv'
  BY DEF Arrive, FrankyTypeOK, MemoryInv
<1> QED
  BY <1>1, <1>2, <1>3, <1>4

\* The lock is taken when nobody holds it: the thread that asks does not.
LEMMA EnterStep ==
  ASSUME FrankyInv, NEW t \in Handlers, Enter(t)
  PROVE  FrankyInv'
<1> USE DEF FrankyInv
<1>1. lock.holder = Nobody /\ lock.depth = 0
  BY DEF Enter, Acquire, LockInv, Holds, Under
<1>2. lock' = [holder |-> t, depth |-> 1]
  BY <1>1 DEF Enter, Acquire
<1>3. FrankyTypeOK'
  BY <1>2 DEF Enter, Goto, FrankyTypeOK
<1>4. LockInv'
  BY <1>1, <1>2, FrankyAssumption DEF Enter, Goto, FrankyTypeOK, LockInv, Holds, Under
<1>5. CallInv' /\ MemoryInv'
  BY DEF Enter, Goto, FrankyTypeOK, CallInv, MemoryInv
<1> QED
  BY <1>3, <1>4, <1>5

\* A request that holds the lock once and returns leaves it to nobody.
LEMMA ReturnLock ==
  ASSUME FrankyInv, NEW t \in Handlers, Holds(t), pc[t] # "state", Return(t)
  PROVE  lock' \in [holder : Handlers \cup {Nobody}, depth : 0..2] /\ LockInv'
<1> USE DEF FrankyInv
<1>1. lock.holder = t /\ lock.depth = 1
  BY DEF LockInv
<1>2. lock' = [holder |-> Nobody, depth |-> 0]
  BY <1>1 DEF Return, Release
<1>3. \A u \in Handlers : ~ (pc'[u] \in Under)
  BY <1>1 DEF Return, Goto, FrankyTypeOK, LockInv, Holds, Under
<1> QED
  BY <1>2, <1>3, FrankyAssumption DEF LockInv, Holds

\* Going on under the lock keeps it.
LEMMA GotoLock ==
  ASSUME FrankyInv, NEW t \in Handlers, Holds(t), pc[t] # "state",
         NEW place \in Under \ {"state"}, Goto(t, place), lock' = lock
  PROVE  LockInv'
BY DEF FrankyInv, FrankyTypeOK, LockInv, Holds, Goto, Under

\* A motion takes the lock a second time to read the state, and releases that.
LEMMA MovePoseStep ==
  ASSUME FrankyInv, NEW t \in Handlers, MovePose(t)
  PROVE  FrankyInv'
<1> USE DEF FrankyInv
<1>1. /\ call[t].value \in Factors /\ call[t].op # "set_collision"
      /\ pc[t] # "applying"
  BY DEF MovePose, CallInv, Moves
<1>2. UNCHANGED <<call, collisions, robotCollisions, refused>>
  BY DEF MovePose
<1>3. Holds(t)
  BY DEF MovePose, Holds, Under
<1>4. \A u \in Handlers : pc'[u] = "applying" <=> pc[u] = "applying"
  BY <1>1 DEF MovePose, Return, Goto, FrankyTypeOK
<1>5. factor' = robotFactor' /\ factor' \in Factors
  BY <1>1 DEF MovePose, MemoryInv, FrankyTypeOK
<1>6. CallInv' /\ MemoryInv'
  BY <1>2, <1>4, <1>5 DEF CallInv, MemoryInv
<1>7. lock' \in [holder : Handlers \cup {Nobody}, depth : 0..2] /\ LockInv'
  <2>1. CASE pc[t] = "locked"
    BY <2>1, <1>3, GotoLock DEF MovePose, Under, FrankyTypeOK
  <2>2. CASE pc[t] = "acquire_state"
    BY <2>2, <1>3 DEF MovePose, Acquire, Goto, FrankyTypeOK, LockInv, Holds, Under
  <2>3. CASE pc[t] = "state"
    BY <2>3, <1>3 DEF MovePose, Release, Goto, FrankyTypeOK, LockInv, Holds, Under
  <2>4. CASE pc[t] = "quaternion"
    BY <2>4, <1>3, GotoLock, ReturnLock DEF MovePose, Under, FrankyTypeOK
  <2>5. CASE pc[t] = "moving"
    BY <2>5, <1>3, ReturnLock DEF MovePose
  <2> QED
    BY <2>1, <2>2, <2>3, <2>4, <2>5 DEF MovePose
<1>8. FrankyTypeOK'
  BY <1>5, <1>7 DEF MovePose, Return, Goto, FrankyTypeOK
<1> QED
  BY <1>6, <1>7, <1>8

\* The thresholds are remembered, then given to the robot, under one lock: no
\* other thread applies any, so that a robot that accepts has what is remembered.
LEMMA SetCollisionStep ==
  ASSUME FrankyInv, NEW t \in Handlers, SetCollision(t)
  PROVE  FrankyInv'
<1> USE DEF FrankyInv
<1>1. Holds(t) /\ call[t].value \in Collisions /\ call[t].op = "set_collision"
  BY DEF SetCollision, CallInv, Holds, Under
<1>2. CASE pc[t] = "locked"
  <2>1. Goto(t, "applying") /\ lock' = lock /\ collisions' = call[t].value
    BY <1>2 DEF SetCollision
  <2>2. LockInv'
    BY <1>1, <1>2, <2>1, GotoLock DEF Under
  <2>3. FrankyTypeOK'
    BY <1>1, <1>2, <2>1 DEF SetCollision, Goto, FrankyTypeOK
  <2>4. CallInv' /\ MemoryInv'
    BY <1>1, <2>1 DEF SetCollision, Goto, FrankyTypeOK, CallInv, MemoryInv
  <2> QED
    BY <2>2, <2>3, <2>4
<1>3. CASE pc[t] = "applying"
  <2>1. Return(t) /\ collisions' = collisions
    BY <1>3 DEF SetCollision
  <2>2. lock' \in [holder : Handlers \cup {Nobody}, depth : 0..2] /\ LockInv'
    BY <1>1, <1>3, <2>1, ReturnLock
  <2>3. \/ robotCollisions' = collisions' /\ refused' = FALSE
        \/ refused' = TRUE /\ robotCollisions' = robotCollisions
    BY <1>3, <2>1 DEF SetCollision
  <2>4. FrankyTypeOK'
    BY <2>1, <2>2, <2>3 DEF SetCollision, Return, Goto, FrankyTypeOK
  <2>5. CallInv'
    BY <2>1 DEF SetCollision, Return, Goto, FrankyTypeOK, CallInv
  <2>6. MemoryInv'
    BY <2>3 DEF SetCollision, MemoryInv
  <2> QED
    BY <2>2, <2>4, <2>5, <2>6
<1> QED
  BY <1>2, <1>3 DEF SetCollision

\* The state, an error recovery and the gripper touch neither memory.
LEMMA UseStep ==
  ASSUME FrankyInv, NEW t \in Handlers, UseRobot(t) \/ UseGripper(t)
  PROVE  FrankyInv'
<1> USE DEF FrankyInv
<1>1. Holds(t) /\ pc[t] = "locked" /\ Return(t)
  BY DEF UseRobot, UseGripper, Holds, Under
<1>2. UNCHANGED <<call, factor, collisions, robotFactor, robotCollisions, refused, calls>>
  BY DEF UseRobot, UseGripper
<1>3. lock' \in [holder : Handlers \cup {Nobody}, depth : 0..2] /\ LockInv'
  BY <1>1, ReturnLock
<1>4. gripper' \in BOOLEAN
  BY DEF UseRobot, UseGripper, FrankyTypeOK
<1>5. FrankyTypeOK'
  BY <1>1, <1>2, <1>3, <1>4 DEF Return, Goto, FrankyTypeOK
<1>6. CallInv' /\ MemoryInv'
  BY <1>1, <1>2 DEF Return, Goto, FrankyTypeOK, CallInv, MemoryInv
<1> QED
  BY <1>3, <1>5, <1>6

LEMMA FrankyStep == FrankyInv /\ [FrankyNext]_frankyVars => FrankyInv'
<1> SUFFICES ASSUME FrankyInv, [FrankyNext]_frankyVars
             PROVE  FrankyInv'
  OBVIOUS
<1>1. CASE UNCHANGED frankyVars
  BY <1>1 DEF frankyVars, FrankyInv, FrankyTypeOK, LockInv, CallInv, MemoryInv, Holds
<1>2. CASE FrankyNext
  BY <1>2, ArriveStep, EnterStep, MovePoseStep, SetCollisionStep, UseStep
  DEF FrankyNext, Handle
<1> QED
  BY <1>1, <1>2

-----------------------------------------------------------------------------
(* The bridge, and the three together.                                      *)

\* An answer's velocity is not stale in the bridge either: with both vectors
\* measured it was computed by the callback of the later one.
StateInv == StateTypeOK /\ VelocityConsistent

LEMMA StateStart == StateInit => StateInv
<1> SUFFICES ASSUME StateInit PROVE StateInv
  OBVIOUS
<1>1. state.jacobian = 0
  BY DEF StateInit
<1>2. state \in State
  <2>1. 0 \in Vector /\ <<0, 0>> \in Vector \X Vector
    BY DEF Vector
  <2> QED
    BY <2>1 DEF StateInit, State
<1> QED
  BY <1>1, <1>2 DEF StateInit, StateInv, StateTypeOK, Futures, VelocityConsistent, GetState

\* A message changes the cache, and nothing else.
LEMMA MessageStep ==
  ASSUME StateInv, NEW m \in Messages,
         \/ PoseCallback \/ WrenchCallback \/ FrankaStateCallback
         \/ JointStateCallback(m) \/ JacobianCallback(m) \/ GripperJointStateCallback
  PROVE  StateInv'
<1> USE DEF StateInv, StateTypeOK, Store, VelocityConsistent, GetState
<1>1. UNCHANGED <<behaviorApplied, future, ready>>
  BY DEF PoseCallback, WrenchCallback, FrankaStateCallback, JointStateCallback,
         JacobianCallback, GripperJointStateCallback
<1>2. CASE PoseCallback \/ WrenchCallback \/ GripperJointStateCallback
  BY <1>1, <1>2 DEF PoseCallback, WrenchCallback, GripperJointStateCallback, State
<1>3. CASE FrankaStateCallback
  BY <1>1, <1>3 DEF FrankaStateCallback, State
<1>4. CASE JointStateCallback(m)
  BY <1>1, <1>4 DEF JointStateCallback, State, Vector
<1>5. CASE JacobianCallback(m)
  BY <1>1, <1>5 DEF JacobianCallback, State, Vector
<1> QED
  BY <1>2, <1>3, <1>4, <1>5

LEMMA StateStep == StateInv /\ [StateNext]_stateVars => StateInv'
<1> SUFFICES ASSUME StateInv, [StateNext]_stateVars
             PROVE  StateInv'
  OBVIOUS
<1> USE DEF StateInv
<1>1. CASE UNCHANGED stateVars
  BY <1>1 DEF stateVars, StateTypeOK, VelocityConsistent, GetState
<1>2. CASE StateNext
  <2>1. CASE ApplyDefaultCollisionBehaviorOnce
    BY <2>1 DEF ApplyDefaultCollisionBehaviorOnce, StateTypeOK, Futures,
                VelocityConsistent, GetState
  <2>2. ASSUME NEW answer \in {"success", "failure", "lost"}, Respond(answer)
        PROVE  StateInv'
    BY <2>2 DEF Respond, StateTypeOK, Futures, VelocityConsistent, GetState
  <2>3. CASE ServiceReady
    BY <2>3 DEF ServiceReady, StateTypeOK, VelocityConsistent, GetState
  <2>4. 1 \in Messages
    BY MaxMessageType DEF Messages
  <2> QED
    BY <1>2, <2>1, <2>2, <2>3, <2>4, MessageStep DEF StateNext
<1> QED
  BY <1>1, <1>2

Inv == StateInv /\ LibfrankaInv /\ FrankyInv

LEMMA InvHolds == Spec => []Inv
<1>1. Init => Inv
  BY StateStart, LibfrankaStart, FrankyStart DEF Init, Inv
<1>2. Inv /\ [Next]_vars => Inv'
  <2> SUFFICES ASSUME Inv, [Next]_vars PROVE Inv'
    OBVIOUS
  <2>1. [StateNext]_stateVars /\ [LibfrankaNext]_libfrankaVars /\ [FrankyNext]_frankyVars
    BY DEF Next, Serl, Libfranka, Franky, vars
  <2> QED
    BY <2>1, StateStep, LibfrankaStep, FrankyStep DEF Inv
<1> QED
  BY <1>1, <1>2, PTL DEF Spec

\* Types of all variables; in particular the reentrant lock is taken at most
\* twice.
THEOREM TypeCorrect == Spec => []TypeOK
<1>1. Inv => TypeOK
  BY DEF Inv, StateInv, LibfrankaInv, FrankyInv, TypeOK
<1> QED
  BY <1>1, InvHolds, PTL

\* serl_franka_http_server.py: /getvel never answers a velocity of another
\* jacobian or of other joint velocities than /getjacobian and /getdq.
THEOREM VelocityIsConsistent == Spec => []VelocityConsistent
<1>1. Inv => VelocityConsistent
  BY DEF Inv, StateInv
<1> QED
  BY <1>1, InvHolds, PTL

\* libfranka_http_server.py: with any number of requests beside each other,
\* the robot ends with the thresholds that the server remembers.
THEOREM ThresholdsAreApplied == Spec => []ThresholdsApplied
<1>1. Inv => ThresholdsApplied
  BY DEF Inv, LibfrankaInv
<1> QED
  BY <1>1, InvHolds, PTL

\* franky_http_server.py: memory and robot agree whenever the lock is free.
THEOREM MemoryIsKept == Spec => []MemoryKept
<1>1. Inv => MemoryKept
  BY FrankyMemory DEF Inv
<1> QED
  BY <1>1, InvHolds, PTL
=============================================================================
