------------------------------- MODULE Robot -------------------------------
(***************************************************************************)
(* franka_hardware::Robot, the wrapper around one libfranka connection.    *)
(* It owns at most one control session (active_control_) and one Boolean   *)
(* per kind of session (the *_interface_active_ flags), from which         *)
(* writeOnce decides how a command vector is sent.                         *)
(*                                                                         *)
(* libfranka itself is external: starting a session yields a session of    *)
(* the requested kind or throws, reading may throw ControlException when a *)
(* session runs, and a command is accepted only by a session of its kind.  *)
(*                                                                         *)
(* No operator here takes control_mutex_: stopRobot and the initialize...  *)
(* functions do not lock it, and readOnce and the writeOnce... functions   *)
(* hold it only against one another, which a single reader-writer thread   *)
(* never contends for.                                                     *)
(***************************************************************************)
EXTENDS Naturals, FiniteSets

VARIABLES
  session,  \* kind of the libfranka control session, None when active_control_ is null
  flags     \* the *_interface_active_ members that are true

robotVars == <<session, flags>>

None == "None"

\* The five kinds of libfranka control session.
JointKinds == {"Effort", "JointVelocity", "JointPosition"}
Kinds == JointKinds \cup {"CartesianVelocity", "CartesianPose"}

RobotTypeOK ==
  /\ session \in Kinds \cup {None}
  /\ flags \in SUBSET Kinds

RobotInit ==
  /\ session = None
  /\ flags = {}

-----------------------------------------------------------------------------
\* Mutant of StopDropSession: the session is not reset.
StopKeepsSession == UNCHANGED robotVars

(***************************************************************************)
(* stopRobot: the flags are cleared first, the session is destroyed after, *)
(* and nothing happens at all when there is no session.                    *)
(***************************************************************************)
StopClearFlags ==
  /\ flags' = IF session = None THEN flags ELSE {}
  /\ UNCHANGED session

StopDropSession ==
  /\ session' = None
  /\ UNCHANGED flags

\* stopRobot as one step, for callers that nothing else runs beside.
StopRobot ==
  /\ flags' = IF session = None THEN flags ELSE {}
  /\ session' = None

\* Mutant of RaiseFlag: the flag of the neighbouring function.
RaiseOtherFlag(kind) ==
  /\ flags' = flags \cup {IF kind = "JointPosition" THEN "JointVelocity" ELSE kind}
  /\ UNCHANGED session

(***************************************************************************)
(* initialize<kind>Interface: start the session (with one automatic        *)
(* recovery and retry inside), then raise the flag.  When the retry throws *)
(* too, neither assignment happens.                                        *)
(***************************************************************************)
StartSession(kind) ==
  /\ session' = kind
  /\ UNCHANGED flags

RaiseFlag(kind) ==
  /\ flags' = flags \cup {kind}
  /\ UNCHANGED session

-----------------------------------------------------------------------------
(***************************************************************************)
(* writeOnce: how a command of `size` numbers, with or without an elbow    *)
(* pair, is sent, given the flags.  "invalid" stands for the               *)
(* std::invalid_argument thrown when no branch takes the command.          *)
(***************************************************************************)
JointDispatch ==
  IF "Effort" \in flags THEN "Effort"
  ELSE IF "JointVelocity" \in flags THEN "JointVelocity"
  ELSE "JointPosition"

\* Mutant of Dispatch: < for <= in the bound of a Cartesian pose.
DispatchBelow(size, elbow) ==
  IF ~elbow /\ flags \cap JointKinds # {} /\ size <= 7
    THEN JointDispatch
  ELSE IF "CartesianVelocity" \in flags /\ size <= 6
    THEN "CartesianVelocity"
  ELSE IF "CartesianPose" \in flags /\ size < 16
    THEN "CartesianPose"
  ELSE "invalid"

Dispatch(size, elbow) ==
  IF ~elbow /\ flags \cap JointKinds # {} /\ size <= 7
    THEN JointDispatch
  ELSE IF /\ "CartesianVelocity" \in flags
          /\ IF elbow THEN size = 6 ELSE size <= 6
    THEN "CartesianVelocity"
  ELSE IF /\ "CartesianPose" \in flags
          /\ IF elbow THEN size = 16 ELSE size <= 16
    THEN "CartesianPose"
  ELSE "invalid"

\* A session always has exactly its own flag raised: what the code needs
\* of Robot whenever no stop or start is under way.
FlagsMatchSession == flags = IF session = None THEN {} ELSE {session}
=============================================================================
