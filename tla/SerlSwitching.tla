---------------------------- MODULE SerlSwitching ----------------------------
(***************************************************************************)
(* FrankaHTTPBridge: the requests that load and switch controllers.  Each  *)
(* HTTP request runs on a thread of its own, without a lock, and one more  *)
(* thread starts the impedance controller once; each of them reads the     *)
(* states of the controllers and later asks for a switch.                  *)
(*                                                                         *)
(* The response of a service and what the thread does with it are one      *)
(* step.  Any wait may fail: no server, a deadline, or a response that is  *)
(* not ok.  A request whose deadline passed is served later, or never.     *)
(* Poses, trajectories, gripper widths and parameters are left out, and so *)
(* are the contents of answers.  External: the controller manager, the     *)
(* spawner, MoveIt, the action servers.                                    *)
(***************************************************************************)
EXTENDS Naturals, FiniteSets

CONSTANTS
  Handlers,   \* threads of ThreadingHTTPServer, reused for one request after another
  AutoStart,  \* the thread _run_auto_start_sequence
  RetryCount, \* auto_start_retry_count
  MaxLate     \* bound on the requests served after their deadline

ASSUME AutoStartAssumption == AutoStart \notin Handlers
ASSUME RetryCountType == RetryCount \in Nat \ {0}
ASSUME MaxLateType == MaxLate \in Nat

VARIABLES
  mode,    \* who calls: see Modes
  pose,    \* pose_auto_activate_impedance, pose_fallback_to_ik, or neither
  ctrl,    \* the state of each controller (external)
  job,     \* what each thread does
  attempt, \* attempts of the auto start
  late     \* requests whose deadline passed, not served yet

vars == <<mode, pose, ctrl, job, attempt, late>>

Threads == Handlers \cup {AutoStart}

Imp == "impedance"
Joint == "joint"
Cart == "cartesian_pose"
Precise == "precise"
Controllers == {Imp, Joint, Cart, Precise}
States == {"unloaded", "unconfigured", "inactive", "active"}

\* orderly: one request after the other, responses in time, no use_controller
\* and no IK fallback.  serial: all requests, one after the other, responses in
\* time.  late: one after the other, but some are served after their deadline.
\* overlap: all threads at once.
Modes == {"orderly", "serial", "late", "overlap"}
PoseModes == {"activate", "fallback", "refuse"}

Requests == {"startimp", "stopimp", "pose", "pose_precise", "reset_controller",
             "reset_ptp", "clearerr", "update_param", "gripper", "reset_gripper"}
Allowed == Requests \ (IF mode = "orderly" THEN {"reset_controller"} ELSE {})

\* seen: the controllers that _controller_states listed as active.
\* failed: the motion failed, or the answer was an error.
Job == [op : Requests \cup {"none", "auto", "pose_start", "pose_fallback"},
        at : {"idle", "delay", "wait", "snapshot", "list", "load", "configure", "states",
              "switch", "target", "validate", "motion", "back", "settle", "publish",
              "plan", "execute", "stop", "action"},
        seen : SUBSET Controllers,
        failed : BOOLEAN]
Answered(failed) == [op |-> "none", at |-> "idle", seen |-> {}, failed |-> failed]

Active == {c \in Controllers : ctrl[c] = "active"}

Init ==
  /\ mode \in Modes /\ pose \in PoseModes
  /\ mode = "orderly" => pose # "fallback"
  /\ \E others \in {"unloaded", "inactive"} :
       /\ mode = "overlap" => others = "inactive"
       /\ ctrl = [c \in Controllers |-> IF c = Imp THEN "unloaded" ELSE others]
  /\ job = [t \in Threads |->
              IF t = AutoStart /\ mode = "overlap"
                THEN [Answered(FALSE) EXCEPT !.op = "auto", !.at = "delay"]
                ELSE Answered(FALSE)]
  /\ attempt = 1
  /\ late = {}

-----------------------------------------------------------------------------
(* The controller manager.                                                  *)

LoadRequest(c) == [kind |-> "load", activate |-> {c}, deactivate |-> {}]
ConfigureRequest(c) == [kind |-> "configure", activate |-> {c}, deactivate |-> {}]

\* A strict switch needs every controller in the state it assumes; the best
\* effort leaves those out that are not.
Served(r) ==
  CASE r.kind = "load"      -> \A c \in r.activate : ctrl[c] = "unloaded"
    [] r.kind = "configure" -> \A c \in r.activate : ctrl[c] \in {"unconfigured", "inactive"}
    [] r.kind = "strict"    -> /\ \A c \in r.activate : ctrl[c] = "inactive"
                               /\ \A c \in r.deactivate : ctrl[c] = "active"
    [] OTHER                -> TRUE

Effect(r) ==
  CASE r.kind = "load"      -> [c \in Controllers |->
                                  IF c \in r.activate THEN "unconfigured" ELSE ctrl[c]]
    [] r.kind = "configure" -> [c \in Controllers |->
                                  IF c \in r.activate THEN "inactive" ELSE ctrl[c]]
    [] OTHER                -> [c \in Controllers |->
                                  IF c \in r.activate /\ ctrl[c] = "inactive" THEN "active"
                                  ELSE IF c \in r.deactivate /\ ctrl[c] = "active" THEN "inactive"
                                  ELSE ctrl[c]]

ServeLate ==
  \E r \in late :
    /\ late' = late \ {r}
    /\ ctrl' = IF Served(r) THEN Effect(r) ELSE ctrl
    /\ UNCHANGED <<mode, pose, job, attempt>>

\* The launch file's spawner loads and configures the impedance controller.
Spawn ==
  /\ ctrl[Imp] \in {"unloaded", "unconfigured"}
  /\ ctrl' = [ctrl EXCEPT ![Imp] = IF @ = "unloaded" THEN "unconfigured" ELSE "inactive"]
  /\ UNCHANGED <<mode, pose, job, attempt, late>>

-----------------------------------------------------------------------------
(* Steps of a thread t.                                                     *)

Goto(t, at) == job' = [job EXCEPT ![t].at = at]
GotoUnseen(t, at) == job' = [job EXCEPT ![t].at = at, ![t].seen = {}]
Answer(t, failed) == job' = [job EXCEPT ![t] = Answered(failed)]

\* A request arrives.
Begin(op) == IF op = "stopimp" THEN "switch"
             ELSE IF op \in {"pose", "reset_ptp"} THEN "snapshot"
             ELSE IF op = "reset_gripper" THEN "stop"
             ELSE IF op \in {"clearerr", "update_param", "gripper"} THEN "action"
             ELSE "list"

HandleRequest(t, op) ==
  /\ t \in Handlers /\ job[t].at = "idle"
  /\ mode = "overlap" \/ \A u \in Threads : job[u].at = "idle"
  /\ op \in Allowed
  /\ job' = [job EXCEPT ![t] = [Answered(FALSE) EXCEPT !.op = op, !.at = Begin(op)]]
  /\ UNCHANGED <<mode, pose, ctrl, attempt, late>>

Needed(op) ==
  CASE op = "pose_precise"     -> Precise
    [] op = "reset_controller" -> Joint
    [] op = "pose_fallback"    -> Cart
    [] OTHER                   -> Imp

\* What follows _ensure_controller_loaded.
Loaded(op) ==
  CASE op = "reset_controller" -> "target"
    [] op = "pose_fallback"    -> "switch"
    [] OTHER                   -> "states"

EnsureControllerLoaded(t) ==
  LET c == Needed(job[t].op) IN
  /\ job[t].at = "list"
  /\ Goto(t, CASE ctrl[c] = "unloaded"     -> "load"
               [] ctrl[c] = "unconfigured" -> "configure"
               [] OTHER                    -> Loaded(job[t].op))
  /\ UNCHANGED <<mode, pose, ctrl, attempt, late>>

\* Mutant of StartRequest: the precise controller is forgotten.
StartRequestNotPrecise(seen) ==
  [kind |-> "strict", activate |-> {Imp}, deactivate |-> seen \ {Imp, Precise}]

\* What is asked for in a switch that starts impedance: all others that are
\* active go.
StartRequest(seen) ==
  [kind |-> "strict", activate |-> {Imp}, deactivate |-> seen \ {Imp}]

StopRequest == [kind |-> "effort", activate |-> {}, deactivate |-> {Imp}]
PreciseRequest(seen) ==
  [kind |-> "effort", activate |-> {Precise}, deactivate |-> seen \ {Precise}]
FallbackRequest(seen) ==
  [kind |-> "effort", activate |-> {Cart} \ seen, deactivate |-> seen \cap {Imp, Joint}]
ToJointRequest == [kind |-> "effort", activate |-> {Joint}, deactivate |-> {Imp}]
FromJointRequest == [kind |-> "effort", activate |-> {Imp}, deactivate |-> {Joint}]
BeforePTPRequest(seen) ==
  [kind |-> "effort", activate |-> {}, deactivate |-> seen \cap {Imp, Cart, Joint}]

\* One of the two controllers that were active is restored, impedance first.
Restored(seen) == IF Imp \in seen THEN {Imp} ELSE {Cart} \cap seen
AfterPTPRequest(seen) ==
  [kind |-> "effort", activate |-> Restored(seen), deactivate |-> {}]

\* The switch that each operation asks for, and the one after its motion.
SwitchRequest(op, seen) ==
  CASE op = "stopimp"          -> StopRequest
    [] op = "pose_precise"     -> PreciseRequest(seen)
    [] op = "pose_fallback"    -> FallbackRequest(seen)
    [] op = "reset_controller" -> ToJointRequest
    [] op = "reset_ptp"        -> BeforePTPRequest(seen)
    [] OTHER                   -> StartRequest(seen)
BackRequest(op, seen) == IF op = "reset_ptp" THEN AfterPTPRequest(seen) ELSE FromJointRequest

\* What thread t asks the controller manager for.
Request(t) ==
  LET j == job[t] IN
  CASE j.at = "load"      -> LoadRequest(Needed(j.op))
    [] j.at = "configure" -> ConfigureRequest(Needed(j.op))
    [] j.at = "back"      -> BackRequest(j.op, j.seen)
    [] OTHER              -> SwitchRequest(j.op, j.seen)

Responds(t) ==
  /\ Served(Request(t)) /\ ctrl' = Effect(Request(t))
  /\ UNCHANGED <<mode, pose, attempt, late>>

Load(t) ==
  /\ job[t].at = "load"
  /\ Responds(t)
  /\ Goto(t, "configure")

Configure(t) ==
  /\ job[t].at = "configure"
  /\ Responds(t)
  /\ Goto(t, Loaded(job[t].op))

\* start_impedance and _start_precise_controller: nothing to do when the
\* controller is active already.
ControllerStates(t) ==
  LET j == job[t] IN
  /\ j.at = "states"
  /\ IF Needed(j.op) \notin Active
       THEN job' = [job EXCEPT ![t].seen = Active, ![t].at = "switch"]
       ELSE IF j.op = "pose_start" THEN Goto(t, "publish")
       ELSE IF j.op = "pose_precise" THEN Goto(t, "plan")
       ELSE Answer(t, FALSE)
  /\ UNCHANGED <<mode, pose, ctrl, attempt, late>>

\* move_pose: the target goes to the impedance controller, which is started, or
\* replaced by the fallback, when it is not active.
MovePose(t) ==
  /\ job[t].at = "snapshot" /\ job[t].op = "pose"
  /\ IF Imp \in Active THEN Goto(t, "publish")
     ELSE IF pose = "activate"
       THEN job' = [job EXCEPT ![t].op = "pose_start", ![t].at = "list"]
     ELSE IF pose = "fallback"
       THEN job' = [job EXCEPT ![t] = [@ EXCEPT !.op = "pose_fallback", !.at = "list", !.seen = Active]]
     ELSE Answer(t, TRUE)
  /\ UNCHANGED <<mode, pose, ctrl, attempt, late>>

\* _reset_joint_with_ptp, before its first switch, which it may do without.
ResetJointWithPTP(t) ==
  /\ job[t].at = "snapshot" /\ job[t].op = "reset_ptp"
  /\ job' = [job EXCEPT ![t].seen = Active,
                        ![t].at = IF Active \cap {Imp, Cart, Joint} = {} THEN "validate"
                                                                         ELSE "switch"]
  /\ UNCHANGED <<mode, pose, ctrl, attempt, late>>

\* The fallback may find nothing to switch.
NothingToSwitch(t) ==
  /\ job[t].at = "switch" /\ job[t].op = "pose_fallback"
  /\ Request(t).activate \cup Request(t).deactivate = {}
  /\ Goto(t, "publish")
  /\ UNCHANGED <<mode, pose, ctrl, attempt, late>>

SwitchControllers(t) ==
  /\ job[t].at = "switch"
  /\ Request(t).activate \cup Request(t).deactivate # {}
  /\ Responds(t)
  /\ LET op == job[t].op IN
     CASE op \in {"startimp", "stopimp", "auto"} -> Answer(t, FALSE)
       [] op = "reset_ptp"        -> Goto(t, "validate")
       [] op = "pose_start"       -> GotoUnseen(t, "publish")
       [] op = "pose_fallback"    -> GotoUnseen(t, "settle")
       [] op = "pose_precise"     -> GotoUnseen(t, "plan")
       [] op = "reset_controller" -> GotoUnseen(t, "motion")

\* Steps that wait for something other than the controller manager.
Go(t, from, to) ==
  /\ job[t].at = from
  /\ Goto(t, to)
  /\ UNCHANGED <<mode, pose, ctrl, attempt, late>>

SetJointTarget(t) == Go(t, "target", "switch")

\* The fallback controller is first told to stay where the robot is.
HoldCurrentPose(t) == Go(t, "settle", "publish")
ComputeCartesianPath(t) == Go(t, "plan", "execute")

\* reset_gripper does not mind when the stop fails.
StopGripper(t) == Go(t, "stop", "action")

\* The velocities of a PTP goal are checked after the first switch.
CheckVelocities(t) == Go(t, "validate", "motion")

Continue(t) ==
  \/ SetJointTarget(t) \/ HoldCurrentPose(t) \/ ComputeCartesianPath(t)
  \/ StopGripper(t) \/ CheckVelocities(t)

\* Last steps, which end with the answer.
Done(t, at) ==
  /\ job[t].at = at
  /\ Answer(t, FALSE)
  /\ UNCHANGED <<mode, pose, ctrl, attempt, late>>

\* The server of an action was there, took the goal and returned its result.
RunAction(t) == Done(t, "action")

PublishPose(t) == Done(t, "publish")
ExecuteTrajectory(t) == Done(t, "execute")
ClearError(t) == job[t].op = "clearerr" /\ Done(t, "action")
UpdateParams(t) == job[t].op = "update_param" /\ Done(t, "action")
RunGripperAction(t) == job[t].op \in {"gripper", "reset_gripper"} /\ RunAction(t)

Complete(t) ==
  \/ PublishPose(t) \/ ExecuteTrajectory(t)
  \/ ClearError(t) \/ UpdateParams(t) \/ RunGripperAction(t)

\* _reset_joint_with_controller: the joints have reached the target.
JointsReached(t) ==
  /\ job[t].op = "reset_controller"
  /\ Go(t, "motion", "back")

\* Mutant of EndMotion: the restoring switch is not in a finally block.
EndMotionNoFinally(t) ==
  LET j == job[t] IN
  /\ j.at = "motion" /\ j.op = "reset_ptp"
  /\ \E failed \in BOOLEAN :
       IF Restored(j.seen) = {} \/ failed
         THEN Answer(t, failed)
         ELSE job' = [job EXCEPT ![t].at = "back", ![t].failed = failed]
  /\ UNCHANGED <<mode, pose, ctrl, attempt, late>>

\* The PTP action returns, fails or is not waited for any longer.  finally: what
\* the reset stopped is asked for again.
EndMotion(t) ==
  LET j == job[t] IN
  /\ j.at = "motion" /\ j.op = "reset_ptp"
  /\ \E failed \in BOOLEAN :
       IF Restored(j.seen) = {}
         THEN Answer(t, failed)
         ELSE job' = [job EXCEPT ![t].at = "back", ![t].failed = failed]
  /\ UNCHANGED <<mode, pose, ctrl, attempt, late>>

SwitchBack(t) ==
  /\ job[t].at = "back"
  /\ Responds(t)
  /\ Answer(t, job[t].failed)

-----------------------------------------------------------------------------
(* The auto start, and failures.                                            *)

\* After its delay and an attempt to clear the error, which may fail.
AutoDelay ==
  /\ job[AutoStart].at = "delay"
  /\ Goto(AutoStart, "wait")
  /\ UNCHANGED <<mode, pose, ctrl, attempt, late>>

\* The spawner has configured the controller, or the deadline has passed.
AutoWait ==
  /\ job[AutoStart].at = "wait"
  /\ Goto(AutoStart, "list")
  /\ UNCHANGED <<mode, pose, ctrl, attempt, late>>

\* Mutant of AutoFails: attempts are not counted.
AutoFailsUncounted ==
  /\ job[AutoStart].at \in {"list", "load", "configure", "states", "switch"}
  /\ job' = [job EXCEPT ![AutoStart] = [@ EXCEPT !.at = "list", !.seen = {}]]
  /\ UNCHANGED attempt

AutoFails ==
  /\ job[AutoStart].at \in {"list", "load", "configure", "states", "switch"}
  /\ IF attempt < RetryCount
       THEN /\ attempt' = attempt + 1
            /\ job' = [job EXCEPT ![AutoStart] = [@ EXCEPT !.at = "list", !.seen = {}]]
       ELSE Answer(AutoStart, TRUE) /\ UNCHANGED attempt

\* An exception, which becomes an error answer.  A motion that raises is left
\* through EndMotion when it is a PTP motion.
RequestFails(t) ==
  /\ t \in Handlers /\ job[t].at \notin {"idle", "publish", "settle"}
  /\ ~(job[t].at = "motion" /\ job[t].op = "reset_ptp")
  /\ Answer(t, TRUE) /\ UNCHANGED attempt

Fails(t) == (t = AutoStart /\ AutoFails) \/ RequestFails(t)

\* The request was refused, or never sent.
Refused(t) ==
  /\ Fails(t)
  /\ UNCHANGED <<mode, pose, ctrl, late>>

\* The response did not come in time.
TimedOut(t) ==
  /\ mode = "late"
  /\ job[t].at \in {"load", "configure", "switch", "back"}
  /\ Cardinality(late \cup {Request(t)}) <= MaxLate
  /\ late' = late \cup {Request(t)}
  /\ Fails(t)
  /\ UNCHANGED <<mode, pose, ctrl>>

Step(t) ==
  \/ EnsureControllerLoaded(t) \/ Load(t) \/ Configure(t) \/ ControllerStates(t)
  \/ MovePose(t) \/ ResetJointWithPTP(t) \/ NothingToSwitch(t) \/ SwitchControllers(t)
  \/ Continue(t) \/ Complete(t) \/ JointsReached(t) \/ EndMotion(t) \/ SwitchBack(t)
  \/ Refused(t) \/ TimedOut(t)

AutoStep == AutoDelay \/ AutoWait

Next ==
  \/ \E t \in Handlers, op \in Requests : HandleRequest(t, op)
  \/ \E t \in Threads : Step(t)
  \/ AutoStep
  \/ ServeLate \/ Spawn

\* Each thread goes on, since every wait has a deadline.
Spec ==
  /\ Init /\ [][Next]_vars
  /\ \A t \in Threads : WF_vars(Step(t))
  /\ WF_vars(AutoStep)

-----------------------------------------------------------------------------
(* Properties.                                                              *)

TypeOK ==
  /\ mode \in Modes /\ pose \in PoseModes
  /\ ctrl \in [Controllers -> States]
  /\ job \in [Threads -> Job]
  /\ attempt \in 1..RetryCount
  /\ Cardinality(late) <= MaxLate

\* Without a joint reset by the controller and without the fallback, requests
\* that do not overlap leave at most one arm controller active: whichever of
\* start_impedance and move_pose_precise ran last has stopped the other's.  And
\* during the PTP motion of a reset that nothing overlaps with none is active
\* but the precise one, which _reset_joint_with_ptp does not stop.
OneArmController ==
  /\ mode = "orderly" => Cardinality(Active) <= 1
  /\ \A t \in Threads :
       mode \in {"orderly", "serial"} /\ job[t].op = "reset_ptp" /\ job[t].at = "motion"
         => Active \subseteq {Precise}

\* A PTP reset that found impedance active, and whose motion was tried, ends
\* with impedance active, unless the request to restore it failed.
ImpedanceRestored ==
  [][\A t \in Threads :
       /\ job[t].op = "reset_ptp" /\ job[t].at \in {"motion", "back"} /\ Imp \in job[t].seen
       /\ job'[t].at = "idle"
       => ctrl'[Imp] = "active" \/ (job[t].at = "back" /\ job'[t].failed)]_vars

\* Every request is answered, and the auto start ends, whatever fails.
RequestsAnswered == \A t \in Threads : job[t].at # "idle" ~> job[t].at = "idle"
=============================================================================
