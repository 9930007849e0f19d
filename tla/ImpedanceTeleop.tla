-------------------------- MODULE ImpedanceTeleop --------------------------
(***************************************************************************)
(* SimpleQuestImpedanceTeleopNode: one thread whose timer turns the motion *)
(* of the Quest controller, while its grip is held, into increments of the *)
(* target of the impedance controller, and whose subscriptions pause it    *)
(* during an error of the robot and a recovery by the watchdog.            *)
(*                                                                         *)
(* Poses are abstracted to where the target comes from: the initial zeros, *)
(* a measured pose, or increments on a measured pose.  The size of the     *)
(* increments is left out; whether a cycle has a pose is QuestInput.       *)
(* Times are Booleans that an action flips.  External: the robot's state   *)
(* and pose, the Quest and its reader.                                     *)
(***************************************************************************)
EXTENDS Sequences

VARIABLES
  robot,        \* the robot's mode (external)
  inbox,        \* messages of the recovering topic on their way
  havePose,     \* have_current_pose
  inError,      \* franka_in_error
  recoveryActive, \* recovery_active
  hold,         \* now < recovery_hold_until
  synced,       \* idle_target_synced
  enabled,      \* teleop_enabled
  anchored,     \* is there a previous_hand_position?
  target,       \* where target_position comes from
  sent          \* what the last callback sent as target

flagVars == <<havePose, inError, recoveryActive, hold>>
targetVars == <<synced, enabled, anchored, target>>
teleopVars == <<flagVars, targetVars, sent>>

TeleopInit ==
  /\ havePose = FALSE /\ inError = FALSE /\ recoveryActive = FALSE /\ hold = FALSE
  /\ synced = FALSE /\ enabled = FALSE /\ anchored = FALSE /\ target = "zeros"
  /\ sent = "nothing"

\* Mutant of SetIdleTarget: teleop_enabled is left as it is.
SetIdleTargetStaysEnabled(force) ==
  /\ UNCHANGED <<enabled, anchored>>
  /\ IF havePose /\ (force \/ enabled \/ ~synced)
       THEN target' = "pose" /\ synced' = TRUE
       ELSE synced' = (synced /\ havePose) /\ UNCHANGED target

\* Teleoperation rests: its target is the pose of the robot when it began to.
SetIdleTarget(force) ==
  /\ enabled' = FALSE /\ anchored' = FALSE
  /\ IF havePose /\ (force \/ enabled \/ ~synced)
       THEN target' = "pose" /\ synced' = TRUE
       ELSE synced' = (synced /\ havePose) /\ UNCHANGED target

-----------------------------------------------------------------------------
(* Subscriptions.                                                           *)

CurrentPoseCallback ==
  /\ havePose' = TRUE
  /\ sent' = "nothing"
  /\ UNCHANGED <<inError, recoveryActive, hold, targetVars>>

\* An error synchronises the target once, when it comes, and once more when
\* it has gone.
FrankaStateCallback ==
  /\ inError' = (robot = "reflex")
  /\ IF inError' \/ inError
       THEN SetIdleTarget(inError' # inError)
       ELSE UNCHANGED targetVars
  /\ sent' = "nothing"
  /\ UNCHANGED <<havePose, recoveryActive, hold>>

\* Mutant of RecoveryStatusCallback: the announcement only sets the flag when
\* the robot's error is already known.
RecoveryStatusCallbackInError ==
  /\ inbox # <<>> /\ inbox' = Tail(inbox)
  /\ recoveryActive' = (Head(inbox) /\ inError)
  /\ IF Head(inbox) \/ recoveryActive
       THEN SetIdleTarget(Head(inbox) # recoveryActive)
       ELSE UNCHANGED targetVars
  /\ hold' = (hold \/ (recoveryActive /\ ~Head(inbox)))
  /\ sent' = "nothing"
  /\ UNCHANGED <<havePose, inError>>

\* The end of a recovery starts post_recovery_hold_sec.
RecoveryStatusCallback ==
  /\ inbox # <<>> /\ inbox' = Tail(inbox)
  /\ recoveryActive' = Head(inbox)
  /\ IF Head(inbox) \/ recoveryActive
       THEN SetIdleTarget(Head(inbox) # recoveryActive)
       ELSE UNCHANGED targetVars
  /\ hold' = (hold \/ (recoveryActive /\ ~Head(inbox)))
  /\ sent' = "nothing"
  /\ UNCHANGED <<havePose, inError>>

\* Time passes.
HoldOver ==
  /\ hold /\ hold' = FALSE
  /\ UNCHANGED <<havePose, inError, recoveryActive, targetVars, sent>>

-----------------------------------------------------------------------------
(* The timer.                                                               *)

\* The target, if any, that a branch of timer_callback publishes.
Publish(what) == sent' = what

\* No pose of the controller, and the last one is past its grace period.  The
\* idle target is published during an error or a recovery too.
MissingQuest ==
  /\ SetIdleTarget(FALSE)
  /\ Publish(IF havePose THEN "rest" ELSE "nothing")
  /\ UNCHANGED flagVars

Paused == inError \/ recoveryActive \/ hold

\* There is a pose: a new one, or the last within its grace period with the
\* buttons it came with.  With or without the grip held:
PausedCycle ==
  /\ Paused
  /\ SetIdleTarget(FALSE)
  /\ Publish("nothing")
  /\ UNCHANGED <<flagVars>>

WaitingRobotPose ==
  /\ ~Paused /\ ~havePose
  /\ enabled' = FALSE /\ anchored' = FALSE
  /\ Publish("nothing")
  /\ UNCHANGED <<synced, target, flagVars>>

\* Not held.
IdleCycle ==
  /\ ~Paused /\ havePose
  /\ SetIdleTarget(FALSE)
  /\ Publish("rest")
  /\ UNCHANGED <<flagVars>>

\* Held: the first cycle captures the anchor, the next ones add increments.
CaptureAnchor ==
  /\ ~Paused /\ havePose
  /\ ~enabled \/ ~anchored
  /\ enabled' = TRUE /\ anchored' = TRUE /\ synced' = FALSE
  /\ target' = "pose"
  /\ Publish("rest")
  /\ UNCHANGED <<flagVars>>

Increment ==
  /\ ~Paused /\ havePose
  /\ enabled /\ anchored
  /\ target' = "steps"
  /\ Publish("step")
  /\ UNCHANGED <<synced, enabled, anchored, flagVars>>

WithPose ==
  \/ PausedCycle \/ WaitingRobotPose \/ IdleCycle \/ CaptureAnchor \/ Increment

TimerCallback == MissingQuest \/ WithPose

TeleopNext ==
  \/ /\ \/ CurrentPoseCallback \/ FrankaStateCallback \/ HoldOver \/ TimerCallback
     /\ UNCHANGED inbox
  \/ RecoveryStatusCallback

-----------------------------------------------------------------------------
(* Properties.                                                              *)

TeleopTypeOK ==
  /\ {havePose, inError, recoveryActive, hold, synced, enabled, anchored} \subseteq BOOLEAN
  /\ target \in {"zeros", "pose", "steps"}
  /\ sent \in {"nothing", "rest", "step"}
=============================================================================
