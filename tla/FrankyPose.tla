----------------------------- MODULE FrankyPose -----------------------------
(***************************************************************************)
(* FrankyCartesianPoseNode: a control thread moves the robot toward the    *)
(* target while teleoperation is enabled; the executor's thread handles    *)
(* the messages and the timer that reads the robot's state or reconnects;  *)
(* gripper commands run on threads of their own.  Either of the first two  *)
(* recovers the robot from an error when a call of franky throws.          *)
(*                                                                         *)
(* Blocks under robot_lock, target_lock or state_lock do not wait inside   *)
(* and are one step; command_send_lock is explicit.  Poses, and with them  *)
(* _step_toward, are left out, and times are Booleans that actions flip.   *)
(* automatic_error_recovery, stop_on_disable and enable_gripper have their *)
(* default, TRUE.  destroy_node is left out.  External: franky, topics.    *)
(***************************************************************************)
EXTENDS Naturals

VARIABLES
  mode,         \* control_command_mode
  robot,        \* is self.robot connected, not None?
  current,      \* current_state: invalid, or read since the connection or not
  enabled,      \* teleop_enabled
  enabledFresh, \* is enabled_stamp within enabled_timeout_sec?
  target,       \* target: not valid, within target_timeout_sec, or older
  hold,         \* now < recovery_hold_until
  cooled,       \* has error_recovery_cooldown_sec passed?
  motionActive, \* motion_active
  sendLock,     \* is command_send_lock held by the control thread?
  ex,           \* program counter of the executor
  ctl,          \* program counter of the control thread
  seen,         \* its copy of enabled and of target, as one: see Decide
  sent,         \* the last motion the node asked of franky; refused: a stop that threw
  grippers,     \* gripper threads that are alive
  gripper       \* is self.gripper connected, not None?

targetVars == <<enabled, enabledFresh, target>>
timeVars == <<hold, cooled>>
gripperVars == <<grippers, gripper>>
vars == <<mode, robot, current, targetVars, timeVars, motionActive, sendLock, ex, ctl,
          seen, sent, gripperVars>>

Threads == {"ex", "ctl"}

\* The strategies that make a motion of a command, and a stop: an absolute pose,
\* or the velocity of the command, which is stopped whether or not it is known
\* to be active.
Modes == {"pose", "velocity"}

Init ==
  /\ mode \in Modes
  /\ robot \in BOOLEAN
  /\ current = "invalid"
  /\ enabled = FALSE /\ enabledFresh = FALSE /\ target = "invalid"
  /\ hold = ~robot /\ cooled = TRUE
  /\ motionActive = FALSE /\ sendLock = FALSE
  /\ ex = "idle" /\ ctl = "sleep" /\ seen = "disabled"
  /\ sent = "none"
  /\ grippers = 0 /\ gripper = FALSE

Goto(t, place) == IF t = "ex" THEN ex' = place /\ UNCHANGED ctl
                              ELSE ctl' = place /\ UNCHANGED ex
Rest(t) == Goto(t, IF t = "ex" THEN "idle" ELSE "sleep")
At(t) == IF t = "ex" THEN ex ELSE ctl

-----------------------------------------------------------------------------
(* Stopping.                                                                *)

\* The stop motion, or Robot::stop when that throws, which may throw too; not
\* to a robot that is None.
SendStopMotion ==
  /\ sent' \in (IF robot THEN {"stop", "refused"} ELSE {sent})
  /\ motionActive' = FALSE

\* Mutant of StopIfActive: both modes go by motion_active.
StopIfActiveFlag(force) ==
  IF force \/ motionActive
    THEN SendStopMotion
    ELSE motionActive' = FALSE /\ UNCHANGED sent

StopIfActive(force) ==
  IF force \/ motionActive \/ mode = "velocity"
    THEN SendStopMotion
    ELSE motionActive' = FALSE /\ UNCHANGED sent

-----------------------------------------------------------------------------
(* Exceptions, in either thread t.                                          *)

\* _set_exception: the hold, then an attempt to recover unless the last one was
\* too recent.  Two threads may both find that it was not.
SetException(t) ==
  /\ At(t) = "failed"
  /\ hold' = TRUE
  /\ IF cooled THEN Goto(t, "recover") ELSE Rest(t)
  /\ UNCHANGED <<mode, robot, current, targetVars, cooled, motionActive, sendLock, seen,
                 sent, gripperVars>>

\* Under robot_lock.  A robot that cannot recover is dropped, and its motion
\* ends with the connection; one that can may have been moving all along.
AttemptErrorRecovery(t) ==
  /\ At(t) = "recover"
  /\ cooled' = FALSE
  /\ \/ /\ ~robot /\ Rest(t)
        /\ UNCHANGED <<robot, motionActive, sent, hold>>
     \/ /\ robot /\ robot' = FALSE /\ Rest(t)
        /\ motionActive' = FALSE /\ sent' = "none" /\ hold' = TRUE
     \/ /\ robot /\ Goto(t, "recovered")
        /\ sent' \in {sent, "none"}
        /\ UNCHANGED <<robot, motionActive, hold>>
  /\ UNCHANGED <<mode, current, targetVars, sendLock, seen, gripperVars>>

\* The rest without robot_lock: the target is forgotten.
ErrorRecovered(t) ==
  /\ At(t) = "recovered"
  /\ target' = "invalid"
  /\ motionActive' = FALSE /\ hold' = TRUE
  /\ Rest(t)
  /\ UNCHANGED <<mode, robot, current, enabled, enabledFresh, cooled, sendLock, seen,
                 sent, gripperVars>>

-----------------------------------------------------------------------------
(* The executor.                                                            *)

TargetCallback ==
  /\ ex = "idle"
  /\ target' = "fresh"
  /\ UNCHANGED <<mode, robot, current, enabled, enabledFresh, timeVars, motionActive,
                 sendLock, ex, ctl, seen, sent, gripperVars>>

EnabledCallback(value) ==
  /\ ex = "idle"
  /\ enabled' = value /\ enabledFresh' = TRUE
  /\ IF enabled /\ ~value
       THEN target' = "invalid" /\ Goto("ex", "disable")
       ELSE UNCHANGED <<target, ex, ctl>>
  /\ UNCHANGED <<mode, robot, current, timeVars, motionActive, sendLock, seen, sent,
                 gripperVars>>

\* Under command_send_lock.
HandleTeleopDisabled ==
  /\ ex = "disable" /\ ~sendLock
  /\ StopIfActive(TRUE)
  /\ Goto("ex", "idle")
  /\ UNCHANGED <<mode, robot, current, targetVars, timeVars, sendLock, seen, gripperVars>>

\* publish_state_timer, with the robot: its state is read, or that throws.
ReadCurrentState ==
  /\ ex = "idle" /\ robot
  /\ \/ current' = "read" /\ UNCHANGED <<ex, ctl>>
     \/ Goto("ex", "failed") /\ UNCHANGED current
  /\ UNCHANGED <<mode, robot, targetVars, timeVars, motionActive, sendLock, seen, sent,
                 gripperVars>>

\* Without: once per reconnect_interval_sec.  What was read before the loss of
\* the connection stays valid.
TryConnectRobot ==
  /\ ex = "idle" /\ ~robot
  /\ \/ /\ robot' = TRUE
        /\ current' = IF current = "invalid" THEN current ELSE "old"
        /\ UNCHANGED <<ex, ctl>>
     \/ /\ Goto("ex", "failed") /\ UNCHANGED <<robot, current>>
  /\ UNCHANGED <<mode, targetVars, timeVars, motionActive, sendLock, seen, sent,
                 gripperVars>>

\* A command during another one is ignored.
StartGripperCommand ==
  /\ ex = "idle" /\ grippers = 0
  /\ grippers' = 1
  /\ UNCHANGED <<mode, robot, current, targetVars, timeVars, motionActive, sendLock, ex, ctl,
                 seen, sent, gripper>>

\* It ends, or throws, after which the next command connects again.
RunGripperCommand ==
  /\ grippers > 0 /\ grippers' = grippers - 1
  /\ gripper' \in BOOLEAN
  /\ UNCHANGED <<mode, robot, current, targetVars, timeVars, motionActive, sendLock, ex, ctl,
                 seen, sent>>

Executor ==
  \/ TargetCallback \/ (\E value \in BOOLEAN : EnabledCallback(value))
  \/ HandleTeleopDisabled
  \/ ReadCurrentState \/ TryConnectRobot
  \/ SetException("ex") \/ AttemptErrorRecovery("ex") \/ ErrorRecovered("ex")
  \/ StartGripperCommand

-----------------------------------------------------------------------------
(* The control thread.                                                      *)

\* Under target_lock.
Snapshot ==
  /\ ctl = "sleep"
  /\ seen' = IF ~(enabled /\ enabledFresh) THEN "disabled"
             ELSE IF target # "fresh" THEN "waiting" ELSE "target"
  /\ ctl' = "decide"
  /\ UNCHANGED <<mode, robot, current, targetVars, timeVars, motionActive, sendLock, ex,
                 sent, gripperVars>>

\* A motion is sent if all is well; one that begins only if its target is not
\* too far.  Nothing is stopped without a robot or during the hold.
Decide ==
  /\ ctl = "decide"
  /\ \/ /\ ~robot \/ current = "invalid"
        /\ ctl' = "sleep" /\ UNCHANGED <<motionActive, sent>>
     \/ /\ robot /\ current # "invalid" /\ hold
        /\ ctl' = "sleep" /\ motionActive' = FALSE /\ UNCHANGED sent
     \/ /\ robot /\ current # "invalid" /\ ~hold
        /\ seen # "target" \/ ~motionActive
        /\ ctl' = "sleep" /\ StopIfActive(FALSE)
     \/ /\ robot /\ current # "invalid" /\ ~hold /\ seen = "target"
        /\ ctl' = "lock" /\ UNCHANGED <<motionActive, sent>>
  /\ UNCHANGED <<mode, robot, current, targetVars, timeVars, sendLock, ex, seen,
                 gripperVars>>

\* Mutant of CheckStillEnabled: what was read before the lock decides.
CheckSeenEnabled ==
  /\ ctl = "lock" /\ ~sendLock
  /\ sendLock' = TRUE /\ ctl' = "send" /\ UNCHANGED <<motionActive, sent>>
  /\ UNCHANGED <<mode, robot, current, targetVars, timeVars, ex, seen, gripperVars>>

\* The first thing under command_send_lock, which the motion is sent under too.
CheckStillEnabled ==
  /\ ctl = "lock" /\ ~sendLock
  /\ IF enabled /\ enabledFresh
       THEN sendLock' = TRUE /\ ctl' = "send" /\ UNCHANGED <<motionActive, sent>>
       ELSE ctl' = "sleep" /\ StopIfActive(TRUE) /\ UNCHANGED sendLock
  /\ UNCHANGED <<mode, robot, current, targetVars, timeVars, ex, seen, gripperVars>>

\* _send_cartesian_motion or _send_cartesian_velocity
Send ==
  /\ ctl = "send"
  /\ sendLock' = FALSE
  /\ \/ robot /\ sent' = "move" /\ motionActive' = TRUE /\ ctl' = "sleep"
     \/ ctl' = "failed" /\ UNCHANGED <<sent, motionActive>>
  /\ UNCHANGED <<mode, robot, current, targetVars, timeVars, ex, seen, gripperVars>>

Control ==
  \/ Snapshot \/ Decide \/ CheckStillEnabled \/ Send
  \/ SetException("ctl") \/ AttemptErrorRecovery("ctl") \/ ErrorRecovered("ctl")

-----------------------------------------------------------------------------

\* Time passes.
Expire ==
  /\ \/ enabledFresh /\ enabledFresh' = FALSE /\ UNCHANGED <<target, timeVars>>
     \/ target = "fresh" /\ target' = "stale" /\ UNCHANGED <<enabledFresh, timeVars>>
     \/ hold /\ hold' = FALSE /\ UNCHANGED <<enabledFresh, target, cooled>>
     \/ ~cooled /\ cooled' = TRUE /\ UNCHANGED <<enabledFresh, target, hold>>
  /\ UNCHANGED <<mode, robot, current, enabled, motionActive, sendLock, ex, ctl, seen,
                 sent, gripperVars>>

Next == Executor \/ Control \/ RunGripperCommand \/ Expire

-----------------------------------------------------------------------------
(* Properties.                                                              *)

\* Every variable keeps its type; the gripper has one command at a time.
TypeOK ==
  /\ mode \in Modes
  /\ {robot, enabled, enabledFresh, hold, cooled, motionActive, sendLock, gripper} \subseteq BOOLEAN
  /\ current \in {"invalid", "read", "old"} /\ target \in {"invalid", "fresh", "stale"}
  /\ ex \in {"idle", "disable", "failed", "recover", "recovered"}
  /\ ctl \in {"sleep", "decide", "lock", "send", "failed", "recover", "recovered"}
  /\ seen \in {"disabled", "waiting", "target"}
  /\ sent \in {"none", "move", "stop", "refused"}
  /\ grippers \in 0..1

\* Once the handler of the message that disables teleoperation is done, the
\* last motion asked of the robot is not one toward a target: neither the control
\* thread's motion that was on its way nor motion_active, reset by a hold or a
\* recovery while the robot moved, gets past the stop.
DisabledMeansStopped == ~enabled /\ ex # "disable" => sent # "move"

\* In velocity mode, when the enabled messages stop coming and no exception
\* prolongs the hold for ever, the last motion is a stop in the end.
SilenceStops ==
  mode = "velocity" /\ <>[](~enabledFresh /\ ~hold) => <>[](sent # "move")
=============================================================================
