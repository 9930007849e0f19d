--------------------------- MODULE RecoveryTeleop ---------------------------
(***************************************************************************)
(* The watchdog and the teleoperation of one arm: they see the same robot, *)
(* and the teleoperation knows of a recovery by the messages of the        *)
(* recovering topic, which arrive in order and late.  `part` picks what    *)
(* varies: how the watchdog hears of a reflex, while the teleoperation only *)
(* receives; the recovery, for any trigger at any time, with a Quest that  *)
(* gives a pose or not at will; or the input from the Quest, with a robot  *)
(* that is well.                                                           *)
(***************************************************************************)
EXTENDS RecoveryWatchdog, QuestInput

VARIABLES
  part,
  havePose, inError, recoveryActive, hold, synced, enabled, anchored, target, sent

T == INSTANCE ImpedanceTeleop

watchdogOnly ==
  <<robot, active, streaming, report, running, cooled, rec, attempt, goals, requests,
    recovering>>
teleopOnly ==
  <<havePose, inError, recoveryActive, hold, synced, enabled, anchored, target, sent>>
vars == <<part, watchdogOnly, inbox, teleopOnly, questVars>>

Init ==
  /\ part \in {"reflex", "recovery", "quest"}
  /\ WatchdogInit /\ T!TeleopInit
  /\ streaming = (part = "reflex")
  /\ QuestInit /\ (part # "quest" => input = "topic")

WatchdogStep ==
  /\ part \in {"reflex", "recovery"} /\ (part = "recovery" => UNCHANGED reportVars)
  /\ UNCHANGED <<part, teleopOnly, questVars>>
Watchdog == WatchdogStep /\ WatchdogNext
TeleopStep == part \in {"reflex", "recovery"} /\ UNCHANGED <<part, watchdogOnly, questVars>>
Teleop ==
  /\ TeleopStep
  /\ \/ T!RecoveryStatusCallback
     \/ part = "recovery" /\ T!TeleopNext

\* timer_callback, with the pose that it has or without.
Timer ==
  \/ QuestCycle(TRUE) /\ T!WithPose
  \/ QuestCycle(FALSE) /\ T!MissingQuest

QuestStep == part = "quest" /\ UNCHANGED <<part, watchdogOnly, inbox>>
Quest ==
  /\ QuestStep
  /\ \/ Timer
     \/ T!CurrentPoseCallback /\ UNCHANGED questVars
     \/ (ControllerPoseCallback \/ ReaderDies) /\ UNCHANGED teleopOnly

Next == Watchdog \/ Teleop \/ Quest

\* The recovery thread goes on, since all its waits have a deadline; time
\* passes; a broadcaster that is active keeps sending the robot's state, which
\* the watchdog acts on when it can, and the log is read; the executor of the
\* teleoperation runs its callbacks; a reader can be created in the end.
Spec ==
  /\ Init /\ [][Next]_vars
  /\ WF_vars(WatchdogStep /\ RecoveryThread)
  /\ WF_vars(WatchdogStep /\ CooldownOver)
  /\ WF_vars(WatchdogStep /\ FrankaStateCallback /\ ~running /\ cooled)
  /\ WF_vars(WatchdogStep /\ PollOneLogFile /\ report' # report)
  /\ WF_vars(TeleopStep /\ T!RecoveryStatusCallback)
  /\ WF_vars(QuestStep /\ Timer)
  /\ SF_vars(QuestStep /\ Timer /\ reader' = "alive")

-----------------------------------------------------------------------------
(* Properties.                                                              *)

\* Every variable keeps its type; attempts and queues keep their limits.
TypeOK == WatchdogTypeOK /\ T!TeleopTypeOK /\ QuestTypeOK

\* README of quest3_oculus_rviz: a recovery restarts the controller by itself;
\* the teleoperation pauses meanwhile.  Once the announcement was received, no
\* increment is sent until the end of the recovery was.
NoStepUnderRecovery ==
  sent = "step" /\ recovering => \E i \in DOMAIN inbox : inbox[i] = TRUE

\* While an error or a recovery is known the teleoperation is disarmed: what
\* the last grip left in the target is gone, and what is sent at rest is a pose
\* the robot was measured at, not the zeros of the constructor either.
Disarmed ==
  /\ inError \/ recoveryActive => ~enabled /\ ~anchored /\ target # "steps"
  /\ sent = "rest" => target = "pose"

\* No increment spans a longer silence of the Quest than the time-outs allow:
\* a hand that is found again elsewhere does not take the robot there.  On a
\* topic the grace period only begins when the time-out of the pose has passed.
GapBounded ==
  part = "quest" /\ anchored =>
    gap \in 0 .. Grace + (IF input = "topic" THEN TopicTimeout ELSE 0)

\* What keeps the teleoperation from its input ends: the recovery it was told
\* of, however its steps end, and a reader that died, whether or not it ever
\* gave a pose.
TeleopResumes ==
  /\ recoveryActive ~> ~recoveryActive
  /\ input = "reader" /\ reader = "dead" ~> reader = "alive"

\* A reflex that nobody else clears is answered by an attempt to clear it,
\* whatever triggers were dropped before, as long as the broadcaster tells of
\* it.  When that went down with the hardware component, the line in the log
\* is all there is: it is answered unless the watchdog read it while it was
\* busy with another recovery or its cooldown, and dropped it.
ReflexAnswered ==
  /\ robot = "reflex" /\ streaming ~> robot = "ok" \/ rec = "clear"
  /\ robot = "reflex" /\ report = "unread" ~>
       robot = "ok" \/ rec = "clear" \/ report = "dropped"
=============================================================================
