-------------------------- MODULE RecoveryWatchdog --------------------------
(***************************************************************************)
(* FrankaErrorRecoveryWatchdog: callbacks on the node's executor look for  *)
(* a reflex in the robot state, in /rosout and in the log files of         *)
(* ros2_control; the first that finds one starts a recovery thread, which  *)
(* stops the controllers, clears the error and starts the impedance        *)
(* controller again, announcing on `recovering` when it begins and ends.   *)
(*                                                                         *)
(* Parameters have their defaults: enabled, deactivation before and        *)
(* restart after a recovery.  Delays take any time.  A request that timed  *)
(* out stays in the queue of its server and is served later.               *)
(* External: the robot, its error_recovery server, the controller manager. *)
(***************************************************************************)
EXTENDS Naturals, Sequences

CONSTANTS
  Retries,   \* recovery_retry_count
  MaxRequests, \* bound on the switch requests not served yet
  MaxGoals,  \* bound on the recovery goals not finished yet
  MaxInbox   \* bound on the undelivered messages of the recovering topic

ASSUME RetriesType == Retries \in Nat \ {0}
ASSUME MaxRequestsType == MaxRequests \in Nat \ {0}
ASSUME MaxGoalsType == MaxGoals \in Nat \ {0}
ASSUME MaxInboxType == MaxInbox \in Nat \ {0}

VARIABLES
  robot,       \* the robot's mode: "ok" or "reflex"
  active,      \* is the impedance controller active?
  streaming,   \* is the robot state broadcaster active?
  report,      \* the newest reflex in the log: "unread", "dropped" as a
               \* trigger, or "none" (acted upon, or never logged)
  running,     \* _recovery_running
  cooled,      \* has cooldown_sec passed since _last_recovery_start?
  rec,         \* program counter of the recovery thread
  attempt,     \* failed attempts of _clear_error_with_retries
  goals,       \* error recovery goals the server has not finished
  requests,    \* switch requests the controller manager has not served
  recovering,  \* what was last published on the recovering topic
  inbox        \* messages of that topic on their way to the teleoperation

lockVars == <<running, cooled>>
threadVars == <<rec, attempt>>
serverVars == <<robot, active, goals, requests>>
reportVars == <<streaming, report>>
topicVars == <<recovering, inbox>>

Steps == {"none", "announce", "deactivate", "deactivating", "clear", "clearing",
          "restart", "restarting", "waiting", "succeeded", "failed", "release"}

\* The constructor publishes FALSE, which reaches whoever listens by then.
WatchdogInit ==
  /\ robot = "ok" /\ active \in BOOLEAN
  /\ streaming \in BOOLEAN /\ report = "none"
  /\ running = FALSE /\ cooled = TRUE
  /\ rec = "none" /\ attempt = 0
  /\ goals = 0 /\ requests = <<>>
  /\ recovering = FALSE /\ inbox = <<>>

PublishRecovering(value) ==
  /\ Len(inbox) < MaxInbox
  /\ recovering' = value
  /\ inbox' = Append(inbox, value)

-----------------------------------------------------------------------------
(* Triggers, on the executor's thread.                                      *)

\* Under the lock; a trigger during a recovery or its cooldown is dropped.
RequestRecovery ==
  IF running \/ ~cooled
    THEN UNCHANGED <<lockVars, threadVars>>
    ELSE /\ running' = TRUE /\ cooled' = FALSE
         /\ rec' = "announce" /\ attempt' = 0

FrankaStateCallback ==
  /\ robot = "reflex" /\ streaming
  /\ RequestRecovery
  /\ UNCHANGED <<serverVars, topicVars, reportVars>>

\* A message with a trigger pattern, which may come late and from any node.
RosoutCallback ==
  /\ RequestRecovery
  /\ UNCHANGED <<serverVars, topicVars, reportVars>>

\* The poll reads up to the first line with a trigger pattern, which may be
\* there long after its reflex: each poll stops at one line.  What it read is
\* behind the offset, also when the trigger is dropped.
PollOneLogFile ==
  /\ RequestRecovery
  /\ \/ UNCHANGED report
     \/ /\ report = "unread"
        /\ report' = IF running \/ ~cooled THEN "dropped" ELSE "none"
  /\ UNCHANGED <<serverVars, topicVars, streaming>>

\* Time passes.
CooldownOver ==
  /\ ~cooled /\ cooled' = TRUE
  /\ UNCHANGED <<running, threadVars, serverVars, topicVars, reportVars>>

-----------------------------------------------------------------------------
(* The recovery thread.                                                     *)

GoTo(step) == rec' = step /\ UNCHANGED attempt

Announce ==
  /\ rec = "announce"
  /\ PublishRecovering(TRUE)
  /\ GoTo("deactivate")
  /\ UNCHANGED <<lockVars, serverVars, reportVars>>

\* _switch_controllers: call_async, then the thread waits for the response.
SwitchControllers(request, next) ==
  /\ Len(requests) < MaxRequests
  /\ requests' = Append(requests, request)
  /\ GoTo(next)

DeactivateForRecovery ==
  /\ rec = "deactivate"
  /\ SwitchControllers("stop", "deactivating")
  /\ UNCHANGED <<lockVars, robot, active, goals, topicVars, reportVars>>

\* No service, no response in time, or one that is not ok: "continuing anyway".
DeactivateFails ==
  /\ rec \in {"deactivate", "deactivating"}
  /\ GoTo("clear")
  /\ UNCHANGED <<lockVars, serverVars, topicVars, reportVars>>

SendGoal ==
  /\ rec = "clear" /\ goals < MaxGoals
  /\ goals' = goals + 1
  /\ GoTo("clearing")
  /\ UNCHANGED <<lockVars, robot, active, requests, topicVars, reportVars>>

\* Mutant of ClearFails: one attempt more.
ClearFailsOnceMore ==
  /\ rec \in {"clear", "clearing"}
  /\ attempt' = attempt + 1
  /\ rec' = IF attempt < Retries THEN "clear" ELSE "failed"
  /\ UNCHANGED <<lockVars, serverVars, topicVars, reportVars>>

\* No server, the goal rejected, or no answer or result in time: once more,
\* up to recovery_retry_count.
ClearFails ==
  /\ rec \in {"clear", "clearing"}
  /\ attempt' = attempt + 1
  /\ rec' = IF attempt' < Retries THEN "clear" ELSE "failed"
  /\ UNCHANGED <<lockVars, serverVars, topicVars, reportVars>>

\* Mutant of Restart: the response is not awaited.
RestartAndForget ==
  /\ rec = "restart"
  /\ SwitchControllers("start", "waiting")
  /\ UNCHANGED <<lockVars, robot, active, goals, topicVars, reportVars>>

Restart ==
  /\ rec = "restart"
  /\ SwitchControllers("start", "restarting")
  /\ UNCHANGED <<lockVars, robot, active, goals, topicVars, reportVars>>

\* A time-out, a response that is not ok, or the controller is not seen active
\* before the deadline.
RestartFails ==
  /\ rec \in {"restart", "restarting", "waiting"}
  /\ GoTo("failed")
  /\ UNCHANGED <<lockVars, serverVars, topicVars, reportVars>>

WaitForActive ==
  /\ rec = "waiting"
  /\ active
  /\ GoTo("succeeded")
  /\ UNCHANGED <<lockVars, serverVars, topicVars, reportVars>>

\* Mutant of Finish: the end is announced only when the recovery succeeded.
FinishSucceeded ==
  \/ /\ rec = "succeeded"
     /\ PublishRecovering(FALSE)
     /\ GoTo("release")
     /\ UNCHANGED <<lockVars, serverVars, reportVars>>
  \/ /\ rec = "failed"
     /\ GoTo("release")
     /\ UNCHANGED <<lockVars, serverVars, topicVars, reportVars>>

\* finally: first the announcement,
Finish ==
  /\ rec \in {"succeeded", "failed"}
  /\ PublishRecovering(FALSE)
  /\ GoTo("release")
  /\ UNCHANGED <<lockVars, serverVars, reportVars>>

\* Mutant of Release: the flag is left set.
ReleaseKeepsRunning ==
  /\ rec = "release"
  /\ GoTo("none")
  /\ UNCHANGED <<lockVars, serverVars, topicVars, reportVars>>

\* then the flag.  A trigger in between is dropped.
Release ==
  /\ rec = "release"
  /\ running' = FALSE
  /\ GoTo("none")
  /\ UNCHANGED <<cooled, serverVars, topicVars, reportVars>>

RecoveryThread ==
  \/ Announce \/ DeactivateForRecovery \/ DeactivateFails \/ SendGoal \/ ClearFails
  \/ Restart \/ RestartFails \/ WaitForActive \/ Finish \/ Release

-----------------------------------------------------------------------------
(* The servers and the robot.                                               *)

\* One goal after the other.  The result of the last one reaches the thread
\* if it still waits; that the goal may have been aborted is not looked at.
RecoverRobot ==
  /\ goals > 0 /\ goals' = goals - 1
  /\ robot' \in {"ok", robot}
  /\ IF goals = 1 /\ rec = "clearing" THEN GoTo("restart") ELSE UNCHANGED threadVars
  /\ UNCHANGED <<lockVars, active, requests, topicVars, reportVars>>

\* BEST_EFFORT: "stop" deactivates all command controllers, "start" all but
\* the impedance controller, which it activates if the hardware lets it.
SwitchEffect(request) ==
  IF request = "stop"
    THEN active' = FALSE
    ELSE active' \in BOOLEAN

\* One request after the other; only the last may still be waited for.
ServeSwitch ==
  /\ requests # <<>>
  /\ requests' = Tail(requests)
  /\ SwitchEffect(Head(requests))
  /\ IF Len(requests) = 1 /\ rec \in {"deactivating", "restarting"}
       THEN GoTo(IF rec = "deactivating" THEN "clear" ELSE "waiting")
       ELSE UNCHANGED threadVars
  /\ UNCHANGED <<lockVars, robot, goals, topicVars, reportVars>>

\* A reflex.  When a controller moves the robot the read fails and is logged,
\* and its error may take all controllers down, the broadcaster with them.
\* Otherwise only the robot's state changes.
Reflex ==
  /\ robot = "ok" /\ robot' = "reflex"
  /\ \/ /\ report' = IF streaming THEN "unread" ELSE "none"
        /\ \/ active' = FALSE /\ streaming' \in {FALSE, streaming}
           \/ UNCHANGED <<active, streaming>>
     \/ ~active /\ report' = "none" /\ UNCHANGED <<active, streaming>>
  /\ UNCHANGED <<lockVars, threadVars, goals, requests, topicVars>>

\* Other clients switch controllers too, the broadcaster included.
OtherSwitch ==
  /\ active' \in BOOLEAN /\ streaming' \in {streaming, TRUE}
  /\ UNCHANGED <<lockVars, threadVars, robot, goals, requests, topicVars, report>>

WatchdogNext ==
  \/ FrankaStateCallback \/ RosoutCallback \/ PollOneLogFile \/ CooldownOver
  \/ RecoveryThread
  \/ RecoverRobot \/ ServeSwitch \/ Reflex \/ OtherSwitch

-----------------------------------------------------------------------------
(* Properties.                                                              *)

WatchdogTypeOK ==
  /\ robot \in {"ok", "reflex"} /\ active \in BOOLEAN
  /\ streaming \in BOOLEAN /\ report \in {"none", "unread", "dropped"}
  /\ running \in BOOLEAN /\ cooled \in BOOLEAN
  /\ rec \in Steps /\ attempt \in 0..Retries
  /\ goals \in 0..MaxGoals
  /\ requests \in Seq({"stop", "start"}) /\ Len(requests) <= MaxRequests
  /\ recovering \in BOOLEAN /\ inbox \in Seq(BOOLEAN) /\ Len(inbox) <= MaxInbox

\* When a recovery reports success, nothing it asked of the controller
\* manager is still to be served: a deactivation that timed out and was
\* passed over ("continuing anyway") cannot stop the impedance controller
\* after it was started again.
RestartIsLast == rec = "succeeded" => requests = <<>>
=============================================================================
