----------------------------- MODULE PTPMotion -----------------------------
(***************************************************************************)
(* franka_hardware::PTPMotionHandler and the ptp_motion action of          *)
(* franka_hardware::ActionServer that uses it.                             *)
(*                                                                         *)
(* One caller thread runs the goals one after the other (the callbacks of  *)
(* the node share a mutually exclusive group): it starts a motion and then *)
(* polls its feedback.  Every motion has a task thread (std::async) that   *)
(* sets the target and follows it until it is reached or aborted.  Caller  *)
(* and task share last_feedback_, the future and the control handler.      *)
(* With Cancels, the caller may call cancelMotion between two polls, as    *)
(* the tests do.                                                           *)
(*                                                                         *)
(* libfranka's AsyncPositionControlHandler is external: configuring it and *)
(* setting a target succeed or fail, its feedback is arbitrary.            *)
(***************************************************************************)
EXTENDS Naturals, FiniteSets

CONSTANTS
  MaxMotions,  \* bound on motion_id_
  Cancels      \* is cancelMotion called?

ASSUME MaxMotionsType == MaxMotions \in Nat
ASSUME CancelsType == Cancels \in BOOLEAN

Motions == 1..MaxMotions

VARIABLES
  pc,        \* program counter of the caller
  motionId,  \* motion_id_
  handler,   \* position_control_handler_: the motion it was configured for, 0 when null
  futures,   \* motions with an entry in feedback_futures_
  consumed,  \* entries whose future is no longer valid
  running,   \* running_
  last,      \* last_feedback_, with the motion it is about
  task,      \* program counter of each motion's task
  result,    \* the feedback each task returned
  arm,       \* the motion the arm is executing (external), 0 for none
  outcome    \* how the last goal that ended was reported

callerVars == <<pc, motionId, handler, futures, consumed, running, outcome>>
taskVars == <<last, task, result, arm>>
vars == <<callerVars, taskVars>>

Statuses == {"Idle", "Executing", "Reached", "Aborted"}
Feedback == [of : 0..MaxMotions, status : Statuses]

\* A default-constructed TargetFeedback.
NoFeedback == [of |-> 0, status |-> "Idle"]
\* A future that holds an exception instead of a feedback.
Threw == [of |-> 0, status |-> "exception"]
Live == {"set", "check", "poll", "return"}

Init ==
  /\ pc = "idle" /\ motionId = 0 /\ handler = 0 /\ running = TRUE
  /\ futures = {} /\ consumed = {}
  /\ last = NoFeedback
  /\ task = [m \in Motions |-> "none"]
  /\ result = [m \in Motions |-> NoFeedback]
  /\ arm = 0
  /\ outcome = NoFeedback

-----------------------------------------------------------------------------
(* The caller: startNewPTPMotion.                                           *)

\* The goal ends: ptpMotionAction succeeds or aborts it.
Report(m, status) ==
  /\ outcome' = [of |-> m, status |-> status]
  /\ pc' = "idle"

\* A handler that is still there is used again, otherwise one is configured.
\* The goal has the right number of joints or not.
StartMotion ==
  /\ pc = "idle" /\ motionId < MaxMotions
  /\ handler' = IF handler = 0 THEN motionId + 1 ELSE handler
  /\ pc' \in {"launch", "refuse"}
  /\ UNCHANGED <<motionId, futures, consumed, running, outcome, taskVars>>

RefuseConfigure ==
  /\ pc = "idle" /\ motionId < MaxMotions
  /\ handler = 0
  /\ Report(0, "Aborted")
  /\ UNCHANGED <<motionId, handler, futures, consumed, running, taskVars>>

\* executeMotion returns an error, and the handler is reset.
RefuseTarget ==
  /\ pc = "refuse"
  /\ handler' = 0
  /\ Report(0, "Aborted")
  /\ UNCHANGED <<motionId, futures, consumed, running, taskVars>>

\* Destroying a std::async future waits for its task.
ClearWaits == \E m \in futures : task[m] \in Live

\* Mutant of Launch: the map is not cleared.
LaunchBeside ==
  /\ pc = "launch"
  /\ motionId' = motionId + 1
  /\ futures' = futures \cup {motionId'}
  /\ task' = [task EXCEPT ![motionId'] = "set"]
  /\ pc' = "poll"
  /\ UNCHANGED <<handler, consumed, running, outcome, last, result, arm>>

\* The entry of the last motion, if any, is cleared before the task starts.
Launch ==
  /\ pc = "launch"
  /\ motionId \in futures => ~ClearWaits
  /\ motionId' = motionId + 1
  /\ IF motionId \in futures
       THEN futures' = {motionId'} /\ consumed' = {}
       ELSE futures' = futures \cup {motionId'} /\ UNCHANGED consumed
  /\ task' = [task EXCEPT ![motionId'] = "set"]
  /\ pc' = "poll"
  /\ UNCHANGED <<handler, running, outcome, last, result, arm>>

-----------------------------------------------------------------------------
(* The caller: the loop of ptpMotionAction over getFeedback.                *)

\* The action's answer to the feedback of the current motion.
Answer(status) ==
  IF status \in {"Idle", "Executing"}
    THEN pc' = "poll" /\ UNCHANGED outcome
    ELSE Report(motionId, status)

\* No entry, or one whose future was consumed by an exception.
PollNothing ==
  /\ pc = "poll"
  /\ motionId \notin futures \ consumed
  /\ Report(motionId, "Aborted")
  /\ UNCHANGED <<motionId, handler, futures, consumed, running, taskVars>>

\* wait_for(0): the lock is taken only after the answer.
PollWait ==
  /\ pc = "poll"
  /\ motionId \in futures \ consumed
  /\ pc' = IF task[motionId] \in Live THEN "timeout" ELSE "ready"
  /\ UNCHANGED <<motionId, handler, futures, consumed, running, outcome, taskVars>>

\* Mutant of PollTimeout: last_feedback_ is passed on as it is.
PollTimeoutAsIs ==
  /\ pc = "timeout"
  /\ Answer(last.status)
  /\ UNCHANGED <<motionId, handler, futures, consumed, running, taskVars>>

\* Still working: last_feedback_, but "reached" waits for the future.
PollTimeout ==
  /\ pc = "timeout"
  /\ Answer(IF last.status = "Reached" THEN "Executing" ELSE last.status)
  /\ UNCHANGED <<motionId, handler, futures, consumed, running, taskVars>>

\* get() returns: the entry and the handler are dropped.
PollReady ==
  /\ pc = "ready"
  /\ result[motionId] # Threw
  /\ futures' = futures \ {motionId}
  /\ handler' = 0
  /\ Answer(result[motionId].status)
  /\ UNCHANGED <<motionId, consumed, running, taskVars>>

\* get() throws: the goal is aborted, the entry and the handler stay.
PollThrows ==
  /\ pc = "ready"
  /\ result[motionId] = Threw
  /\ consumed' = consumed \cup {motionId}
  /\ Report(motionId, "Aborted")
  /\ UNCHANGED <<motionId, handler, futures, running, taskVars>>

-----------------------------------------------------------------------------
(* The caller: cancelMotion between two polls.                              *)

Cancel ==
  /\ Cancels /\ pc = "poll"
  /\ running' = FALSE
  /\ pc' = "cancelClear"
  /\ UNCHANGED <<motionId, handler, futures, consumed, outcome, taskVars>>

CancelClear ==
  /\ pc = "cancelClear"
  /\ ~ClearWaits
  /\ futures' = {} /\ consumed' = {}
  /\ pc' = "cancelStop"
  /\ UNCHANGED <<motionId, handler, running, outcome, taskVars>>

\* stopControl, whose exceptions are swallowed, then reset.
CancelStop ==
  /\ pc = "cancelStop"
  /\ arm' = IF handler = 0 THEN arm ELSE 0
  /\ handler' = 0
  /\ pc' = "poll"
  /\ UNCHANGED <<motionId, futures, consumed, running, outcome, last, task, result>>

Caller ==
  \/ StartMotion \/ RefuseConfigure \/ RefuseTarget \/ Launch
  \/ PollNothing \/ PollWait \/ PollTimeout \/ PollReady \/ PollThrows
  \/ Cancel \/ CancelClear \/ CancelStop

-----------------------------------------------------------------------------
(* The task of motion m.                                                    *)

Return(m, feedback) ==
  /\ result' = [result EXCEPT ![m] = feedback]
  /\ task' = [task EXCEPT ![m] = "return"]

SetTarget(m) ==
  /\ task[m] = "set"
  /\ arm' = m
  /\ task' = [task EXCEPT ![m] = "check"]
  /\ UNCHANGED <<callerVars, last, result>>

\* The target is refused: the feedback returned is not last_feedback_.
SetTargetFails(m) ==
  /\ task[m] = "set"
  /\ \E feedback \in {[of |-> m, status |-> "Aborted"], Threw} : Return(m, feedback)
  /\ UNCHANGED <<callerVars, last, arm>>

\* Mutant of CheckRunning: the condition of the loop negated.
CheckNotRunning(m) ==
  /\ task[m] = "check"
  /\ IF ~running
       THEN task' = [task EXCEPT ![m] = "poll"] /\ UNCHANGED result
       ELSE Return(m, last)
  /\ UNCHANGED <<callerVars, last, arm>>

\* The condition of the loop: when running_ is false whatever is in
\* last_feedback_ is returned.
CheckRunning(m) ==
  /\ task[m] = "check"
  /\ IF running
       THEN task' = [task EXCEPT ![m] = "poll"] /\ UNCHANGED result
       ELSE Return(m, last)
  /\ UNCHANGED <<callerVars, last, arm>>

\* The motion goes on.
FollowMotion(m) ==
  /\ task[m] = "poll"
  /\ \E status \in {"Idle", "Executing"} : last' = [of |-> m, status |-> status]
  /\ task' = [task EXCEPT ![m] = "check"]
  /\ UNCHANGED <<callerVars, result, arm>>

\* Mutant of EndMotion: the switch has no case for kAborted.
EndMotionReachedOnly(m) ==
  /\ task[m] = "poll"
  /\ \E status \in {"Reached", "Aborted"} :
       LET feedback == [of |-> m, status |-> status]
       IN  /\ last' = feedback
           /\ IF status = "Reached"
                THEN Return(m, feedback)
                ELSE task' = [task EXCEPT ![m] = "check"] /\ UNCHANGED result
  /\ arm' = IF arm = m THEN 0 ELSE arm
  /\ UNCHANGED callerVars

\* The motion is over: last_feedback_ is set, then control is stopped, which
\* may throw (with an error message it is not stopped).
EndMotion(m) ==
  /\ task[m] = "poll"
  /\ \E status \in {"Reached", "Aborted"} :
       LET feedback == [of |-> m, status |-> status]
       IN  last' = feedback /\ \E f \in {feedback, Threw} : Return(m, f)
  /\ arm' = IF arm = m THEN 0 ELSE arm
  /\ UNCHANGED callerVars

\* The lambda has returned: the future becomes ready.
FutureReady(m) ==
  /\ task[m] = "return"
  /\ task' = [task EXCEPT ![m] = "done"]
  /\ UNCHANGED <<callerVars, last, result, arm>>

Task(m) ==
  \/ SetTarget(m) \/ SetTargetFails(m) \/ CheckRunning(m)
  \/ FollowMotion(m) \/ EndMotion(m) \/ FutureReady(m)

Next == Caller \/ \E m \in Motions : Task(m)

\* The caller's loop and the tasks keep running, also when somebody cancels
\* again and again; nobody has to send a goal or cancel one.  A motion that is
\* followed for ever is over some time.
Fairness ==
  /\ WF_vars(Caller /\ pc # "idle")
  /\ SF_vars(PollNothing \/ PollWait)
  /\ \A m \in Motions : WF_vars(Task(m)) /\ SF_vars(EndMotion(m))

Spec == Init /\ [][Next]_vars /\ Fairness

-----------------------------------------------------------------------------
(* Properties.                                                              *)

\* Every variable has its type.
TypeOK ==
  /\ pc \in {"idle", "launch", "refuse", "poll", "timeout", "ready", "cancelClear", "cancelStop"}
  /\ motionId \in 0..MaxMotions /\ handler \in 0..MaxMotions /\ arm \in 0..MaxMotions
  /\ futures \in SUBSET Motions /\ consumed \in SUBSET Motions
  /\ running \in BOOLEAN
  /\ last \in Feedback /\ outcome \in Feedback
  /\ task \in [Motions -> Live \cup {"none", "done"}]
  /\ result \in [Motions -> Feedback \cup {Threw}]

\* The tasks of two motions never run at the same time: they would command
\* one arm and overwrite each other's last_feedback_ (executeMotion clears
\* the futures only when it finds the last motion among them).
OneTask == \A m, n \in Motions : task[m] \in Live /\ task[n] \in Live => m = n

\* Until the first cancelMotion, a goal succeeds only on the word of its own
\* task, never on a feedback left over from the motion before (getFeedback's
\* answer while the future is not ready).  cancelMotion clears running_ and
\* nothing sets it again: from then on every task returns what is left over.
SuccessIsReal ==
  running /\ outcome.status = "Reached" =>
    /\ outcome.of \in Motions
    /\ result[outcome.of] = outcome

\* While the arm executes a motion the task of the motion follows it, until
\* the first cancelMotion: with running_ cleared the task of a later motion
\* sets its target and returns, and nobody follows the arm.
ArmFollowed == running /\ arm # 0 => task[arm] \in {"check", "poll"}

\* A goal that was taken is reported in the end.
GoalEnds == pc = "launch" ~> pc = "idle"

(* What the comments say, and the code does not do.                         *)

\* Header of getFeedback: it returns the current feedback of the motion whose
\* id it is given.  So a goal is not aborted while the arm executes it.
AbortIsReal == outcome.status = "Aborted" => arm = 0 \/ arm # outcome.of

-----------------------------------------------------------------------------
(* The inductive invariants of the proofs.                                  *)

\* Only the last motion has an entry and only its task can be alive, with a
\* handler; an entry found ready belongs to a task that is over.
TaskInv ==
  /\ futures \subseteq {motionId} /\ consumed \subseteq futures
  /\ \A m \in Motions : task[m] \in Live => m = motionId /\ m \in futures \ consumed
  /\ \A m \in Motions : m > motionId => task[m] = "none"
  /\ pc \in {"launch", "refuse"} => motionId < MaxMotions /\ handler # 0
  /\ pc = "ready" => motionId \in futures \ consumed /\ task[motionId] = "done"
  /\ pc \notin {"idle", "launch", "refuse"} => motionId \in Motions
  /\ pc \in {"cancelClear", "cancelStop"} => Cancels /\ ~running
  /\ motionId \in Motions => task[motionId] # "none"

\* Until the first cancel a task returns only what it found out itself.
ResultInv ==
  running =>
    /\ \A m \in Motions : result[m] \in {NoFeedback, Threw} \/ result[m].of = m
    /\ \A m \in Motions : task[m] \notin {"return", "done"} => result[m] = NoFeedback
=============================================================================
