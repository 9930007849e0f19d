-------------------------- MODULE PTPMotionProofs --------------------------
(***************************************************************************)
(* Proofs about PTPMotion, for every bound on motion_id_.  With or without *)
(* cancels the types are right and no two tasks run at the same time;      *)
(* until the first cancel a goal succeeds only on the word of its own      *)
(* task, and a moving arm is followed by the task of its motion.           *)
(***************************************************************************)
EXTENDS PTPMotion, TLAPS

(* Types and tasks.                                                         *)

TasksInv == TypeOK /\ TaskInv

\* Before the first goal there is no task.
LEMMA TasksInit == Init => TasksInv
BY MaxMotionsType DEF Init, TasksInv, TypeOK, TaskInv, NoFeedback, Feedback, Statuses,
   Motions, Live

\* startNewPTPMotion: the entry that is cleared is the only one, its task is
\* over, and the new task gets the next id.
LEMMA TasksStart ==
  ASSUME TasksInv, StartMotion \/ RefuseConfigure \/ RefuseTarget \/ Launch
  PROVE  TasksInv'
<1> USE MaxMotionsType DEF TasksInv, TypeOK, TaskInv, Motions, Live, taskVars
<1>1. CASE StartMotion
  BY <1>1 DEF StartMotion
<1>2. CASE RefuseConfigure
  BY <1>2 DEF RefuseConfigure, Report, Feedback, Statuses
<1>3. CASE RefuseTarget
  BY <1>3 DEF RefuseTarget, Report, Feedback, Statuses
<1>4. CASE Launch
  <2>1. \A m \in Motions : task[m] \notin Live
    BY <1>4 DEF Launch, ClearWaits
  <2>0. motionId' = motionId + 1 /\ motionId' \in Motions /\ pc' = "poll"
    BY <1>4 DEF Launch
  <2>2. futures' = {motionId'} /\ consumed' = {}
    <3>1. CASE motionId \in futures
      BY <1>4, <3>1 DEF Launch
    <3>2. CASE motionId \notin futures
      <4>1. futures = {} /\ consumed = {}
        BY <3>2
      <4> QED BY <1>4, <3>2, <4>1 DEF Launch
    <3> QED BY <3>1, <3>2
  <2>3. /\ task' = [task EXCEPT ![motionId'] = "set"]
        /\ UNCHANGED <<handler, running, outcome, last, result, arm>>
    BY <1>4 DEF Launch
  <2>4. TypeOK'
    BY <2>0, <2>2, <2>3
  <2>5. TaskInv'
    BY <2>0, <2>1, <2>2, <2>3
  <2> QED BY <2>4, <2>5
<1> QED BY <1>1, <1>2, <1>3, <1>4

\* The polls and cancelMotion drop an entry only when its task is over.
LEMMA TasksPoll ==
  ASSUME TasksInv,
         \/ PollNothing \/ PollWait \/ PollTimeout \/ PollReady \/ PollThrows
         \/ Cancel \/ CancelClear \/ CancelStop
  PROVE  TasksInv'
<1> USE MaxMotionsType DEF TasksInv, TypeOK, TaskInv, Motions, Live, taskVars
<1>1. CASE PollNothing
  BY <1>1 DEF PollNothing, Report, Feedback, Statuses
<1>2. CASE PollWait
  BY <1>2 DEF PollWait
<1>3. CASE PollTimeout
  BY <1>3 DEF PollTimeout, Answer, Report, Feedback, Statuses
<1>4. CASE PollReady
  <2>1. result[motionId] \in Feedback
    BY <1>4 DEF PollReady
  <2> QED BY <1>4, <2>1 DEF PollReady, Answer, Report, Feedback, Statuses
<1>5. CASE PollThrows
  BY <1>5 DEF PollThrows, Report, Feedback, Statuses
<1>6. CASE Cancel
  BY <1>6 DEF Cancel
<1>7. CASE CancelClear
  BY <1>7 DEF CancelClear, ClearWaits
<1>8. CASE CancelStop
  BY <1>8 DEF CancelStop
<1> QED BY <1>1, <1>2, <1>3, <1>4, <1>5, <1>6, <1>7, <1>8

\* A task that returns was alive, and is until its future is ready.
LEMMA TaskReturns ==
  ASSUME TasksInv, NEW m \in Motions, NEW f \in Feedback \cup {Threw},
         task[m] \in Live, Return(m, f), UNCHANGED callerVars,
         last' \in Feedback, arm' \in 0..MaxMotions
  PROVE  TasksInv'
<1> USE DEF TasksInv, Live, callerVars
<1>1. TypeOK'
  BY DEF TypeOK, Return
<1>2. TaskInv'
  BY DEF TypeOK, TaskInv, Return
<1> QED BY <1>1, <1>2

\* A task stays within its own motion.
LEMMA TasksTask ==
  ASSUME TasksInv, NEW m \in Motions, Task(m)
  PROVE  TasksInv'
<1> USE MaxMotionsType DEF TasksInv, TypeOK, TaskInv, Motions, Live, callerVars,
        Feedback, Statuses
<1>1. CASE SetTarget(m)
  BY <1>1 DEF SetTarget
<1>2. CASE SetTargetFails(m)
  <2>0. [of |-> m, status |-> "Aborted"] \in Feedback
    OBVIOUS
  <2>1. PICK f \in Feedback \cup {Threw} : Return(m, f)
    BY <1>2, <2>0 DEF SetTargetFails
  <2> QED BY <1>2, <2>1, TaskReturns DEF SetTargetFails
<1>3. CASE CheckRunning(m)
  <2>1. CASE running
    <3>1. /\ task' = [task EXCEPT ![m] = "poll"] /\ task[m] = "check"
          /\ UNCHANGED <<callerVars, last, result, arm>>
      BY <1>3, <2>1 DEF CheckRunning
    <3>2. TypeOK'
      BY <3>1
    <3>3. TaskInv'
      BY <3>1
    <3> QED BY <3>2, <3>3
  <2>2. CASE ~running
    BY <1>3, <2>2, TaskReturns DEF CheckRunning
  <2> QED BY <2>1, <2>2
<1>4. CASE FollowMotion(m)
  BY <1>4 DEF FollowMotion
<1>5. CASE EndMotion(m)
  <2>1. PICK f \in Feedback \cup {Threw} : Return(m, f)
    BY <1>5 DEF EndMotion
  <2>2. last' \in Feedback /\ arm' \in 0..MaxMotions /\ UNCHANGED callerVars
    BY <1>5 DEF EndMotion
  <2> QED BY <1>5, <2>1, <2>2, TaskReturns DEF EndMotion
<1>6. CASE FutureReady(m)
  BY <1>6 DEF FutureReady
<1> QED BY <1>1, <1>2, <1>3, <1>4, <1>5, <1>6 DEF Task

\* Every step of the caller and of the tasks preserves the invariant.
LEMMA TasksNext == TasksInv /\ [Next]_vars => TasksInv'
<1> SUFFICES ASSUME TasksInv, [Next]_vars PROVE TasksInv'
  OBVIOUS
<1>1. CASE Caller
  BY <1>1, TasksStart, TasksPoll DEF Caller
<1>2. CASE \E m \in Motions : Task(m)
  BY <1>2, TasksTask
<1>3. CASE UNCHANGED vars
  BY <1>3 DEF vars, callerVars, taskVars, TasksInv, TypeOK, TaskInv
<1> QED BY <1>1, <1>2, <1>3 DEF Next

\* Every variable keeps its type, with or without cancels.
THEOREM MotionTypes == Spec => []TypeOK
<1>1. TasksInv => TypeOK
  BY DEF TasksInv
<1> QED BY <1>1, TasksInit, TasksNext, PTL DEF Spec

\* No two motions are ever followed, or commanded, at the same time, with or
\* without cancels: the clear in executeMotion finds every live task although
\* it looks for the last motion only.
THEOREM OneTaskAtATime == Spec => []OneTask
<1>1. TasksInv => OneTask
  BY DEF TasksInv, TaskInv, OneTask
<1> QED BY <1>1, TasksInit, TasksNext, PTL DEF Spec

-----------------------------------------------------------------------------
(* Results, until something is cancelled.                                   *)

Results == ResultInv /\ ArmFollowed /\ SuccessIsReal

\* Before the first goal there is no result and the arm rests.
LEMMA ResultsInit == Init => Results
BY DEF Init, Results, ResultInv, ArmFollowed, SuccessIsReal, NoFeedback

\* The caller: success is reported from a future that is ready, and what is
\* in a ready future comes from the motion's own task.
LEMMA ResultsCaller ==
  ASSUME TasksInv, Results, running, running', Caller
  PROVE  Results'
<1> USE MaxMotionsType DEF Results, ResultInv, ArmFollowed, SuccessIsReal, taskVars
<1>1. CASE StartMotion
  BY <1>1 DEF StartMotion
<1>2. CASE RefuseConfigure
  BY <1>2 DEF RefuseConfigure, Report
<1>3. CASE RefuseTarget
  BY <1>3 DEF RefuseTarget, Report
<1>4. CASE Launch
  <2>1. \A m \in Motions : task[m] \notin Live
    BY <1>4 DEF Launch, ClearWaits, TasksInv, TaskInv
  <2>2. /\ motionId' \in Motions /\ task[motionId'] = "none"
        /\ task' = [task EXCEPT ![motionId'] = "set"]
        /\ UNCHANGED <<running, outcome, last, result, arm>>
    BY <1>4 DEF Launch, TasksInv, TypeOK, TaskInv, Motions
  <2>3. arm = 0
    BY <2>1 DEF TasksInv, TypeOK, Motions, Live
  <2> QED BY <2>2, <2>3 DEF TasksInv, TypeOK
<1>5. CASE PollNothing
  BY <1>5 DEF PollNothing, Report
<1>6. CASE PollWait
  BY <1>6 DEF PollWait
<1>7. CASE PollTimeout
  BY <1>7 DEF PollTimeout, Answer, Report
<1>8. CASE PollReady
  <2>1. motionId \in Motions /\ result[motionId] \in Feedback
    BY <1>8 DEF PollReady, TasksInv, TypeOK, TaskInv
  <2>2. result[motionId].status = "Reached" => result[motionId].of = motionId
    BY <2>1 DEF NoFeedback, Threw
  <2>3. result[motionId] = [of |-> result[motionId].of, status |-> result[motionId].status]
    BY <2>1 DEF Feedback
  <2> QED BY <1>8, <2>1, <2>2, <2>3 DEF PollReady, Answer, Report
<1>9. CASE PollThrows
  BY <1>9 DEF PollThrows, Report
<1>10. CASE Cancel \/ CancelClear \/ CancelStop
  BY <1>10 DEF Cancel, CancelClear, CancelStop, TasksInv, TaskInv
<1> QED
  BY <1>1, <1>2, <1>3, <1>4, <1>5, <1>6, <1>7, <1>8, <1>9, <1>10 DEF Caller

\* The task: it returns its own feedback once, and the arm is its own.
LEMMA ResultsTask ==
  ASSUME TasksInv, Results, running, NEW m \in Motions, Task(m)
  PROVE  Results'
<1> USE DEF Results, ResultInv, ArmFollowed, SuccessIsReal, callerVars, Live
<1>1. m = motionId /\ \A n \in Motions : task[n] \in Live => n = m
  BY DEF TasksInv, TaskInv, Task, SetTarget, SetTargetFails, CheckRunning, FollowMotion,
         EndMotion, FutureReady
<1>2. arm \in 0..MaxMotions /\ (arm # 0 => arm \in Motions)
  BY MaxMotionsType DEF TasksInv, TypeOK, Motions
<1>3. arm # 0 => arm = m
  BY <1>1, <1>2
<1>4. /\ task \in [Motions -> Live \cup {"none", "done"}]
      /\ result \in [Motions -> Feedback \cup {Threw}]
  BY DEF TasksInv, TypeOK
<1>5. outcome.status = "Reached" => outcome.of # m \/ result[m] # NoFeedback
  BY DEF NoFeedback
<1>6. CASE SetTarget(m)
  BY <1>4, <1>6 DEF SetTarget
<1>7. CASE SetTargetFails(m)
  <2>1. arm = 0
    BY <1>3, <1>7 DEF SetTargetFails
  <2>2. PICK f \in {[of |-> m, status |-> "Aborted"], Threw} : Return(m, f)
    BY <1>7 DEF SetTargetFails
  <2>3. f = Threw \/ f.of = m
    OBVIOUS
  <2> QED BY <1>4, <1>5, <1>7, <2>1, <2>2, <2>3 DEF SetTargetFails, Return
<1>8. CASE CheckRunning(m)
  <2>1. /\ task' = [task EXCEPT ![m] = "poll"] /\ task[m] = "check"
        /\ UNCHANGED <<callerVars, last, result, arm>>
    BY <1>8 DEF CheckRunning
  <2> QED BY <1>4, <2>1
<1>9. CASE FollowMotion(m)
  BY <1>4, <1>9 DEF FollowMotion
<1>10. CASE EndMotion(m)
  <2>1. PICK f : Return(m, f) /\ (f = Threw \/ f.of = m)
    BY <1>10 DEF EndMotion
  <2>3. arm' = 0
    BY <1>3, <1>10 DEF EndMotion
  <2> QED BY <1>4, <1>5, <1>10, <2>1, <2>3 DEF EndMotion, Return
<1>11. CASE FutureReady(m)
  BY <1>3, <1>4, <1>11 DEF FutureReady
<1> QED BY <1>6, <1>7, <1>8, <1>9, <1>10, <1>11 DEF Task

\* Nothing sets running_ again.
LEMMA StaysCancelled == Next /\ running' => running
BY DEF Next, Caller, Task, StartMotion, RefuseConfigure, RefuseTarget, Launch, PollNothing,
   PollWait, PollTimeout, PollReady, PollThrows, Cancel, CancelClear, CancelStop,
   SetTarget, SetTargetFails, CheckRunning, FollowMotion, EndMotion, FutureReady, callerVars

\* Every step preserves the results, as long as nothing is cancelled.
LEMMA ResultsNext == TasksInv /\ Results /\ [Next]_vars => Results'
<1> SUFFICES ASSUME TasksInv, Results, [Next]_vars PROVE Results'
  OBVIOUS
<1>1. CASE ~running'
  BY <1>1 DEF Results, ResultInv, ArmFollowed, SuccessIsReal
<1>2. CASE running' /\ Caller
  BY <1>2, ResultsCaller, StaysCancelled DEF Next
<1>3. CASE running' /\ \E m \in Motions : Task(m)
  BY <1>3, ResultsTask, StaysCancelled DEF Next
<1>4. CASE UNCHANGED vars
  BY <1>4 DEF vars, callerVars, taskVars, Results, ResultInv, ArmFollowed, SuccessIsReal
<1> QED BY <1>1, <1>2, <1>3, <1>4 DEF Next

\* Both hold from the first goal on.
LEMMA ResultsAlways == Spec => []Results
<1>1. TasksInv /\ Results /\ [Next]_vars => (TasksInv /\ Results)'
  BY TasksNext, ResultsNext
<1>2. Init => TasksInv /\ Results
  BY TasksInit, ResultsInit
<1> QED BY <1>1, <1>2, PTL DEF Spec

\* Until the first cancel a goal succeeds only when its own task saw the
\* target reached: however many goals are sent and however caller and task
\* interleave.
THEOREM MotionResults == Spec => []SuccessIsReal
<1>1. Results => SuccessIsReal
  BY DEF Results
<1> QED BY <1>1, ResultsAlways, PTL

\* And the arm never moves for a motion whose task is over.
THEOREM MotionFollowed == Spec => []ArmFollowed
<1>1. Results => ArmFollowed
  BY DEF Results
<1> QED BY <1>1, ResultsAlways, PTL
=============================================================================
