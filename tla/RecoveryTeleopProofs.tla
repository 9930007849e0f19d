------------------------ MODULE RecoveryTeleopProofs ------------------------
(***************************************************************************)
(* Proofs about the watchdog and the teleoperation of one arm: the         *)
(* watchdog's queues and counters, what the teleoperation may send during  *)
(* a recovery, and how old the hand's motion may be that it acts on.       *)
(***************************************************************************)
EXTENDS RecoveryTeleop, SequenceTheorems, TLAPS

-----------------------------------------------------------------------------
(* Type correctness.                                                        *)

\* The last message of the queue of a topic is the one that was sent last.
LEMMA LastAppended ==
  ASSUME NEW S, NEW s \in Seq(S), NEW e \in S
  PROVE  /\ Append(s, e) \in Seq(S) /\ Len(Append(s, e)) = Len(s) + 1
         /\ Append(s, e) # <<>>
         /\ Append(s, e)[Len(Append(s, e))] = e
BY AppendProperties

\* Taking the first message keeps the last one, unless it was the only one.
LEMMA LastOfTail ==
  ASSUME NEW S, NEW s \in Seq(S), s # <<>>
  PROVE  /\ Head(s) \in S /\ Tail(s) \in Seq(S) /\ Len(Tail(s)) = Len(s) - 1
         /\ Tail(s) = <<>> => Head(s) = s[Len(s)]
         /\ Tail(s) # <<>> => Tail(s)[Len(Tail(s))] = s[Len(s)]
<1>1. PICK t : t = Tail(s)
  OBVIOUS
<1>2. /\ Head(s) \in S /\ t \in Seq(S) /\ Len(t) = Len(s) - 1
      /\ \A i \in 1..Len(t) : t[i] = s[i + 1]
  BY <1>1, HeadTailProperties, Zenon
<1>3. Len(s) \in Nat \ {0} /\ Head(s) = s[1]
  BY EmptySeq, LenProperties
<1>4. ASSUME t = <<>> PROVE Head(s) = s[Len(s)]
  <2>1. Len(t) = 0
    BY <1>4
  <2>2. Len(s) = 1
    BY <1>2, <1>3, <2>1
  <2> QED BY <1>3, <2>2
<1>5. ASSUME t # <<>> PROVE t[Len(t)] = s[Len(s)]
  <2>1. Len(t) \in 1..Len(t)
    BY <1>2, <1>5, EmptySeq, LenProperties
  <2>2. Len(t) + 1 = Len(s)
    BY <1>2, <1>3
  <2> QED BY <1>2, <2>1, <2>2
<1> QED BY <1>1, <1>2, <1>4, <1>5, Zenon

\* The types of the watchdog are not inductive by themselves: its counter of
\* attempts stays below recovery_retry_count while there is an attempt to make.
WatchdogInv ==
  /\ WatchdogTypeOK
  /\ rec \in {"announce", "deactivate", "deactivating"} => attempt = 0
  /\ rec \in {"clear", "clearing"} => attempt < Retries

\* What the constructor leaves.
LEMMA WatchdogStarts == WatchdogInit => WatchdogInv
<1> SUFFICES ASSUME WatchdogInit PROVE WatchdogInv
  OBVIOUS
<1> USE DEF WatchdogInit
<1>1. requests \in Seq({"stop", "start"}) /\ Len(requests) = 0
  BY EmptySeq
<1>2. inbox \in Seq(BOOLEAN) /\ Len(inbox) = 0
  BY EmptySeq
<1>3. active \in BOOLEAN /\ streaming \in BOOLEAN /\ report \in {"none", "unread", "dropped"}
  OBVIOUS
<1> HIDE DEF WatchdogInit
<1>4. /\ robot = "ok" /\ running = FALSE /\ cooled = TRUE /\ recovering = FALSE
      /\ rec = "none" /\ attempt = 0 /\ goals = 0
  BY DEF WatchdogInit
<1>5. 0 \in 0..Retries /\ 0 \in 0..MaxGoals /\ 0 <= MaxRequests /\ 0 <= MaxInbox
  BY RetriesType, MaxRequestsType, MaxGoalsType, MaxInboxType
<1> QED BY <1>1, <1>2, <1>3, <1>4, <1>5
        DEF WatchdogInv, WatchdogTypeOK, Steps

\* Triggers start a recovery with no attempt made.
LEMMA WatchdogTriggers ==
  ASSUME WatchdogInv, 
         \/ FrankaStateCallback \/ RosoutCallback \/ PollOneLogFile \/ CooldownOver
  PROVE  WatchdogInv'
<1>1. /\ UNCHANGED serverVars /\ UNCHANGED topicVars
      /\ streaming' \in BOOLEAN /\ report' \in {"none", "unread", "dropped"}
  BY DEF FrankaStateCallback, RosoutCallback, PollOneLogFile, CooldownOver, reportVars,
         WatchdogInv, WatchdogTypeOK
<1>2. \/ UNCHANGED threadVars /\ running' \in BOOLEAN /\ cooled' \in BOOLEAN
      \/ rec' = "announce" /\ attempt' = 0 /\ running' \in BOOLEAN /\ cooled' \in BOOLEAN
  BY DEF FrankaStateCallback, RosoutCallback, PollOneLogFile, CooldownOver, RequestRecovery,
         lockVars, WatchdogInv, WatchdogTypeOK
<1>3. rec' \in Steps /\ attempt' \in 0..Retries
  BY <1>2, RetriesType DEF WatchdogInv, WatchdogTypeOK, Steps, threadVars
<1> QED BY <1>1, <1>2, <1>3
        DEF WatchdogInv, WatchdogTypeOK, threadVars, serverVars, topicVars

\* The recovery thread respects the limits of its attempts and of the queues.
LEMMA WatchdogThread ==
  ASSUME WatchdogInv, RecoveryThread
  PROVE  WatchdogInv'
<1> USE RetriesType, MaxRequestsType, MaxGoalsType, MaxInboxType
    DEF WatchdogInv, WatchdogTypeOK, Steps, lockVars, threadVars, serverVars, reportVars, topicVars
<1>1. ASSUME NEW value \in BOOLEAN, PublishRecovering(value)
      PROVE  /\ recovering' \in BOOLEAN /\ inbox' \in Seq(BOOLEAN)
             /\ Len(inbox') <= MaxInbox
  BY <1>1, LastAppended DEF PublishRecovering
<1>2. ASSUME NEW request \in {"stop", "start"}, NEW next, SwitchControllers(request, next)
      PROVE  /\ requests' \in Seq({"stop", "start"}) /\ Len(requests') <= MaxRequests
             /\ rec' = next /\ attempt' = attempt
  BY <1>2, LastAppended DEF SwitchControllers, GoTo
<1>3. CASE Announce
  BY <1>1, <1>3 DEF Announce, GoTo
<1>4. CASE DeactivateForRecovery
  BY <1>2, <1>4 DEF DeactivateForRecovery
<1>5. CASE DeactivateFails
  BY <1>5 DEF DeactivateFails, GoTo
<1>6. CASE SendGoal
  BY <1>6 DEF SendGoal, GoTo
<1>7. CASE ClearFails
  BY <1>7 DEF ClearFails
<1>8. CASE Restart
  BY <1>2, <1>8 DEF Restart
<1>9. CASE RestartFails
  BY <1>9 DEF RestartFails, GoTo
<1>10. CASE WaitForActive
  BY <1>10 DEF WaitForActive, GoTo
<1>11. CASE Finish
  BY <1>1, <1>11 DEF Finish, GoTo
<1>12. CASE Release
  BY <1>12 DEF Release, GoTo
<1> QED BY <1>3, <1>4, <1>5, <1>6, <1>7, <1>8, <1>9, <1>10, <1>11, <1>12 DEF RecoveryThread

\* The servers take what is queued; the robot and other clients leave the
\* thread alone.
LEMMA WatchdogServers ==
  ASSUME WatchdogInv, RecoverRobot \/ ServeSwitch \/ Reflex \/ OtherSwitch
  PROVE  WatchdogInv'
<1> USE RetriesType, MaxRequestsType, MaxGoalsType, MaxInboxType
    DEF WatchdogInv, WatchdogTypeOK, Steps,
        lockVars, threadVars, serverVars, reportVars, topicVars
<1>1. CASE RecoverRobot
  BY <1>1 DEF RecoverRobot, GoTo
<1>2. CASE ServeSwitch
  <2>1. requests' \in Seq({"stop", "start"}) /\ Len(requests') <= MaxRequests
    BY <1>2, LastOfTail, LenProperties DEF ServeSwitch
  <2>2. active' \in BOOLEAN
    BY <1>2 DEF ServeSwitch, SwitchEffect
  <2> QED BY <1>2, <2>1, <2>2 DEF ServeSwitch, GoTo
<1>3. CASE Reflex
  <2>1. active \in BOOLEAN /\ streaming \in BOOLEAN
    OBVIOUS
  <2>2. active' \in BOOLEAN /\ streaming' \in BOOLEAN
    BY <1>3, <2>1, Zenon DEF Reflex
  <2>3. report' \in {"none", "unread", "dropped"} /\ robot' \in {"ok", "reflex"}
    BY <1>3, Zenon DEF Reflex
  <2>4. UNCHANGED <<running, cooled, rec, attempt, goals, requests, recovering, inbox>>
    BY <1>3 DEF Reflex
  <2> QED BY <2>2, <2>3, <2>4
<1>4. CASE OtherSwitch
  <2>1. streaming \in BOOLEAN
    OBVIOUS
  <2>2. active' \in BOOLEAN /\ streaming' \in BOOLEAN
    BY <1>4, <2>1, Zenon DEF OtherSwitch
  <2>3. UNCHANGED <<robot, report, running, cooled, rec, attempt, goals, requests, recovering, inbox>>
    BY <1>4 DEF OtherSwitch
  <2> QED BY <2>2, <2>3
<1> QED BY <1>1, <1>2, <1>3, <1>4

-----------------------------------------------------------------------------
(* The teleoperation.                                                       *)

\* The types of the teleoperation, one variable at a time.
TeleopTypes ==
  /\ havePose \in BOOLEAN /\ inError \in BOOLEAN /\ recoveryActive \in BOOLEAN
  /\ hold \in BOOLEAN /\ synced \in BOOLEAN /\ enabled \in BOOLEAN /\ anchored \in BOOLEAN
  /\ target \in {"zeros", "pose", "steps"}
  /\ sent \in {"nothing", "rest", "step"}

\* It is armed only with a pose of the robot and when no error and no recovery
\* is known; increments are in the target only while it is armed, and a target
\* that is synchronised is a pose.
DisarmInv ==
  /\ enabled = anchored
  /\ enabled => /\ havePose /\ ~synced /\ target # "zeros"
                /\ ~inError /\ ~recoveryActive
  /\ target = "steps" => enabled
  /\ synced => target = "pose"
  /\ sent = "rest" => target = "pose"
  /\ sent = "step" => ~recoveryActive

TeleopInv == TeleopTypes /\ DisarmInv

\* The constructor: the target is zeros, and nothing was sent.
LEMMA TeleopStarts == T!TeleopInit => TeleopInv
BY DEF T!TeleopInit, TeleopInv, TeleopTypes, DisarmInv

\* set_idle_target leaves nothing of the last grip in the target, and with a
\* pose of the robot the target is one.
LEMMA IdleTarget ==
  ASSUME TeleopInv, NEW force \in BOOLEAN, T!SetIdleTarget(force)
  PROVE  /\ enabled' = FALSE /\ anchored' = FALSE
         /\ synced' \in BOOLEAN /\ target' \in {"zeros", "pose"}
         /\ synced' => target' = "pose"
         /\ havePose => target' = "pose"
BY DEF T!SetIdleTarget, TeleopInv, TeleopTypes, DisarmInv

\* The subscriptions: an error or a recovery that becomes known disarms.
LEMMA TeleopSubscriptions ==
  ASSUME TeleopInv, inbox \in Seq(BOOLEAN),
         \/ T!CurrentPoseCallback \/ T!FrankaStateCallback
         \/ T!HoldOver \/ T!RecoveryStatusCallback
  PROVE  TeleopInv'
<1> USE DEF TeleopInv, TeleopTypes, DisarmInv, T!targetVars
<1>1. CASE T!CurrentPoseCallback
  BY <1>1 DEF T!CurrentPoseCallback
<1>2. CASE T!FrankaStateCallback
  <2>1. inError' \in BOOLEAN /\ sent' = "nothing" /\ UNCHANGED <<havePose, recoveryActive, hold>>
    BY <1>2 DEF T!FrankaStateCallback
  <2>2. CASE inError' \/ inError
    <3>1. T!SetIdleTarget(inError' # inError)
      BY <1>2, <2>2 DEF T!FrankaStateCallback
    <3> QED BY <2>1, <3>1, IdleTarget
  <2>3. CASE ~inError' /\ ~inError
    <3>1. UNCHANGED <<synced, enabled, anchored, target>>
      BY <1>2, <2>3 DEF T!FrankaStateCallback
    <3> QED BY <2>1, <2>3, <3>1
  <2> QED BY <2>1, <2>2, <2>3
<1>3. CASE T!HoldOver
  BY <1>3 DEF T!HoldOver
<1>4. CASE T!RecoveryStatusCallback
  <2>1. /\ recoveryActive' \in BOOLEAN /\ hold' \in BOOLEAN /\ sent' = "nothing"
        /\ recoveryActive' = Head(inbox) /\ UNCHANGED <<havePose, inError>>
    BY <1>4, LastOfTail DEF T!RecoveryStatusCallback
  <2>2. CASE recoveryActive' \/ recoveryActive
    <3>1. T!SetIdleTarget(Head(inbox) # recoveryActive)
      BY <1>4, <2>1, <2>2 DEF T!RecoveryStatusCallback
    <3> QED BY <2>1, <3>1, IdleTarget
  <2>3. CASE ~recoveryActive' /\ ~recoveryActive
    <3>1. UNCHANGED <<synced, enabled, anchored, target>>
      BY <1>4, <2>1, <2>3 DEF T!RecoveryStatusCallback
    <3> QED BY <2>1, <2>3, <3>1
  <2> QED BY <2>1, <2>2, <2>3
<1> QED BY <1>1, <1>2, <1>3, <1>4

\* The timer: what it sends at rest is a pose, and it sends an increment only
\* when it is not paused.
LEMMA TeleopTimer ==
  ASSUME TeleopInv, T!MissingQuest \/ T!WithPose
  PROVE  TeleopInv'
<1> USE DEF TeleopInv, TeleopTypes, DisarmInv, T!flagVars, T!Publish, T!Paused
<1>1. CASE T!MissingQuest
  <2>1. T!SetIdleTarget(FALSE)
    BY <1>1 DEF T!MissingQuest
  <2> QED BY <1>1, <2>1, IdleTarget DEF T!MissingQuest
<1>2. CASE T!PausedCycle
  <2>1. T!SetIdleTarget(FALSE)
    BY <1>2 DEF T!PausedCycle
  <2> QED BY <1>2, <2>1, IdleTarget DEF T!PausedCycle
<1>3. CASE T!WaitingRobotPose
  BY <1>3 DEF T!WaitingRobotPose
<1>4. CASE T!IdleCycle
  <2>1. T!SetIdleTarget(FALSE)
    BY <1>4 DEF T!IdleCycle
  <2> QED BY <1>4, <2>1, IdleTarget DEF T!IdleCycle
<1>5. CASE T!CaptureAnchor
  BY <1>5 DEF T!CaptureAnchor
<1>6. CASE T!Increment
  BY <1>6 DEF T!Increment
<1> QED BY <1>1, <1>2, <1>3, <1>4, <1>5, <1>6 DEF T!WithPose

-----------------------------------------------------------------------------
(* Where the two meet: the recovering topic.                                *)

\* What the teleoperation knows of the recovery is what the watchdog last
\* announced, as far as it was delivered; and a controller that is restarted
\* is restarted after every request before it was served.
TopicInv ==
  /\ inbox = <<>> => recovering = recoveryActive
  /\ inbox # <<>> => inbox[Len(inbox)] = recovering
  /\ rec \in {"waiting", "succeeded"} => requests = <<>>

\* The watchdog's announcements go to the end of the queue; requests are only
\* made before the restart is waited for.
LEMMA TopicWatchdog ==
  ASSUME WatchdogInv, TopicInv, WatchdogNext, recoveryActive' = recoveryActive
  PROVE  TopicInv'
<1> USE DEF TopicInv, lockVars, threadVars, serverVars, reportVars, topicVars
<1>1. ASSUME NEW value \in BOOLEAN, PublishRecovering(value)
      PROVE  recovering' = value /\ inbox' # <<>> /\ inbox'[Len(inbox')] = recovering'
  BY <1>1, LastAppended DEF PublishRecovering, WatchdogInv, WatchdogTypeOK
<1>2. CASE FrankaStateCallback \/ RosoutCallback \/ PollOneLogFile \/ CooldownOver
  <2>1. UNCHANGED serverVars /\ UNCHANGED topicVars
    BY <1>2 DEF FrankaStateCallback, RosoutCallback, PollOneLogFile, CooldownOver
  <2>2. rec' = rec \/ rec' = "announce"
    BY <1>2 DEF FrankaStateCallback, RosoutCallback, PollOneLogFile, CooldownOver,
       RequestRecovery
  <2> QED BY <2>1, <2>2
<1>3. CASE Announce \/ Finish
  <2>1. rec' \in {"deactivate", "release"} /\ UNCHANGED requests
    BY <1>3 DEF Announce, Finish, GoTo
  <2>2. inbox' # <<>> /\ inbox'[Len(inbox')] = recovering'
    BY <1>1, <1>3 DEF Announce, Finish
  <2> QED BY <2>1, <2>2
<1>4. CASE DeactivateForRecovery \/ DeactivateFails \/ SendGoal \/ ClearFails \/ Restart
             \/ RestartFails \/ WaitForActive \/ Release
  <2>1. UNCHANGED topicVars
    BY <1>4 DEF DeactivateForRecovery, DeactivateFails, SendGoal, ClearFails, Restart,
       RestartFails, WaitForActive, Release
  <2>2. \/ rec' \notin {"waiting", "succeeded"}
        \/ rec = "waiting" /\ requests' = requests
    BY <1>4 DEF DeactivateForRecovery, DeactivateFails, SendGoal, ClearFails, Restart,
       RestartFails, WaitForActive, Release, GoTo, SwitchControllers
  <2> QED BY <2>1, <2>2
<1>5. CASE RecoverRobot \/ Reflex \/ OtherSwitch
  <2>1. UNCHANGED topicVars /\ UNCHANGED requests /\ (rec' = rec \/ rec' = "restart")
    BY <1>5 DEF RecoverRobot, Reflex, OtherSwitch, GoTo
  <2> QED BY <2>1
<1>6. CASE ServeSwitch
  <2>1. UNCHANGED topicVars /\ requests # <<>> /\ rec \notin {"waiting", "succeeded"}
    BY <1>6 DEF ServeSwitch
  <2>2. ASSUME rec' \in {"waiting", "succeeded"} PROVE requests' = <<>>
    <3>1. Len(requests) = 1 /\ requests' = Tail(requests)
      BY <1>6, <2>1, <2>2 DEF ServeSwitch
    <3>2. requests' \in Seq({"stop", "start"}) /\ Len(requests') = 0
      BY <2>1, <3>1, LastOfTail DEF WatchdogInv, WatchdogTypeOK
    <3> QED BY <3>2, EmptySeq
  <2> QED BY <2>1, <2>2
<1> QED BY <1>2, <1>3, <1>4, <1>5, <1>6 DEF WatchdogNext, RecoveryThread

\* The teleoperation takes the announcements in the order they were made.
LEMMA TopicTeleop ==
  ASSUME WatchdogInv, TopicInv, T!TeleopNext, UNCHANGED watchdogOnly
  PROVE  TopicInv' /\ WatchdogInv'
<1> USE DEF TopicInv, watchdogOnly, WatchdogInv, WatchdogTypeOK
<1>1. CASE T!RecoveryStatusCallback
  <2>1. inbox # <<>> /\ inbox' = Tail(inbox) /\ recoveryActive' = Head(inbox)
    BY <1>1 DEF T!RecoveryStatusCallback
  <2>2. /\ Tail(inbox) = <<>> => Head(inbox) = inbox[Len(inbox)]
        /\ Tail(inbox) # <<>> => Tail(inbox)[Len(Tail(inbox))] = inbox[Len(inbox)]
        /\ Tail(inbox) \in Seq(BOOLEAN) /\ Len(Tail(inbox)) = Len(inbox) - 1
    BY <2>1, LastOfTail
  <2>3. TopicInv'
    BY <2>1, <2>2
  <2>4. inbox' \in Seq(BOOLEAN) /\ Len(inbox') <= MaxInbox
    BY <2>1, <2>2, LenProperties, MaxInboxType
  <2> QED BY <2>3, <2>4
<1>2. CASE UNCHANGED inbox /\ ~T!RecoveryStatusCallback
  <2>1. recoveryActive' = recoveryActive
    BY <1>2 DEF T!TeleopNext, T!CurrentPoseCallback, T!FrankaStateCallback, T!HoldOver,
       T!TimerCallback, T!MissingQuest, T!WithPose, T!PausedCycle, T!WaitingRobotPose,
       T!IdleCycle, T!CaptureAnchor, T!Increment, T!flagVars
  <2> QED BY <1>2, <2>1
<1> QED BY <1>1, <1>2 DEF T!TeleopNext

-----------------------------------------------------------------------------
(* The age of the hand's motion.                                            *)

\* A clock stops at its cap, and one that never started stays so.
LEMMA OlderAge ==
  /\ \A age \in Ages \cup {Never} : Older(age) \in Ages \cup {Never}
  /\ \A age \in Ages : /\ Older(age) \in Ages /\ Older(age) # Never
                       /\ age <= Older(age) /\ Older(age) <= age + 1
                       /\ age < Cap => Older(age) = age + 1
  /\ Older(Never) = Never /\ Older(Cap) = Cap
BY TimeoutsAssumption DEF Older, Ages, Never, Cap

\* While the hand is followed its pose is younger than the grace period.  With
\* a reader that age is the silence of the Quest; a topic may have been silent
\* longer, by its own time-out.
GapInv ==
  /\ part = "quest" /\ anchored => poseAge \in 0..Grace
  /\ input = "reader" => gap = poseAge
  /\ input = "topic" =>
       /\ topicAge = gap
       /\ poseAge # Never => gap # Never /\ gap <= poseAge + TopicTimeout

QuestInv == QuestTypeOK /\ GapInv

\* Nothing was received yet.
LEMMA QuestStarts == QuestInit /\ T!TeleopInit => QuestInv
BY TimeoutsAssumption DEF QuestInit, QuestInv, QuestTypeOK, GapInv, Ages, Never, Cap,
   T!TeleopInit

\* A cycle of the timer: with a pose its age is within the grace period, and
\* the silence grows no faster than the age of the pose.
LEMMA QuestCycles ==
  ASSUME QuestInv, NEW usable \in BOOLEAN, QuestCycle(usable)
  PROVE  /\ QuestTypeOK'
         /\ usable => poseAge' \in 0..Grace
         /\ input' = input
         /\ input = "reader" => gap' = poseAge'
         /\ input = "topic" =>
              /\ topicAge' = gap'
              /\ poseAge' # Never => gap' # Never /\ gap' <= poseAge' + TopicTimeout
<1> USE TimeoutsAssumption
<1>1. PICK raw \in ReadRawQuestData :
        /\ usable = (raw \/ CachedPose)
        /\ poseAge' = IF raw THEN 0 ELSE Older(poseAge)
        /\ gap' = IF raw /\ input = "reader" THEN 0 ELSE Older(gap)
  BY DEF QuestCycle
<1>2. topicAge' = Older(topicAge) /\ input' = input
  BY DEF QuestCycle
<1>3. 0 \in Ages /\ Cap \in Ages /\ Ages \subseteq Int /\ Never \in Int /\ Never \notin Ages
  BY DEF Ages, Cap, Never
<1>4. /\ input \in {"reader", "topic"} /\ reader \in {"alive", "dead"}
      /\ startAge \in Ages /\ restartAge \in Ages /\ topicAge \in Ages \cup {Never}
      /\ poseAge \in Ages \cup {Never} /\ gap \in Ages \cup {Never}
  BY DEF QuestInv, QuestTypeOK
<1>5. /\ startAge' \in Ages /\ restartAge' \in Ages /\ reader' \in {"alive", "dead"}
  <2>1. Older(startAge) \in Ages /\ Older(restartAge) \in Ages
    BY <1>4, OlderAge
  <2> QED BY <1>3, <1>4, <2>1 DEF QuestCycle, RestartReaderIfStale
<1>6. /\ topicAge' \in Ages \cup {Never} /\ poseAge' \in Ages \cup {Never}
      /\ gap' \in Ages \cup {Never}
  <2>1. /\ Older(topicAge) \in Ages \cup {Never} /\ Older(poseAge) \in Ages \cup {Never}
        /\ Older(gap) \in Ages \cup {Never}
    BY <1>4, OlderAge
  <2> QED BY <1>1, <1>2, <1>3, <2>1
<1>7. QuestTypeOK'
  BY <1>2, <1>4, <1>5, <1>6 DEF QuestTypeOK
<1>8. ASSUME usable PROVE poseAge' \in 0..Grace
  <2>1. CASE raw
    BY <1>1, <2>1
  <2>2. CASE ~raw
    <3>1. CachedPose /\ poseAge' = Older(poseAge)
      BY <1>1, <1>8, <2>2
    <3>2. poseAge \in Ages
      BY <1>4, <3>1 DEF CachedPose
    <3>3. Older(poseAge) \in Ages
      BY <3>2, OlderAge
    <3> QED BY <3>1, <3>3 DEF CachedPose, Ages
  <2> QED BY <2>1, <2>2
<1>9. ASSUME input = "reader" PROVE gap' = poseAge'
  BY <1>1, <1>9 DEF QuestInv, GapInv
<1>10. ASSUME input = "topic", poseAge' # Never
       PROVE  gap' # Never /\ gap' <= poseAge' + TopicTimeout
  <2>1. gap' = Older(gap) /\ topicAge = gap
    BY <1>1, <1>10 DEF QuestInv, GapInv
  <2>2. CASE raw
    <3>1. topicAge # Never /\ Older(topicAge) <= TopicTimeout
      BY <1>1, <1>10, <2>2 DEF ReadRawQuestData
    <3>2. gap \in Ages
      BY <1>4, <2>1, <3>1
    <3>3. Older(gap) # Never
      BY <3>2, OlderAge
    <3> QED BY <1>1, <2>1, <2>2, <3>1, <3>3
  <2>3. CASE ~raw
    <3>1. poseAge' = Older(poseAge)
      BY <1>1, <2>3
    <3>2. poseAge # Never /\ poseAge \in Ages
      BY <1>4, <1>10, <3>1, OlderAge
    <3>3. gap # Never /\ gap \in Ages /\ gap <= poseAge + TopicTimeout
      BY <1>4, <1>10, <3>2 DEF QuestInv, GapInv
    <3>4. Older(gap) # Never /\ Older(gap) <= gap + 1 /\ Older(gap) \in Ages
      BY <3>3, OlderAge
    <3>5. CASE poseAge = Cap
      <4>1. Older(poseAge) = Cap
        BY <3>5, OlderAge
      <4> QED BY <2>1, <3>1, <3>4, <4>1 DEF Ages, Cap
    <3>6. CASE poseAge # Cap
      <4>1. Older(poseAge) = poseAge + 1
        BY <3>2, <3>6, OlderAge DEF Ages, Cap
      <4> QED BY <2>1, <3>1, <3>2, <3>3, <3>4, <4>1 DEF Ages
    <3> QED BY <3>5, <3>6
  <2> QED BY <2>2, <2>3
<1>11. input = "topic" => topicAge' = gap'
  BY <1>1, <1>2 DEF QuestInv, GapInv
<1> QED BY <1>2, <1>7, <1>8, <1>9, <1>10, <1>11

-----------------------------------------------------------------------------
(* The whole.                                                               *)

\* The inductive invariant: what each part keeps, and what the messages in
\* between stand for.
IInv == WatchdogInv /\ TeleopInv /\ TopicInv /\ QuestInv

\* All of it holds when the two nodes start.
LEMMA AllStart == Init => IInv
<1> SUFFICES ASSUME Init PROVE IInv
  OBVIOUS
<1>1. WatchdogInv /\ TeleopInv /\ QuestInv
  BY WatchdogStarts, TeleopStarts, QuestStarts DEF Init
<1>2. TopicInv
  BY DEF Init, WatchdogInit, T!TeleopInit, TopicInv
<1> QED BY <1>1, <1>2 DEF IInv

\* A step of the watchdog, of the teleoperation, or of its input.
LEMMA AllNext == IInv /\ [Next]_vars => IInv'
<1> SUFFICES ASSUME IInv, [Next]_vars PROVE IInv'
  OBVIOUS
<1> USE DEF IInv
<1>1. CASE Watchdog
  <2>1. WatchdogNext /\ UNCHANGED teleopOnly /\ UNCHANGED questVars /\ part' = part
    BY <1>1 DEF Watchdog, WatchdogStep
  <2>2. WatchdogInv'
    BY <2>1, WatchdogTriggers, WatchdogThread, WatchdogServers DEF WatchdogNext
  <2>3. TopicInv'
    BY <2>1, TopicWatchdog DEF teleopOnly
  <2>4. TeleopInv' /\ QuestInv'
    BY <2>1 DEF teleopOnly, questVars, TeleopInv, TeleopTypes, DisarmInv, QuestInv,
       QuestTypeOK, GapInv
  <2> QED BY <2>2, <2>3, <2>4
<1>2. CASE Teleop
  <2>1. T!TeleopNext /\ UNCHANGED watchdogOnly /\ UNCHANGED questVars
        /\ part # "quest" /\ part' = part
    BY <1>2 DEF Teleop, TeleopStep, T!TeleopNext
  <2>2. WatchdogInv' /\ TopicInv'
    BY <2>1, TopicTeleop
  <2>3. inbox \in Seq(BOOLEAN)
    BY DEF WatchdogInv, WatchdogTypeOK
  <2>4. TeleopInv'
    BY <2>1, <2>3, TeleopSubscriptions, TeleopTimer DEF T!TeleopNext, T!TimerCallback
  <2>5. QuestInv'
    BY <2>1 DEF questVars, QuestInv, QuestTypeOK, GapInv
  <2> QED BY <2>2, <2>4, <2>5
<1>3. CASE Quest
  <2>1. part' = part /\ UNCHANGED watchdogOnly /\ inbox' = inbox
    BY <1>3 DEF Quest, QuestStep
  <2>2. WatchdogInv' /\ inbox \in Seq(BOOLEAN)
    BY <2>1 DEF watchdogOnly, WatchdogInv, WatchdogTypeOK
  <2>3. CASE Timer
    <3>1. ASSUME QuestCycle(TRUE), T!WithPose PROVE QuestInv' /\ TeleopInv'
      BY <2>1, <3>1, QuestCycles, TeleopTimer DEF QuestInv, GapInv
    <3>2. ASSUME QuestCycle(FALSE), T!MissingQuest PROVE QuestInv' /\ TeleopInv'
      <4>1. anchored' = FALSE
        BY <3>2 DEF T!MissingQuest, T!SetIdleTarget
      <4> QED BY <2>1, <3>2, <4>1, QuestCycles, TeleopTimer DEF QuestInv, GapInv
    <3>3. recoveryActive' = recoveryActive
      BY <2>3 DEF Timer, T!MissingQuest, T!WithPose, T!PausedCycle, T!WaitingRobotPose,
         T!IdleCycle, T!CaptureAnchor, T!Increment, T!flagVars
    <3>4. TopicInv'
      BY <2>1, <3>3 DEF watchdogOnly, TopicInv
    <3> QED BY <2>2, <2>3, <3>1, <3>2, <3>4 DEF Timer
  <2>4. CASE T!CurrentPoseCallback /\ UNCHANGED questVars
    <3>1. recoveryActive' = recoveryActive /\ anchored' = anchored
      BY <2>4 DEF T!CurrentPoseCallback, T!targetVars
    <3>2. TopicInv'
      BY <2>1, <3>1 DEF watchdogOnly, TopicInv
    <3>3. QuestInv'
      BY <2>1, <2>4, <3>1 DEF questVars, QuestInv, QuestTypeOK, GapInv
    <3> QED BY <2>2, <2>4, <3>2, <3>3, TeleopSubscriptions
  <2>5. CASE (ControllerPoseCallback \/ ReaderDies) /\ UNCHANGED teleopOnly
    <3>1. TeleopInv' /\ TopicInv'
      BY <2>1, <2>5 DEF teleopOnly, watchdogOnly, TeleopInv, TeleopTypes, DisarmInv, TopicInv
    <3>2. 0 \in Ages /\ Never \notin Ages
      BY TimeoutsAssumption DEF Ages, Never, Cap
    <3>3. QuestTypeOK'
      BY <2>5, <3>2 DEF ControllerPoseCallback, ReaderDies, QuestInv, QuestTypeOK
    <3>4. CASE ControllerPoseCallback
      <4>1. poseAge' = poseAge /\ input' = "topic" /\ topicAge' = 0 /\ gap' = 0
        BY <3>4 DEF ControllerPoseCallback
      <4>2. poseAge' # Never => 0 # Never /\ 0 <= poseAge' + TopicTimeout
        BY <4>1, <3>3, TimeoutsAssumption DEF QuestTypeOK, Ages, Never, Cap
      <4> QED BY <2>1, <2>5, <3>1, <3>3, <4>1, <4>2, <2>2
              DEF teleopOnly, QuestInv, GapInv
    <3>5. CASE ReaderDies
      BY <2>1, <2>2, <2>5, <3>1, <3>3, <3>5 DEF ReaderDies, teleopOnly, QuestInv, GapInv
    <3> QED BY <2>5, <3>4, <3>5
  <2> QED BY <1>3, <2>3, <2>4, <2>5 DEF Quest
<1>4. CASE UNCHANGED vars
  BY <1>4 DEF vars, watchdogOnly, teleopOnly, questVars, WatchdogInv, WatchdogTypeOK,
     TeleopInv, TeleopTypes, DisarmInv, TopicInv, QuestInv, QuestTypeOK, GapInv
<1> QED BY <1>1, <1>2, <1>3, <1>4 DEF Next

\* The invariant in every reachable state.
LEMMA Always == Spec => []IInv
BY AllStart, AllNext, PTL DEF Spec

\* Every variable keeps its type, and the attempts and queues their limits,
\* whatever recovery_retry_count and the time-outs are.
THEOREM TypeCorrect == Spec => []TypeOK
<1>1. IInv => TypeOK
  BY DEF IInv, WatchdogInv, TeleopInv, TeleopTypes, QuestInv, TypeOK, T!TeleopTypeOK
<1> QED BY <1>1, Always, PTL

\* Once the announcement of a recovery was received, no increment is sent until
\* its end was: for any number of announcements on their way.
THEOREM PausedUnderRecovery == Spec => []NoStepUnderRecovery
<1>1. IInv => NoStepUnderRecovery
  <2> SUFFICES ASSUME IInv, sent = "step", recovering
               PROVE  \E i \in DOMAIN inbox : inbox[i] = TRUE
    BY DEF NoStepUnderRecovery
  <2>1. inbox # <<>> /\ inbox \in Seq(BOOLEAN)
    BY DEF IInv, TeleopInv, DisarmInv, TopicInv, WatchdogInv, WatchdogTypeOK
  <2>2. Len(inbox) \in DOMAIN inbox
    BY <2>1, EmptySeq, LenProperties
  <2>3. inbox[Len(inbox)] = TRUE
    BY <2>1 DEF IInv, TopicInv, WatchdogInv, WatchdogTypeOK
  <2> QED BY <2>2, <2>3
<1> QED BY <1>1, Always, PTL

\* While an error or a recovery is known the teleoperation is disarmed, with
\* nothing of the last grip in the target; at rest it sends a measured pose.
THEOREM DisarmedInError == Spec => []Disarmed
<1>1. IInv => Disarmed
  BY DEF IInv, TeleopInv, TeleopTypes, DisarmInv, Disarmed
<1> QED BY <1>1, Always, PTL

\* When a recovery reports success, every switch it asked for was served.
THEOREM RestartLast == Spec => []RestartIsLast
<1>1. IInv => RestartIsLast
  BY DEF IInv, TopicInv, RestartIsLast
<1> QED BY <1>1, Always, PTL

\* No increment spans a longer silence of the Quest than the time-outs allow,
\* whatever they are set to.
THEOREM SilenceBounded == Spec => []GapBounded
<1>1. IInv => GapBounded
  <2> SUFFICES ASSUME IInv, part = "quest", anchored
               PROVE  gap \in 0 .. Grace + (IF input = "topic" THEN TopicTimeout ELSE 0)
    BY DEF GapBounded
  <2>1. poseAge \in 0..Grace /\ poseAge # Never
    BY TimeoutsAssumption DEF IInv, QuestInv, GapInv, Never
  <2>2. input \in {"reader", "topic"} /\ gap \in Ages \cup {Never}
    BY DEF IInv, QuestInv, QuestTypeOK
  <2>3. CASE input = "reader"
    BY <2>1, <2>3, TimeoutsAssumption DEF IInv, QuestInv, GapInv
  <2>4. CASE input = "topic"
    BY <2>1, <2>2, <2>4, TimeoutsAssumption DEF IInv, QuestInv, GapInv, Ages, Cap, Never
  <2> QED BY <2>2, <2>3, <2>4
<1> QED BY <1>1, Always, PTL
=============================================================================
