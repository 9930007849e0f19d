----------------------------- MODULE QuestInput -----------------------------
(***************************************************************************)
(* SimpleQuestImpedanceTeleopNode: where a timer cycle gets the pose of    *)
(* the controller from.  It is read from an OculusReader, which is         *)
(* replaced when it gives no pose for too long, or received on a topic.  A *)
(* cycle without a pose uses the last one within a grace period.           *)
(*                                                                         *)
(* Times are ages in timer cycles, capped at Cap; a cycle takes one.       *)
(* External: the reader, which gives a pose or none, and may die.          *)
(***************************************************************************)
EXTENDS Integers

CONSTANTS
  Grace,         \* quest_pose_grace_period
  TopicTimeout,  \* topic_pose_timeout
  RestartTimeout \* reader_restart_timeout

ASSUME TimeoutsAssumption ==
  /\ Grace \in Nat /\ TopicTimeout \in Nat
  /\ RestartTimeout \in Nat \ {0}

VARIABLES
  input,      \* input_mode
  reader,     \* does the thread of the reader live? (external)
  startAge,   \* since reader_start_time
  restartAge, \* since last_reader_restart_time
  topicAge,   \* since last_topic_pose_time, or Never
  poseAge,    \* since last_quest_pose_time, or Never
  gap         \* since the Quest gave a pose to the node, or Never (history)

questVars == <<input, reader, startAge, restartAge, topicAge, poseAge, gap>>

Cap == RestartTimeout + TopicTimeout + Grace + 1
Never == -1
Ages == 0..Cap

Older(age) == IF age \in {Never, Cap} THEN age ELSE age + 1

QuestInit ==
  /\ input \in {"reader", "topic"}
  /\ reader \in IF input = "reader" THEN {"alive", "dead"} ELSE {"dead"}
  /\ startAge = 0 /\ restartAge = Cap
  /\ topicAge = Never /\ poseAge = Never /\ gap = Never

ControllerPoseCallback ==
  /\ input = "topic"
  /\ topicAge' = 0 /\ gap' = 0
  /\ UNCHANGED <<input, reader, startAge, restartAge, poseAge>>

ReaderDies ==
  /\ input = "reader" /\ reader = "alive"
  /\ reader' = "dead"
  /\ UNCHANGED <<input, startAge, restartAge, topicAge, poseAge, gap>>

\* Is there a pose to read?  A topic goes on to have one until it is too old.
ReadRawQuestData ==
  IF input = "reader" THEN (IF reader = "alive" THEN BOOLEAN ELSE {FALSE})
  ELSE {topicAge # Never /\ Older(topicAge) <= TopicTimeout}

\* Mutant of CachedPose: the last pose does for ever.
CachedPoseForever == poseAge # Never

CachedPose == poseAge # Never /\ Older(poseAge) <= Grace

Stale ==
  (IF poseAge = Never THEN Older(startAge) ELSE Older(poseAge)) >= RestartTimeout

\* A new reader is created before the old one is stopped.  When that fails the
\* old one stays until the next attempt.
RestartReaderIfStale ==
  IF input = "reader" /\ Stale /\ Older(restartAge) >= RestartTimeout
    THEN /\ restartAge' = 0
         /\ startAge' = 0
         /\ reader' \in {"alive", reader}
    ELSE /\ restartAge' = Older(restartAge) /\ startAge' = Older(startAge)
         /\ UNCHANGED reader

\* The start of timer_callback.  usable: it found a pose, new or cached.
QuestCycle(usable) ==
  /\ topicAge' = Older(topicAge)
  /\ \E raw \in ReadRawQuestData :
       /\ usable = (raw \/ CachedPose)
       /\ poseAge' = IF raw THEN 0 ELSE Older(poseAge)
       /\ gap' = IF raw /\ input = "reader" THEN 0 ELSE Older(gap)
  /\ IF usable
       THEN /\ restartAge' = Older(restartAge) /\ startAge' = Older(startAge)
            /\ UNCHANGED reader
       ELSE RestartReaderIfStale
  /\ UNCHANGED input

QuestTypeOK ==
  /\ input \in {"reader", "topic"} /\ reader \in {"alive", "dead"}
  /\ {startAge, restartAge} \subseteq Ages
  /\ {topicAge, poseAge, gap} \subseteq Ages \cup {Never}
=============================================================================
