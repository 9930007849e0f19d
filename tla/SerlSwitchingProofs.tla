------------------------ MODULE SerlSwitchingProofs ------------------------
(***************************************************************************)
(* Proofs about the HTTP bridge of the serl controllers: what each thread  *)
(* may be doing, which arm controllers requests leave active that do not   *)
(* overlap, and that a PTP reset brings impedance back.                    *)
(***************************************************************************)
EXTENDS SerlSwitching, FiniteSetTheorems, TLAPS

-----------------------------------------------------------------------------
(* The controller manager.                                                  *)

\* The states of the controllers have their types.
CtrlType == ctrl \in [Controllers -> States]

\* A controller that was configured once stays so.
Configured == {c \in Controllers : ctrl[c] \in {"inactive", "active"}}

\* A response leaves every controller in a state; one that was configured
\* stays so; loading and configuring activate nothing and stop nothing.
LEMMA EffectFacts ==
  ASSUME CtrlType, NEW r, Served(r), ctrl' = Effect(r)
  PROVE  /\ CtrlType'
         /\ Configured \subseteq Configured'
         /\ r.kind \in {"load", "configure"} => Active' = Active
<1> USE DEF CtrlType, Controllers, States
<1>1. CASE r.kind = "load"
  BY <1>1 DEF Served, Effect, Configured, Active
<1>2. CASE r.kind = "configure"
  BY <1>2 DEF Served, Effect, Configured, Active
<1>3. CASE r.kind \notin {"load", "configure"}
  <2>1. ctrl' = [c \in Controllers |->
                   IF c \in r.activate /\ ctrl[c] = "inactive" THEN "active"
                   ELSE IF c \in r.deactivate /\ ctrl[c] = "active" THEN "inactive"
                   ELSE ctrl[c]]
    BY <1>3 DEF Effect
  <2> QED BY <1>3, <2>1 DEF Configured
<1> QED BY <1>1, <1>2, <1>3

\* A switch: what is active afterwards.
LEMMA SwitchFacts ==
  ASSUME CtrlType, NEW r, r.kind \in {"strict", "effort"}, Served(r), ctrl' = Effect(r)
  PROVE  /\ Active \ r.deactivate \subseteq Active'
         /\ Active' \subseteq (Active \ r.deactivate) \cup r.activate
         /\ (r.activate \ r.deactivate) \cap Configured \subseteq Active'
<1>1. ctrl' = [c \in Controllers |->
                 IF c \in r.activate /\ ctrl[c] = "inactive" THEN "active"
                 ELSE IF c \in r.deactivate /\ ctrl[c] = "active" THEN "inactive"
                 ELSE ctrl[c]]
  BY DEF Effect
<1> QED BY <1>1 DEF Active, Configured, CtrlType

\* What a thread asks for at each of its steps that ask.
LEMMA Requested ==
  ASSUME NEW t
  PROVE  LET j == job[t] IN
         /\ j.at = "load" => Request(t) = LoadRequest(Needed(j.op))
         /\ j.at = "configure" => Request(t) = ConfigureRequest(Needed(j.op))
         /\ j.at = "switch" => Request(t) = SwitchRequest(j.op, j.seen)
         /\ j.at = "back" => Request(t) = BackRequest(j.op, j.seen)
<1>1. job[t].at = "load" => Request(t) = LoadRequest(Needed(job[t].op))
  BY Zenon DEF Request
<1>2. job[t].at = "configure" => Request(t) = ConfigureRequest(Needed(job[t].op))
  BY Zenon DEF Request
<1>3. job[t].at = "switch" => Request(t) = SwitchRequest(job[t].op, job[t].seen)
  BY Zenon DEF Request
<1>4. job[t].at = "back" => Request(t) = BackRequest(job[t].op, job[t].seen)
  BY Zenon DEF Request
<1> QED BY <1>1, <1>2, <1>3, <1>4

\* The switches of the operations that the orderly mode allows.
LEMMA Switches ==
  ASSUME NEW seen
  PROVE  /\ \A op \in {"startimp", "pose_start", "auto"} :
              SwitchRequest(op, seen) = StartRequest(seen)
         /\ SwitchRequest("stopimp", seen) = StopRequest
         /\ SwitchRequest("pose_precise", seen) = PreciseRequest(seen)
         /\ SwitchRequest("reset_ptp", seen) = BeforePTPRequest(seen)
<1>1. ASSUME NEW op \in {"startimp", "pose_start", "auto"}
      PROVE  SwitchRequest(op, seen) = StartRequest(seen)
  BY Zenon DEF SwitchRequest
<1>2. SwitchRequest("stopimp", seen) = StopRequest
  BY Zenon DEF SwitchRequest
<1>3. SwitchRequest("pose_precise", seen) = PreciseRequest(seen)
  BY Zenon DEF SwitchRequest
<1>4. SwitchRequest("reset_ptp", seen) = BeforePTPRequest(seen)
  BY Zenon DEF SwitchRequest
<1> QED BY <1>1, <1>2, <1>3, <1>4

-----------------------------------------------------------------------------
(* What a thread may be doing.                                              *)

\* The steps of each operation.
Places(op) ==
  CASE op = "none"             -> {"idle"}
    [] op = "auto"             -> {"delay", "wait", "list", "load", "configure", "states",
                                   "switch"}
    [] op = "startimp"         -> {"list", "load", "configure", "states", "switch"}
    [] op = "stopimp"          -> {"switch"}
    [] op = "pose"             -> {"snapshot", "publish"}
    [] op = "pose_start"       -> {"list", "load", "configure", "states", "switch", "publish"}
    [] op = "pose_fallback"    -> {"list", "load", "configure", "switch", "settle", "publish"}
    [] op = "pose_precise"     -> {"list", "load", "configure", "states", "switch", "plan",
                                   "execute"}
    [] op = "reset_controller" -> {"list", "load", "configure", "target", "switch", "motion",
                                   "back"}
    [] op = "reset_ptp"        -> {"snapshot", "switch", "validate", "motion", "back"}
    [] op = "reset_gripper"    -> {"stop", "action"}
    [] OTHER                   -> {"action"}

Ops == Requests \cup {"none", "auto", "pose_start", "pose_fallback"}

\* The operation of a thread's job: what was requested, or what move_pose made
\* of it, or none after the answer.
Follows(op) ==
  {op, "none"} \cup (IF op = "pose"
                       THEN {"pose_start"} \cup (IF pose = "fallback" THEN {"pose_fallback"} ELSE {})
                       ELSE {})

\* A job, and the value it takes in a step of its thread.
IsJob(j) ==
  /\ j = [op |-> j.op, at |-> j.at, seen |-> j.seen, failed |-> j.failed]
  /\ j.op \in Ops /\ j.at \in Places(j.op)
  /\ j.seen \in SUBSET Controllers /\ j.failed \in BOOLEAN

JobsInv ==
  /\ job \in [Threads -> Job]
  /\ \A t \in Threads : IsJob(job[t])
  /\ \A t \in Handlers : job[t].op # "auto"
  /\ job[AutoStart].op \in {"none", "auto"}

\* Every step of an operation is one of the steps there are.
LEMMA PlacesType ==
  ASSUME NEW j, IsJob(j)
  PROVE  j \in Job
BY DEF IsJob, Places, Job, Ops, Requests

\* The three ways in which a step changes its thread's job.
LEMMA Assignments ==
  ASSUME JobsInv, NEW t \in Threads, NEW x
  PROVE  LET j == job[t] IN
         /\ Goto(t, x) => job' = [job EXCEPT ![t] =
              [op |-> j.op, at |-> x, seen |-> j.seen, failed |-> j.failed]]
         /\ GotoUnseen(t, x) => job' = [job EXCEPT ![t] =
              [op |-> j.op, at |-> x, seen |-> {}, failed |-> j.failed]]
         /\ Answer(t, x) => job' = [job EXCEPT ![t] =
              [op |-> "none", at |-> "idle", seen |-> {}, failed |-> x]]
<1> DEFINE j == job[t]
<1>1. j = [op |-> j.op, at |-> j.at, seen |-> j.seen, failed |-> j.failed]
  BY DEF JobsInv, IsJob
<1>2. job \in [Threads -> Job]
  BY DEF JobsInv
<1> QED BY <1>1, <1>2 DEF Goto, GotoUnseen, Answer, Answered

\* A step of thread t makes its job j.
Moved(t, j) ==
  /\ job[t].at # "idle"
  /\ job' = [job EXCEPT ![t] = j]
  /\ IsJob(j) /\ j.op \in Follows(job[t].op)
  /\ UNCHANGED <<mode, pose>>

\* What it read before.
Read(t, j) ==
  /\ j.seen \subseteq job[t].seen \cup Active
  /\ j.at = "switch" /\ j.op \notin {"stopimp", "pose_fallback", "reset_controller"} =>
       j.seen = Active /\ ctrl' = ctrl
  /\ j.op = "reset_ptp" /\ j.at \in {"validate", "motion", "back"} =>
       \/ /\ j.seen = Active /\ Active \cap {Imp, Cart, Joint} = {} /\ ctrl' = ctrl
       \/ /\ job[t].op = "reset_ptp" /\ j.seen = job[t].seen
          /\ \/ job[t].at \in {"validate", "motion"} /\ ctrl' = ctrl
             \/ job[t].at = "switch" /\ Served(Request(t)) /\ ctrl' = Effect(Request(t))

\* What it asked the controller manager for, which was done in time, or never
\* asked, or is left to be served late.
Asked(t) ==
  /\ \/ ctrl' = ctrl
     \/ /\ job[t].at \in {"load", "configure", "switch", "back"}
        /\ Served(Request(t)) /\ ctrl' = Effect(Request(t))
  /\ late' = late \/ (mode = "late" /\ late' = late \cup {Request(t)}
                        /\ Cardinality(late') <= MaxLate)

\* Going on with what was read: nothing is asked for on old states but a switch
\* that minds none of them.
LEMMA GotoMoves ==
  ASSUME JobsInv, NEW t \in Threads, NEW x \in Places(job[t].op), Goto(t, x),
         job[t].at # "idle", UNCHANGED <<mode, pose>>,
         x = "switch" => job[t].op \in {"stopimp", "pose_fallback", "reset_controller"},
         job[t].op = "reset_ptp" /\ x \in {"validate", "motion", "back"} =>
           \/ job[t].at = "switch" /\ Served(Request(t)) /\ ctrl' = Effect(Request(t))
           \/ job[t].at \in {"validate", "motion"} /\ ctrl' = ctrl
  PROVE  \E j : Moved(t, j) /\ Read(t, j)
<1> DEFINE j == [op |-> job[t].op, at |-> x, seen |-> job[t].seen, failed |-> job[t].failed]
<1>1. IsJob(job[t])
  BY DEF JobsInv
<1>2. job' = [job EXCEPT ![t] = j]
  BY Assignments
<1>3. IsJob(j) /\ j.op = job[t].op /\ j.at = x /\ j.seen = job[t].seen
  BY <1>1 DEF IsJob
<1> HIDE DEF j
<1>4. Moved(t, j)
  BY <1>2, <1>3 DEF Moved, Follows
<1>5. Read(t, j)
  BY <1>3 DEF Read
<1> QED BY <1>4, <1>5

\* Going on and forgetting what was read.
LEMMA GotoUnseenMoves ==
  ASSUME JobsInv, NEW t \in Threads, NEW x \in Places(job[t].op), GotoUnseen(t, x),
         job[t].at # "idle", UNCHANGED <<mode, pose>>,
         x # "switch", job[t].op # "reset_ptp"
  PROVE  \E j : Moved(t, j) /\ Read(t, j)
<1> DEFINE j == [op |-> job[t].op, at |-> x, seen |-> {}, failed |-> job[t].failed]
<1>1. IsJob(job[t])
  BY DEF JobsInv
<1>2. job' = [job EXCEPT ![t] = j]
  BY Assignments
<1>3. IsJob(j) /\ j.op = job[t].op /\ j.at = x /\ j.seen = {}
  BY <1>1 DEF IsJob
<1> HIDE DEF j
<1>4. Moved(t, j)
  BY <1>2, <1>3 DEF Moved, Follows
<1>5. Read(t, j)
  BY <1>3 DEF Read
<1> QED BY <1>4, <1>5

\* Answering.
LEMMA AnswerMoves ==
  ASSUME JobsInv, NEW t \in Threads, NEW failed \in BOOLEAN, Answer(t, failed),
         job[t].at # "idle", UNCHANGED <<mode, pose>>
  PROVE  \E j : Moved(t, j) /\ Read(t, j)
<1> DEFINE j == [op |-> "none", at |-> "idle", seen |-> {}, failed |-> failed]
<1>1. job' = [job EXCEPT ![t] = j]
  BY Assignments
<1>2. IsJob(j) /\ j.op = "none" /\ j.at = "idle" /\ j.seen = {}
  BY DEF IsJob, Ops, Places
<1> HIDE DEF j
<1>3. Moved(t, j)
  BY <1>1, <1>2 DEF Moved, Follows
<1>4. Read(t, j)
  BY <1>2 DEF Read
<1> QED BY <1>3, <1>4

\* Steps that load and configure.
LEMMA LoadingStep ==
  ASSUME JobsInv, NEW t \in Threads, EnsureControllerLoaded(t) \/ Load(t) \/ Configure(t)
  PROVE  Asked(t) /\ \E j : Moved(t, j) /\ Read(t, j)
<1>0. IsJob(job[t]) /\ UNCHANGED <<mode, pose>>
  BY DEF JobsInv, EnsureControllerLoaded, Load, Configure, Responds
<1>1. CASE EnsureControllerLoaded(t)
  <2>1. PICK at \in {"load", "configure", Loaded(job[t].op)} : Goto(t, at)
    BY <1>1 DEF EnsureControllerLoaded
  <2>2. job[t].at = "list" /\ ctrl' = ctrl /\ late' = late
    BY <1>1 DEF EnsureControllerLoaded
  <2>3. /\ at \in Places(job[t].op) /\ at \notin {"validate", "motion", "back"}
        /\ at = "switch" => job[t].op = "pose_fallback"
    BY <1>0, <2>1, <2>2 DEF IsJob, Places, Ops, Requests, Loaded
  <2> QED BY <1>0, <2>1, <2>2, <2>3, GotoMoves DEF Asked
<1>2. CASE Load(t)
  <2>1. /\ Goto(t, "configure") /\ job[t].at = "load" /\ late' = late
        /\ Served(Request(t)) /\ ctrl' = Effect(Request(t))
    BY <1>2 DEF Load, Responds
  <2>2. "configure" \in Places(job[t].op)
    BY <1>0, <2>1 DEF IsJob, Places, Ops, Requests
  <2> QED BY <1>0, <2>1, <2>2, GotoMoves DEF Asked
<1>3. CASE Configure(t)
  <2>1. /\ Goto(t, Loaded(job[t].op)) /\ job[t].at = "configure" /\ late' = late
        /\ Served(Request(t)) /\ ctrl' = Effect(Request(t))
    BY <1>3 DEF Configure, Responds
  <2>2. /\ Loaded(job[t].op) \in Places(job[t].op)
        /\ Loaded(job[t].op) \notin {"validate", "motion", "back"}
        /\ Loaded(job[t].op) = "switch" => job[t].op = "pose_fallback"
    BY <1>0, <2>1 DEF IsJob, Places, Ops, Requests, Loaded
  <2> QED BY <1>0, <2>1, <2>2, GotoMoves DEF Asked
<1> QED BY <1>1, <1>2, <1>3

\* Steps that read the states of the controllers.
LEMMA ReadingStep ==
  ASSUME JobsInv, NEW t \in Threads,
         ControllerStates(t) \/ MovePose(t) \/ ResetJointWithPTP(t)
  PROVE  Asked(t) /\ \E j : Moved(t, j) /\ Read(t, j)
<1> DEFINE J(op, at, seen) ==
             [op |-> op, at |-> at, seen |-> seen, failed |-> job[t].failed]
<1>0. /\ IsJob(job[t]) /\ Active \in SUBSET Controllers /\ UNCHANGED <<mode, pose>>
      /\ job \in [Threads -> Job] /\ ctrl' = ctrl /\ Asked(t)
      /\ job[t].at \in {"states", "snapshot"}
  BY DEF JobsInv, Active, ControllerStates, MovePose, ResetJointWithPTP, Asked
<1>1. ASSUME NEW op \in Follows(job[t].op), NEW at \in Places(op),
             NEW seen \in {Active, job[t].seen},
             job' = [job EXCEPT ![t] = J(op, at, seen)], op \in Ops,
             seen = Active \/ at = "list",
             op = "reset_ptp" /\ at \in {"validate", "motion", "back"} =>
               Active \cap {Imp, Cart, Joint} = {}
      PROVE  \E j : Moved(t, j) /\ Read(t, j)
  <2> DEFINE j == J(op, at, seen)
  <2>1. IsJob(j) /\ j.op = op /\ j.at = at /\ j.seen = seen
    BY <1>0, <1>1 DEF IsJob
  <2>2. job' = [job EXCEPT ![t] = j]
    BY <1>1
  <2> HIDE DEF j
  <2>3. Moved(t, j)
    BY <1>0, <1>1, <2>1, <2>2 DEF Moved
  <2>4. Read(t, j)
    BY <1>0, <1>1, <2>1 DEF Read
  <2> QED BY <2>3, <2>4
<1> HIDE DEF J
<1>2. CASE ControllerStates(t)
  <2>1. job[t].at = "states" /\ job[t].op \in {"auto", "startimp", "pose_start", "pose_precise"}
    BY <1>0, <1>2 DEF ControllerStates, IsJob, Places, Ops, Requests
  <2>2. CASE Needed(job[t].op) \notin Active
    <3>1. job' = [job EXCEPT ![t].seen = Active, ![t].at = "switch"]
      BY <1>2, <2>2 DEF ControllerStates
    <3>2. job' = [job EXCEPT ![t] = J(job[t].op, "switch", Active)]
      BY <1>0, <3>1 DEF IsJob, J
    <3>3. /\ job[t].op \in Follows(job[t].op) /\ "switch" \in Places(job[t].op)
          /\ job[t].op \in Ops
      BY <2>1 DEF Follows, Places, Ops, Requests
    <3>4. "switch" \notin {"validate", "motion", "back"}
      OBVIOUS
    <3>5. \E j : Moved(t, j) /\ Read(t, j)
      BY <1>1, <3>2, <3>3, <3>4
    <3> QED BY <1>0, <3>5
  <2>3. CASE Needed(job[t].op) \in Active
    <3>1. \/ job[t].op = "pose_start" /\ Goto(t, "publish")
          \/ job[t].op = "pose_precise" /\ Goto(t, "plan")
          \/ Answer(t, FALSE)
      BY <1>2, <2>3 DEF ControllerStates
    <3>2. "publish" \in Places("pose_start") /\ "plan" \in Places("pose_precise")
      BY DEF Places
    <3> QED BY <1>0, <3>1, <3>2, GotoMoves, AnswerMoves
  <2> QED BY <1>0, <2>2, <2>3
<1>3. CASE MovePose(t)
  <2>1. job[t].at = "snapshot" /\ job[t].op = "pose"
    BY <1>3 DEF MovePose
  <2>2. CASE Imp \in Active
    <3>1. Goto(t, "publish")
      BY <1>3, <2>2 DEF MovePose
    <3>2. "publish" \in Places(job[t].op)
      BY <2>1 DEF Places
    <3> QED BY <1>0, <2>1, <3>1, <3>2, GotoMoves
  <2>3. CASE Imp \notin Active /\ pose = "activate"
    <3>1. job' = [job EXCEPT ![t].op = "pose_start", ![t].at = "list"]
      BY <1>3, <2>3 DEF MovePose
    <3>2. job' = [job EXCEPT ![t] = J("pose_start", "list", job[t].seen)]
      BY <1>0, <3>1 DEF IsJob, J
    <3>3. /\ "pose_start" \in Follows(job[t].op) /\ "list" \in Places("pose_start")
          /\ "pose_start" \in Ops
      BY <2>1, <2>3 DEF Follows, Places, Ops
    <3> QED BY <1>0, <1>1, <3>2, <3>3
  <2>4. CASE Imp \notin Active /\ pose = "fallback"
    <3>1. job' = [job EXCEPT ![t] = [@ EXCEPT !.op = "pose_fallback", !.at = "list", !.seen = Active]]
      BY <1>3, <2>4 DEF MovePose
    <3>2. job' = [job EXCEPT ![t] = J("pose_fallback", "list", Active)]
      <4>1. [job[t] EXCEPT !.op = "pose_fallback", !.at = "list", !.seen = Active]
              = J("pose_fallback", "list", Active)
        <5>1. PICK q : q = [job[t] EXCEPT !.op = "pose_fallback", !.at = "list", !.seen = Active]
          OBVIOUS
        <5>2. q = J("pose_fallback", "list", Active)
          BY <1>0, <5>1 DEF IsJob, J
        <5> QED BY <5>1, <5>2
      <4> QED BY <3>1, <4>1
    <3>3. "pose_fallback" \in Follows(job[t].op)
      BY <2>1, <2>4 DEF Follows
    <3>4. "list" \in Places("pose_fallback") /\ "pose_fallback" \in Ops
      BY DEF Places, Ops
    <3>5. \E j : Moved(t, j) /\ Read(t, j)
      BY <1>1, <3>2, <3>3, <3>4
    <3> QED BY <1>0, <3>5
  <2>5. CASE Imp \notin Active /\ pose \notin {"activate", "fallback"}
    <3>1. Answer(t, TRUE)
      BY <1>3, <2>5 DEF MovePose
    <3> QED BY <1>0, <3>1, AnswerMoves
  <2> QED BY <2>2, <2>3, <2>4, <2>5
<1>4. CASE ResetJointWithPTP(t)
  <2>1. job[t].at = "snapshot" /\ job[t].op = "reset_ptp"
    BY <1>4 DEF ResetJointWithPTP
  <2>2. PICK at \in {"validate", "switch"} :
          /\ job' = [job EXCEPT ![t].seen = Active, ![t].at = at]
          /\ at = "validate" => Active \cap {Imp, Cart, Joint} = {}
    BY <1>4 DEF ResetJointWithPTP
  <2>3. job' = [job EXCEPT ![t] = J(job[t].op, at, Active)]
    BY <1>0, <2>2 DEF IsJob, J
  <2>4. job[t].op \in Follows(job[t].op) /\ at \in Places(job[t].op) /\ job[t].op \in Ops
    BY <2>1, <2>2 DEF Follows, Places, Ops, Requests
  <2> QED BY <1>0, <1>1, <2>2, <2>3, <2>4
<1> QED BY <1>2, <1>3, <1>4

\* Switches.
LEMMA SwitchingStep ==
  ASSUME JobsInv, NEW t \in Threads,
         NothingToSwitch(t) \/ SwitchControllers(t) \/ SwitchBack(t)
  PROVE  Asked(t) /\ \E j : Moved(t, j) /\ Read(t, j)
<1>0. /\ IsJob(job[t]) /\ UNCHANGED <<mode, pose>> /\ Asked(t)
      /\ job[t].at \in {"switch", "back"}
  BY DEF JobsInv, NothingToSwitch, SwitchControllers, SwitchBack, Responds, Asked
<1>1. CASE NothingToSwitch(t)
  <2>1. Goto(t, "publish") /\ job[t].op = "pose_fallback"
    BY <1>1 DEF NothingToSwitch
  <2>2. "publish" \in Places(job[t].op)
    BY <2>1 DEF Places
  <2> QED BY <1>0, <2>1, <2>2, GotoMoves
<1>2. CASE SwitchControllers(t)
  <2>1. job[t].at = "switch"
    BY <1>2 DEF SwitchControllers
  <2>2. job[t].op \in {"startimp", "stopimp", "auto", "reset_ptp", "pose_start",
                       "pose_fallback", "pose_precise", "reset_controller"}
    BY <1>0, <2>1 DEF IsJob, Places, Ops, Requests
  <2>3. CASE job[t].op \in {"startimp", "stopimp", "auto"}
    <3>1. Answer(t, FALSE)
      BY <1>2, <2>3 DEF SwitchControllers
    <3> QED BY <1>0, <3>1, AnswerMoves
  <2>4. CASE job[t].op = "reset_ptp"
    <3>1. Goto(t, "validate") /\ "validate" \in Places(job[t].op)
      BY <1>2, <2>4 DEF SwitchControllers, Places
    <3>2. Served(Request(t)) /\ ctrl' = Effect(Request(t))
      BY <1>2 DEF SwitchControllers, Responds
    <3> QED BY <1>0, <2>1, <2>4, <3>1, <3>2, GotoMoves
  <2>5. CASE job[t].op \in {"pose_start", "pose_fallback", "pose_precise", "reset_controller"}
    <3>1. PICK x \in {"publish", "settle", "plan", "motion"} :
            GotoUnseen(t, x) /\ x \in Places(job[t].op)
      BY <1>2, <2>5 DEF SwitchControllers, Places
    <3> QED BY <1>0, <2>5, <3>1, GotoUnseenMoves
  <2> QED BY <2>2, <2>3, <2>4, <2>5
<1>3. CASE SwitchBack(t)
  <2>1. Answer(t, job[t].failed) /\ job[t].failed \in BOOLEAN
    BY <1>0, <1>3 DEF SwitchBack, IsJob
  <2> QED BY <1>0, <2>1, AnswerMoves
<1> QED BY <1>1, <1>2, <1>3

\* Steps that wait for other servers, and the ends of the requests.
LEMMA OtherStep ==
  ASSUME JobsInv, NEW t \in Threads,
         Continue(t) \/ Complete(t) \/ JointsReached(t) \/ EndMotion(t)
  PROVE  Asked(t) /\ \E j : Moved(t, j) /\ Read(t, j)
<1>0. /\ IsJob(job[t]) /\ UNCHANGED <<mode, pose>> /\ Asked(t) /\ ctrl' = ctrl
      /\ job[t].at # "idle"
  BY DEF JobsInv, Asked, Continue, SetJointTarget, HoldCurrentPose, ComputeCartesianPath,
     StopGripper, CheckVelocities, Go, Complete, PublishPose, ExecuteTrajectory, ClearError,
     UpdateParams, RunGripperAction, RunAction, Done, JointsReached, EndMotion
<1>1. CASE Continue(t)
  <2>1. PICK x : /\ Goto(t, x)
                 /\ \/ job[t].at = "target" /\ x = "switch"
                    \/ job[t].at = "settle" /\ x = "publish"
                    \/ job[t].at = "plan" /\ x = "execute"
                    \/ job[t].at = "stop" /\ x = "action"
                    \/ job[t].at = "validate" /\ x = "motion"
    BY <1>1 DEF Continue, SetJointTarget, HoldCurrentPose, ComputeCartesianPath, StopGripper,
       CheckVelocities, Go
  <2>2. /\ x \in Places(job[t].op)
        /\ x = "switch" => job[t].op = "reset_controller"
    BY <1>0, <2>1 DEF IsJob, Places, Ops, Requests
  <2> QED BY <1>0, <2>1, <2>2, GotoMoves
<1>2. CASE Complete(t)
  <2>1. Answer(t, FALSE)
    BY <1>2 DEF Complete, PublishPose, ExecuteTrajectory, ClearError, UpdateParams,
       RunGripperAction, RunAction, Done
  <2> QED BY <1>0, <2>1, AnswerMoves
<1>3. CASE JointsReached(t)
  <2>1. Goto(t, "back") /\ job[t].op = "reset_controller" /\ "back" \in Places(job[t].op)
    BY <1>3 DEF JointsReached, Go, Places
  <2> QED BY <1>0, <2>1, GotoMoves
<1>4. CASE EndMotion(t)
  <2>1. job[t].at = "motion" /\ job[t].op = "reset_ptp"
    BY <1>4 DEF EndMotion
  <2>2. PICK failed \in BOOLEAN :
          IF Restored(job[t].seen) = {}
            THEN Answer(t, failed)
            ELSE job' = [job EXCEPT ![t].at = "back", ![t].failed = failed]
    BY <1>4 DEF EndMotion
  <2>3. CASE Restored(job[t].seen) = {}
    BY <1>0, <2>2, <2>3, AnswerMoves
  <2>4. CASE Restored(job[t].seen) # {}
    <3> DEFINE j == [op |-> job[t].op, at |-> "back", seen |-> job[t].seen, failed |-> failed]
    <3>1. job' = [job EXCEPT ![t] = j]
      BY <1>0, <2>2, <2>4 DEF IsJob
    <3>2. IsJob(j) /\ j.op = job[t].op /\ j.at = "back" /\ j.seen = job[t].seen
      BY <1>0, <2>1 DEF IsJob, Places
    <3> HIDE DEF j
    <3>3. Moved(t, j)
      BY <1>0, <3>1, <3>2 DEF Moved, Follows
    <3>4. Read(t, j)
      BY <1>0, <2>1, <3>2 DEF Read
    <3> QED BY <1>0, <3>3, <3>4
  <2> QED BY <2>3, <2>4
<1> QED BY <1>1, <1>2, <1>3, <1>4

\* Failures: the auto start begins again, a request is answered.  What timed
\* out is left to be served.
LEMMA FailingStep ==
  ASSUME JobsInv, NEW t \in Threads, Refused(t) \/ TimedOut(t)
  PROVE  Asked(t) /\ \E j : Moved(t, j) /\ Read(t, j)
<1>0. /\ IsJob(job[t]) /\ UNCHANGED <<mode, pose>> /\ Asked(t) /\ ctrl' = ctrl
  BY DEF JobsInv, Asked, Refused, TimedOut
<1>f. Fails(t)
  BY DEF Refused, TimedOut
<1>1. CASE t = AutoStart
  <2>1. AutoFails
    BY <1>f, <1>1, AutoStartAssumption DEF Fails, RequestFails
  <2>2. job[t].at \in {"list", "load", "configure", "states", "switch"} /\ job[t].op = "auto"
    BY <1>0, <1>1, <2>1 DEF AutoFails, JobsInv, IsJob, Places
  <2>3. CASE attempt < RetryCount
    <3> DEFINE j == [op |-> job[t].op, at |-> "list", seen |-> {}, failed |-> job[t].failed]
    <3>1. job' = [job EXCEPT ![t] = j]
      <4>1. PICK q : q = [job[t] EXCEPT !.at = "list", !.seen = {}]
        OBVIOUS
      <4>2. q = j
        BY <1>0, <4>1 DEF IsJob
      <4>3. job' = [job EXCEPT ![t] = q]
        BY <1>1, <2>1, <2>3, <4>1 DEF AutoFails
      <4> QED BY <4>2, <4>3
    <3>2. IsJob(j) /\ j.op = job[t].op /\ j.at = "list" /\ j.seen = {}
      BY <1>0, <2>2 DEF IsJob, Places
    <3> HIDE DEF j
    <3>3. Moved(t, j)
      BY <1>0, <2>2, <3>1, <3>2 DEF Moved, Follows
    <3>4. Read(t, j)
      BY <3>2 DEF Read
    <3> QED BY <1>0, <3>3, <3>4
  <2>4. CASE ~(attempt < RetryCount)
    <3>1. Answer(t, TRUE)
      BY <1>1, <2>1, <2>4 DEF AutoFails
    <3> QED BY <1>0, <2>2, <3>1, AnswerMoves
  <2> QED BY <2>3, <2>4
<1>2. CASE t # AutoStart
  <2>1. Answer(t, TRUE) /\ job[t].at # "idle"
    BY <1>f, <1>2 DEF Fails, RequestFails
  <2> QED BY <1>0, <2>1, AnswerMoves
<1> QED BY <1>1, <1>2

\* Every step of a thread that has begun something.
LEMMA ThreadStep ==
  ASSUME JobsInv, NEW t \in Threads, Step(t)
  PROVE  Asked(t) /\ \E j : Moved(t, j) /\ Read(t, j)
BY LoadingStep, ReadingStep, SwitchingStep, OtherStep, FailingStep DEF Step

-----------------------------------------------------------------------------
(* The steps of the whole.                                                  *)

\* A request j arrives on thread t.
Arrived(t, j) ==
  /\ t \in Handlers /\ job[t].at = "idle"
  /\ mode = "overlap" \/ \A u \in Threads : job[u].at = "idle"
  /\ job' = [job EXCEPT ![t] = j]
  /\ IsJob(j) /\ j.op \in Allowed /\ j.at = Begin(j.op) /\ j.seen = {}
  /\ UNCHANGED <<mode, pose, ctrl, late>>

\* A request begins with one of its steps.
LEMMA RequestArrives ==
  ASSUME JobsInv, NEW t \in Handlers, NEW op \in Requests, HandleRequest(t, op)
  PROVE  \E j : Arrived(t, j)
<1>1. PICK j : j = [Answered(FALSE) EXCEPT !.op = op, !.at = Begin(op)]
  OBVIOUS
<1>2. j = [op |-> op, at |-> Begin(op), seen |-> {}, failed |-> FALSE]
  BY <1>1 DEF Answered
<1>3. Begin(op) \in Places(op) /\ op \in Ops
  BY DEF Begin, Places, Requests, Ops
<1>4. IsJob(j) /\ j.op = op /\ j.at = Begin(op) /\ j.seen = {}
  BY <1>2, <1>3 DEF IsJob
<1>5. job' = [job EXCEPT ![t] = j]
  BY <1>1 DEF HandleRequest
<1> QED BY <1>4, <1>5 DEF Arrived, HandleRequest

\* What may happen: a thread goes on, a request arrives, or the controller
\* manager serves a late request or the spawner.
LEMMA NextCases ==
  ASSUME JobsInv, [Next]_vars
  PROVE  \/ \E t \in Threads : Asked(t) /\ \E j : Moved(t, j) /\ Read(t, j)
         \/ \E t \in Handlers : \E j : Arrived(t, j)
         \/ ServeLate \/ Spawn
         \/ UNCHANGED vars
<1>1. CASE \E t \in Threads : Step(t)
  BY <1>1, ThreadStep
<1>2. CASE AutoStep
  <2>1. AutoStart \in Threads /\ IsJob(job[AutoStart])
    BY DEF Threads, JobsInv
  <2>2. PICK x \in {"wait", "list"} :
          /\ Goto(AutoStart, x) /\ job[AutoStart].at \in {"delay", "wait"}
          /\ UNCHANGED <<mode, pose, ctrl, late>>
    BY <1>2 DEF AutoStep, AutoDelay, AutoWait
  <2>3. job[AutoStart].op = "auto" /\ x \in Places(job[AutoStart].op)
    BY <2>1, <2>2 DEF IsJob, JobsInv, Places
  <2>4. \E j : Moved(AutoStart, j) /\ Read(AutoStart, j)
    BY <2>1, <2>2, <2>3, GotoMoves
  <2> QED BY <2>1, <2>2, <2>4 DEF Asked
<1>3. CASE \E t \in Handlers, op \in Requests : HandleRequest(t, op)
  BY <1>3, RequestArrives
<1> QED BY <1>1, <1>2, <1>3 DEF Next

-----------------------------------------------------------------------------
(* Type correctness.                                                        *)

\* The late requests are finitely many, and each job is at a step of its
\* operation.
TypeInv ==
  /\ mode \in Modes /\ pose \in PoseModes
  /\ CtrlType /\ JobsInv
  /\ attempt \in 1..RetryCount
  /\ IsFiniteSet(late) /\ Cardinality(late) <= MaxLate

\* A step of one thread leaves the others' jobs.
LEMMA OneJob ==
  ASSUME JobsInv, NEW t \in Threads, NEW j, IsJob(j), job' = [job EXCEPT ![t] = j]
  PROVE  /\ job' \in [Threads -> Job] /\ job'[t] = j
         /\ \A u \in Threads : u # t => job'[u] = job[u]
         /\ \A u \in Threads : IsJob(job'[u])
BY PlacesType DEF JobsInv

\* Jobs stay jobs.
LEMMA JobsNext ==
  ASSUME JobsInv, [Next]_vars
  PROVE  JobsInv'
<1>1. AutoStart \in Threads /\ Handlers \subseteq Threads
  BY DEF Threads
<1>2. ASSUME NEW t \in Threads, NEW j, Moved(t, j) PROVE JobsInv'
  <2>1. IsJob(j) /\ job' = [job EXCEPT ![t] = j] /\ j.op \in Follows(job[t].op)
    BY <1>2 DEF Moved
  <2>2. /\ job[t].op # "auto" => j.op # "auto"
        /\ job[t].op \in {"none", "auto"} => j.op \in {"none", "auto"}
    BY <2>1 DEF Follows
  <2>3. /\ job' \in [Threads -> Job] /\ job'[t] = j
        /\ \A u \in Threads : u # t => job'[u] = job[u]
        /\ \A u \in Threads : IsJob(job'[u])
    BY <2>1, OneJob
  <2>4. \A u \in Handlers : job'[u].op # "auto"
    BY <1>1, <2>2, <2>3 DEF JobsInv
  <2>5. job'[AutoStart].op \in {"none", "auto"}
    BY <1>1, <2>2, <2>3 DEF JobsInv
  <2> QED BY <2>3, <2>4, <2>5 DEF JobsInv, IsJob, Places, Ops
<1>3. ASSUME NEW t \in Handlers, NEW j, Arrived(t, j) PROVE JobsInv'
  <2>1. IsJob(j) /\ job' = [job EXCEPT ![t] = j] /\ j.op # "auto" /\ t # AutoStart
    BY <1>3, AutoStartAssumption DEF Arrived, Allowed, Requests
  <2>2. /\ job' \in [Threads -> Job] /\ job'[t] = j
        /\ \A u \in Threads : u # t => job'[u] = job[u]
        /\ \A u \in Threads : IsJob(job'[u])
    BY <1>1, <2>1, OneJob
  <2>3. \A u \in Handlers : job'[u].op # "auto"
    BY <1>1, <2>1, <2>2 DEF JobsInv
  <2>4. job'[AutoStart].op \in {"none", "auto"}
    BY <1>1, <2>1, <2>2 DEF JobsInv
  <2> QED BY <2>2, <2>3, <2>4 DEF JobsInv, IsJob, Places, Ops
<1>4. CASE UNCHANGED job
  BY <1>4 DEF JobsInv, IsJob, Places, Ops
<1>5. CASE ServeLate \/ Spawn \/ UNCHANGED vars
  <2>1. UNCHANGED job
    BY <1>5 DEF ServeLate, Spawn, vars
  <2> QED BY <2>1, <1>4
<1> QED BY <1>2, <1>3, <1>5, NextCases

\* The counter of the auto start stays in its range.
LEMMA AttemptNext ==
  ASSUME attempt \in 1..RetryCount, [Next]_vars
  PROVE  attempt' \in 1..RetryCount
<1>1. attempt' = attempt \/ (attempt < RetryCount /\ attempt' = attempt + 1)
  BY DEF Next, vars, HandleRequest, AutoStep, AutoDelay, AutoWait, ServeLate, Spawn, Step,
     EnsureControllerLoaded, Load, Configure, ControllerStates, MovePose, ResetJointWithPTP,
     NothingToSwitch, SwitchControllers, Responds, Continue, SetJointTarget, HoldCurrentPose,
     ComputeCartesianPath, StopGripper, CheckVelocities, Go, Complete, PublishPose,
     ExecuteTrajectory, ClearError, UpdateParams, RunGripperAction, RunAction, Done,
     JointsReached, EndMotion, SwitchBack, Refused, TimedOut, Fails, RequestFails, AutoFails
<1> QED BY <1>1, RetryCountType

\* The states of the controllers and the late requests keep their types, and
\* what was configured stays configured.
LEMMA ServersNext ==
  ASSUME TypeInv, [Next]_vars
  PROVE  /\ CtrlType' /\ Configured \subseteq Configured'
         /\ IsFiniteSet(late') /\ Cardinality(late') <= MaxLate
         /\ mode' = mode /\ pose' = pose
         /\ mode # "late" => late' \subseteq late
<1> USE DEF TypeInv
<1>1. ASSUME NEW t \in Threads, NEW j, Asked(t), Moved(t, j)
      PROVE  /\ CtrlType' /\ Configured \subseteq Configured'
             /\ IsFiniteSet(late') /\ Cardinality(late') <= MaxLate
             /\ mode' = mode /\ pose' = pose
             /\ mode # "late" => late' \subseteq late
  <2>1. CASE ctrl' = ctrl
    <3>1. CtrlType' /\ Configured \subseteq Configured'
      BY <2>1 DEF CtrlType, Configured
    <3>2. IsFiniteSet(late') /\ Cardinality(late') <= MaxLate
      BY <1>1, FS_AddElement DEF Asked
    <3> QED BY <1>1, <3>1, <3>2 DEF Asked, Moved
  <2>2. CASE Served(Request(t)) /\ ctrl' = Effect(Request(t))
    <3>1. CtrlType' /\ Configured \subseteq Configured'
      BY <2>2, EffectFacts
    <3>2. IsFiniteSet(late') /\ Cardinality(late') <= MaxLate
      BY <1>1, FS_AddElement DEF Asked
    <3> QED BY <1>1, <3>1, <3>2 DEF Asked, Moved
  <2> QED BY <1>1, <2>1, <2>2 DEF Asked
<1>2. ASSUME NEW t \in Handlers, NEW j, Arrived(t, j)
      PROVE  UNCHANGED <<mode, pose, ctrl, late>>
  BY <1>2 DEF Arrived
<1>3. CASE ServeLate
  <2>1. PICK r \in late : late' = late \ {r} /\ ctrl' = IF Served(r) THEN Effect(r) ELSE ctrl
    BY <1>3 DEF ServeLate
  <2>2. mode' = mode /\ pose' = pose
    BY <1>3 DEF ServeLate
  <2>3. IsFiniteSet(late') /\ Cardinality(late') <= MaxLate
    <3>1. IsFiniteSet(late') /\ Cardinality(late') = Cardinality(late) - 1
      BY <2>1, FS_RemoveElement
    <3>2. Cardinality(late) \in Nat
      BY FS_CardinalityType
    <3> QED BY <3>1, <3>2, MaxLateType
  <2>4. CtrlType' /\ Configured \subseteq Configured'
    <3>1. CASE Served(r)
      BY <2>1, <3>1, EffectFacts
    <3>2. CASE ~Served(r)
      BY <2>1, <3>2 DEF CtrlType, Configured
    <3> QED BY <3>1, <3>2
  <2> QED BY <2>1, <2>2, <2>3, <2>4
<1>4. CASE Spawn
  <2>1. CtrlType' /\ Configured \subseteq Configured'
    BY <1>4 DEF Spawn, CtrlType, Configured, States, Controllers
  <2> QED BY <1>4, <2>1 DEF Spawn
<1>5. CASE UNCHANGED <<mode, pose, ctrl, late>>
  BY <1>5 DEF CtrlType, Configured
<1>6. CASE UNCHANGED vars
  BY <1>5, <1>6 DEF vars
<1> QED BY <1>1, <1>2, <1>3, <1>4, <1>5, <1>6, NextCases

\* The bridge starts with the types right.
LEMMA TypeInit == Init => TypeInv
<1> SUFFICES ASSUME Init PROVE TypeInv
  OBVIOUS
<1>1. CtrlType
  BY DEF Init, CtrlType, Controllers, States
<1>2. \A t \in Threads : \/ IsJob(job[t]) /\ job[t].op = "none"
                         \/ t = AutoStart /\ IsJob(job[t]) /\ job[t].op = "auto"
  <2> SUFFICES ASSUME NEW t \in Threads
               PROVE  \/ IsJob(job[t]) /\ job[t].op = "none"
                      \/ t = AutoStart /\ IsJob(job[t]) /\ job[t].op = "auto"
    OBVIOUS
  <2>1. CASE t = AutoStart /\ mode = "overlap"
    <3>1. PICK j : j = [Answered(FALSE) EXCEPT !.op = "auto", !.at = "delay"]
      OBVIOUS
    <3>2. j = [op |-> "auto", at |-> "delay", seen |-> {}, failed |-> FALSE]
      BY <3>1 DEF Answered
    <3>3. job[t] = j
      BY <2>1, <3>1 DEF Init
    <3> QED BY <2>1, <3>2, <3>3 DEF IsJob, Places, Ops
  <2>2. CASE ~(t = AutoStart /\ mode = "overlap")
    <3>1. job[t] = [op |-> "none", at |-> "idle", seen |-> {}, failed |-> FALSE]
      BY <2>2 DEF Init, Answered
    <3> QED BY <3>1 DEF IsJob, Places, Ops
  <2> QED BY <2>1, <2>2
<1>3. \A t \in Threads : job[t] \in Job
  BY <1>2, PlacesType
<1>4. job \in [Threads -> Job]
  <2>1. job = [t \in Threads |-> job[t]]
    BY DEF Init
  <2> QED BY <1>3, <2>1
<1>5. AutoStart \in Threads /\ Handlers \subseteq Threads
  BY DEF Threads
<1>6. JobsInv
  BY <1>2, <1>4, <1>5, AutoStartAssumption DEF JobsInv
<1>7. attempt \in 1..RetryCount
  BY RetryCountType DEF Init
<1>8. IsFiniteSet(late) /\ Cardinality(late) <= MaxLate
  BY FS_EmptySet, MaxLateType DEF Init
<1> QED BY <1>1, <1>6, <1>7, <1>8 DEF TypeInv, Init

\* Every step keeps the types.
LEMMA TypeNext == TypeInv /\ [Next]_vars => TypeInv'
<1> SUFFICES ASSUME TypeInv, [Next]_vars PROVE TypeInv'
  OBVIOUS
<1>1. JobsInv'
  BY JobsNext DEF TypeInv
<1>2. attempt' \in 1..RetryCount
  BY AttemptNext DEF TypeInv
<1> QED BY <1>1, <1>2, ServersNext DEF TypeInv

\* Every variable keeps its type, the auto start makes at most
\* auto_start_retry_count attempts, and each thread is at a step of what it was
\* asked for: for any number of threads, late requests and attempts.
THEOREM TypeCorrect == Spec => []TypeOK
<1>1. TypeInv => TypeOK
  BY DEF TypeInv, TypeOK, CtrlType, JobsInv
<1> QED BY <1>1, TypeInit, TypeNext, PTL DEF Spec

-----------------------------------------------------------------------------
(* What was seen, and impedance after a PTP reset.                          *)

\* A controller that a thread saw active is still loaded and configured.
SeenInv == \A t \in Threads : job[t].seen \subseteq Configured

\* Nothing was seen at the start.
LEMMA SeenInit == Init => SeenInv
BY DEF Init, SeenInv, Answered

\* Nobody unloads a controller.
LEMMA SeenNext ==
  ASSUME TypeInv, SeenInv, [Next]_vars
  PROVE  SeenInv'
<1>0. Configured \subseteq Configured' /\ Active \subseteq Configured /\ Handlers \subseteq Threads
  BY ServersNext DEF Active, Configured, Threads
<1>1. ASSUME NEW t \in Threads, NEW j, Moved(t, j) \/ Arrived(t, j),
             j.seen \subseteq job[t].seen \cup Active
      PROVE  SeenInv'
  <2>1. IsJob(j) /\ job' = [job EXCEPT ![t] = j]
    BY <1>1 DEF Moved, Arrived
  <2>2. job'[t] = j /\ \A u \in Threads : u # t => job'[u] = job[u]
    BY <2>1, OneJob DEF TypeInv
  <2> QED BY <1>0, <1>1, <2>2 DEF SeenInv
<1>2. CASE ServeLate \/ Spawn \/ UNCHANGED vars
  <2>1. job' = job
    BY <1>2 DEF ServeLate, Spawn, vars
  <2> QED BY <1>0, <2>1 DEF SeenInv
<1>3. \A t, j : Arrived(t, j) => j.seen = {}
  BY DEF Arrived
<1>4. \A t, j : Read(t, j) => j.seen \subseteq job[t].seen \cup Active
  BY DEF Read
<1> QED BY <1>0, <1>1, <1>2, <1>3, <1>4, NextCases DEF TypeInv

\* The step that answers a PTP reset is the failure of the restoring switch, or
\* that switch itself.
LEMMA RestoringStep ==
  ASSUME TypeInv, SeenInv, [Next]_vars, NEW t \in Threads,
         job[t].op = "reset_ptp", job[t].at \in {"motion", "back"}, Imp \in job[t].seen,
         job'[t].at = "idle"
  PROVE  ctrl'[Imp] = "active" \/ (job[t].at = "back" /\ job'[t].failed)
<1>0. /\ job \in [Threads -> Job] /\ IsJob(job[t]) /\ job[t].op # "auto"
      /\ Handlers \subseteq Threads /\ AutoStart \in Threads
  BY DEF TypeInv, JobsInv, Threads
<1>1. job'[t] # job[t]
  OBVIOUS
<1>2. \A u \in Threads : u # t => \A j : job' # [job EXCEPT ![u] = j]
  BY <1>0, <1>1
<1>3. Step(t)
  <2>1. ASSUME NEW u \in Handlers, NEW op \in Requests, HandleRequest(u, op)
        PROVE  FALSE
    <3>1. u # t /\ \E j : job' = [job EXCEPT ![u] = j]
      BY <2>1 DEF HandleRequest
    <3> QED BY <1>0, <1>2, <3>1
  <2>2. ASSUME NEW u \in Threads, Step(u), u # t
        PROVE  FALSE
    <3>1. \E j : job' = [job EXCEPT ![u] = j]
      BY <2>2, ThreadStep DEF TypeInv, Moved
    <3> QED BY <1>2, <2>2, <3>1
  <2>3. ~AutoStep
    <3>1. SUFFICES ASSUME AutoStep PROVE FALSE
      OBVIOUS
    <3>2. AutoStart # t
      BY <3>1 DEF AutoStep, AutoDelay, AutoWait
    <3>3. job'[t] = job[t]
      BY <1>0, <3>1, <3>2 DEF AutoStep, AutoDelay, AutoWait, Goto
    <3> QED BY <1>1, <3>3
  <2>4. job' # job
    BY <1>1
  <2> QED BY <2>1, <2>2, <2>3, <2>4 DEF Next, vars, ServeLate, Spawn
<1>4. CASE job[t].at = "motion"
  <2>1. EndMotion(t)
    BY <1>3, <1>4 DEF Step, EnsureControllerLoaded, Load, Configure, ControllerStates, MovePose,
       ResetJointWithPTP, NothingToSwitch, SwitchControllers, Continue, SetJointTarget,
       HoldCurrentPose, ComputeCartesianPath, StopGripper, CheckVelocities, Go, Complete,
       PublishPose, ExecuteTrajectory, ClearError, UpdateParams, RunGripperAction, RunAction,
       Done, JointsReached, SwitchBack, Refused, TimedOut, Fails, RequestFails, AutoFails
  <2>2. PICK failed \in BOOLEAN : job' = [job EXCEPT ![t].at = "back", ![t].failed = failed]
    BY <2>1 DEF EndMotion, Restored
  <2>3. job'[t].at = "back"
    BY <1>0, <2>2 DEF IsJob
  <2> QED BY <2>3
<1>5. CASE job[t].at = "back"
  <2>1. SwitchBack(t) \/ Fails(t)
    BY <1>3, <1>5 DEF Step, EnsureControllerLoaded, Load, Configure, ControllerStates, MovePose,
       ResetJointWithPTP, NothingToSwitch, SwitchControllers, Continue, SetJointTarget,
       HoldCurrentPose, ComputeCartesianPath, StopGripper, CheckVelocities, Go, Complete,
       PublishPose, ExecuteTrajectory, ClearError, UpdateParams, RunGripperAction, RunAction,
       Done, JointsReached, EndMotion, Refused, TimedOut
  <2>2. CASE SwitchBack(t)
    <3> DEFINE r == [kind |-> "effort", activate |-> {Imp}, deactivate |-> {}]
    <3>1. Request(t) = r
      <4>1. Request(t) = AfterPTPRequest(job[t].seen)
        BY <1>5, Requested DEF BackRequest
      <4>2. Restored(job[t].seen) = {Imp}
        BY DEF Restored
      <4> QED BY <4>1, <4>2 DEF AfterPTPRequest
    <3>2. Served(r) /\ ctrl' = Effect(r)
      BY <2>2, <3>1 DEF SwitchBack, Responds
    <3>3. r.kind = "effort" /\ r.activate = {Imp} /\ r.deactivate = {}
      OBVIOUS
    <3> HIDE DEF r
    <3>4. {Imp} \cap Configured \subseteq Active'
      <4>1. (r.activate \ r.deactivate) \cap Configured \subseteq Active'
        BY <3>2, <3>3, SwitchFacts DEF TypeInv
      <4> QED BY <3>3, <4>1
    <3>5. Imp \in Configured
      BY DEF SeenInv
    <3> QED BY <3>4, <3>5 DEF Active
  <2>3. CASE Fails(t)
    <3>1. Answer(t, TRUE)
      BY <1>5, <2>3 DEF Fails, RequestFails, AutoFails
    <3>2. job'[t].failed
      BY <1>0, <3>1 DEF Answer, Answered
    <3> QED BY <1>5, <3>2
  <2> QED BY <2>1, <2>2, <2>3
<1> QED BY <1>4, <1>5

\* A PTP reset that found impedance active ends with impedance active, unless
\* the request to restore it failed: whatever other threads, late requests and
\* the auto start do meanwhile.
THEOREM ImpedanceBack == Spec => ImpedanceRestored
<1>1. TypeInv /\ SeenInv /\ [Next]_vars =>
        \A t \in Threads :
          /\ job[t].op = "reset_ptp" /\ job[t].at \in {"motion", "back"} /\ Imp \in job[t].seen
          /\ job'[t].at = "idle"
          => ctrl'[Imp] = "active" \/ (job[t].at = "back" /\ job'[t].failed)
  BY RestoringStep
<1> QED BY <1>1, TypeInit, TypeNext, SeenInit, SeenNext, PTL DEF Spec, ImpedanceRestored

-----------------------------------------------------------------------------
(* The arm controllers of requests that do not overlap.                     *)

\* One request at a time, and no response after its deadline.
Quiet ==
  /\ mode # "overlap" =>
       \A t, u \in Threads : job[t].at # "idle" /\ job[u].at # "idle" => t = u
  /\ mode \in {"orderly", "serial"} => late = {}

\* Then what a thread read is still so when it asks for a switch, and from its
\* first switch on a PTP reset has stopped all but the precise controller.
Fresh ==
  mode \in {"orderly", "serial"} =>
    \A t \in Threads :
      /\ job[t].at = "switch" /\ job[t].op \notin {"stopimp", "pose_fallback", "reset_controller"}
           => job[t].seen = Active
      /\ job[t].op = "reset_ptp" /\ job[t].at \in {"validate", "motion", "back"}
           => Active \subseteq {Precise} \cap job[t].seen

\* Without the fallback and use_controller at most one is active, and what a
\* PTP reset is to restore is at most one.
AtMostOne(S) == \A c, d \in S : c = d
Orderly ==
  mode = "orderly" =>
    /\ pose # "fallback"
    /\ \A t \in Threads : job[t].op \notin {"pose_fallback", "reset_controller"}
    /\ AtMostOne(Active)
    /\ \A t \in Threads :
         job[t].op = "reset_ptp" /\ job[t].at \in {"switch", "validate", "motion", "back"}
           => AtMostOne(job[t].seen)

ArmInv == Quiet /\ Fresh /\ Orderly

\* Nothing is active at the start, and only the auto start may have begun.
LEMMA ArmInit == Init => ArmInv
<1> SUFFICES ASSUME Init PROVE ArmInv
  OBVIOUS
<1>1. Active = {}
  BY DEF Init, Active
<1>2. mode # "overlap" => \A t \in Threads : job[t] = Answered(FALSE)
  BY DEF Init
<1>3. mode # "overlap" => \A t \in Threads : job[t].at = "idle" /\ job[t].op = "none"
  BY <1>2 DEF Answered
<1>4. Quiet
  BY <1>3 DEF Quiet, Init
<1>5. Fresh
  BY <1>3 DEF Fresh
<1>6. Orderly
  BY <1>1, <1>3 DEF Orderly, AtMostOne, Init
<1> QED BY <1>4, <1>5, <1>6 DEF ArmInv

\* A switch that is asked for on states that are still so leaves at most one
\* arm controller active.
LEMMA OrderlySwitch ==
  ASSUME TypeInv, ArmInv, mode = "orderly", NEW t \in Threads, job[t].at \in {"switch", "back"},
         Served(Request(t)), ctrl' = Effect(Request(t))
  PROVE  AtMostOne(Active)'
<1> DEFINE seen == job[t].seen
<1>0. /\ IsJob(job[t]) /\ CtrlType /\ AtMostOne(Active) /\ Active \subseteq Controllers
      /\ job[t].op \notin {"pose_fallback", "reset_controller"}
      /\ job[t].at = "switch" /\ job[t].op # "stopimp" => seen = Active
      /\ job[t].op = "reset_ptp" => AtMostOne(seen)
      /\ job[t].op = "reset_ptp" /\ job[t].at = "back" => Active \subseteq {Precise} \cap seen
  BY DEF TypeInv, JobsInv, ArmInv, Orderly, Fresh, Active
<1>1. ASSUME NEW r, r = Request(t), r.kind \in {"strict", "effort"},
             NEW S, (Active \ r.deactivate) \cup r.activate \subseteq S, AtMostOne(S)
      PROVE  AtMostOne(Active)'
  <2>1. Active' \subseteq (Active \ r.deactivate) \cup r.activate
    BY <1>0, <1>1, SwitchFacts
  <2> QED BY <1>1, <2>1 DEF AtMostOne
<1>2. CASE job[t].at = "switch"
  <2>1. job[t].op \in {"startimp", "pose_start", "auto", "stopimp", "pose_precise", "reset_ptp"}
    BY <1>0, <1>2 DEF IsJob, Places, Ops, Requests
  <2>2. Request(t) = SwitchRequest(job[t].op, seen)
    BY <1>2, Requested
  <2>3. CASE job[t].op \in {"startimp", "pose_start", "auto"}
    <3>1. PICK r : r = StartRequest(seen)
      OBVIOUS
    <3>2. r.kind = "strict" /\ r.activate = {Imp} /\ r.deactivate = Active \ {Imp}
      BY <1>0, <1>2, <2>3, <3>1 DEF StartRequest
    <3>3. r = Request(t)
      BY <2>2, <2>3, <3>1, Switches
    <3>4. (Active \ r.deactivate) \cup r.activate \subseteq {Imp} /\ AtMostOne({Imp})
      BY <3>2 DEF AtMostOne
    <3> QED BY <1>1, <3>2, <3>3, <3>4
  <2>4. CASE job[t].op = "stopimp"
    <3>1. PICK r : r = StopRequest
      OBVIOUS
    <3>2. r.kind = "effort" /\ r.activate = {} /\ r.deactivate = {Imp}
      BY <3>1 DEF StopRequest
    <3>3. r = Request(t)
      BY <2>2, <2>4, <3>1, Switches
    <3>4. (Active \ r.deactivate) \cup r.activate \subseteq Active
      BY <3>2
    <3> QED BY <1>0, <1>1, <3>2, <3>3, <3>4
  <2>5. CASE job[t].op = "pose_precise"
    <3>1. PICK r : r = PreciseRequest(seen)
      OBVIOUS
    <3>2. r.kind = "effort" /\ r.activate = {Precise} /\ r.deactivate = Active \ {Precise}
      BY <1>0, <1>2, <2>5, <3>1 DEF PreciseRequest
    <3>3. r = Request(t)
      BY <2>2, <2>5, <3>1, Switches
    <3>4. (Active \ r.deactivate) \cup r.activate \subseteq {Precise} /\ AtMostOne({Precise})
      BY <3>2 DEF AtMostOne
    <3> QED BY <1>1, <3>2, <3>3, <3>4
  <2>6. CASE job[t].op = "reset_ptp"
    <3>1. PICK r : r = BeforePTPRequest(seen)
      OBVIOUS
    <3>2. r.kind = "effort" /\ r.activate = {}
      BY <3>1 DEF BeforePTPRequest
    <3>3. r = Request(t)
      BY <2>2, <2>6, <3>1, Switches
    <3>4. (Active \ r.deactivate) \cup r.activate \subseteq Active
      BY <3>2
    <3> QED BY <1>0, <1>1, <3>2, <3>3, <3>4
  <2> QED BY <2>1, <2>3, <2>4, <2>5, <2>6
<1>3. CASE job[t].at = "back"
  <2>1. job[t].op = "reset_ptp"
    BY <1>0, <1>3 DEF IsJob, Places, Ops, Requests
  <2>2. PICK r : r = AfterPTPRequest(seen)
    OBVIOUS
  <2>3. r.kind = "effort" /\ r.activate \subseteq seen /\ r.deactivate = {}
    BY <2>2 DEF AfterPTPRequest, Restored
  <2>4. r = Request(t)
    BY <1>3, <2>1, <2>2, Requested DEF BackRequest
  <2>5. (Active \ r.deactivate) \cup r.activate \subseteq seen
    BY <1>0, <1>3, <2>1, <2>3
  <2> QED BY <1>0, <1>1, <2>1, <2>3, <2>4, <2>5
<1> QED BY <1>2, <1>3

\* The first switch of a PTP reset stops what it saw but the precise controller.
LEMMA PTPSwitch ==
  ASSUME TypeInv, ArmInv, mode \in {"orderly", "serial"}, NEW t \in Threads,
         job[t].at = "switch", job[t].op = "reset_ptp",
         Served(Request(t)), ctrl' = Effect(Request(t))
  PROVE  Active' \subseteq {Precise} \cap job[t].seen
<1>0. CtrlType /\ job[t].seen = Active /\ Active \subseteq Controllers
  BY DEF TypeInv, ArmInv, Fresh, Active
<1>1. PICK r : r = BeforePTPRequest(job[t].seen)
  OBVIOUS
<1>2. r.kind = "effort" /\ r.activate = {} /\ r.deactivate = Active \cap {Imp, Cart, Joint}
  BY <1>0, <1>1 DEF BeforePTPRequest
<1>3. r = Request(t)
  BY <1>1, Requested, Switches
<1>4. Active' \subseteq (Active \ r.deactivate) \cup r.activate
  BY <1>0, <1>2, <1>3, SwitchFacts
<1>5. Controllers = {Imp, Joint, Cart, Precise}
  BY DEF Controllers
<1> QED BY <1>0, <1>2, <1>4, <1>5

\* A step of the one thread that has begun something.
LEMMA ArmStep ==
  ASSUME TypeInv, ArmInv, NEW t \in Threads, Asked(t), NEW j, Moved(t, j), Read(t, j)
  PROVE  ArmInv'
<1>0. /\ mode' = mode /\ pose' = pose /\ IsJob(j) /\ j.op \in Follows(job[t].op)
      /\ job[t].at # "idle" /\ IsJob(job[t])
  BY DEF Moved, TypeInv, JobsInv
<1>1. job'[t] = j /\ \A u \in Threads : u # t => job'[u] = job[u]
  BY OneJob DEF Moved, TypeInv
<1>2. mode # "overlap" => \A u \in Threads : u # t => job'[u].at = "idle"
  BY <1>0, <1>1 DEF ArmInv, Quiet
<1>3. Quiet'
  BY <1>0, <1>2 DEF ArmInv, Quiet, Asked
<1>4. Fresh'
  <2> SUFFICES ASSUME mode \in {"orderly", "serial"}, NEW u \in Threads
               PROVE  /\ /\ job'[u].at = "switch"
                         /\ job'[u].op \notin {"stopimp", "pose_fallback", "reset_controller"}
                         => job'[u].seen = Active'
                      /\ job'[u].op = "reset_ptp" /\ job'[u].at \in {"validate", "motion", "back"}
                         => Active' \subseteq {Precise} \cap job'[u].seen
    BY <1>0 DEF Fresh
  <2>1. ctrl' = ctrl => Active' = Active
    BY DEF Active
  <2>2. CASE u # t
    BY <1>2, <2>2
  <2>3. CASE u = t
    <3>1. job'[u] = j
      BY <1>1, <2>3
    <3>2. ASSUME j.at = "switch", j.op \notin {"stopimp", "pose_fallback", "reset_controller"}
          PROVE  j.seen = Active'
      BY <2>1, <3>2 DEF Read
    <3>3. ASSUME j.op = "reset_ptp", j.at \in {"validate", "motion", "back"}
          PROVE  Active' \subseteq {Precise} \cap j.seen
      <4>1. CASE j.seen = Active /\ Active \cap {Imp, Cart, Joint} = {} /\ ctrl' = ctrl
        BY <2>1, <4>1 DEF Active, Controllers
      <4>2. CASE /\ job[t].op = "reset_ptp" /\ j.seen = job[t].seen
                 /\ job[t].at \in {"validate", "motion"} /\ ctrl' = ctrl
        BY <2>1, <4>2 DEF ArmInv, Fresh
      <4>3. CASE /\ job[t].op = "reset_ptp" /\ j.seen = job[t].seen
                 /\ job[t].at = "switch" /\ Served(Request(t)) /\ ctrl' = Effect(Request(t))
        BY <4>3, PTPSwitch
      <4> QED BY <3>3, <4>1, <4>2, <4>3 DEF Read
    <3> QED BY <3>1, <3>2, <3>3
  <2> QED BY <2>2, <2>3
<1>5. Orderly'
  <2> SUFFICES ASSUME mode = "orderly" PROVE Orderly'
    BY <1>0 DEF Orderly
  <2>0. Orderly /\ Fresh
    BY DEF ArmInv
  <2>1. pose' # "fallback"
    BY <1>0, <2>0 DEF Orderly
  <2>2. \A u \in Threads : job'[u].op \notin {"pose_fallback", "reset_controller"}
    <3>1. j.op \notin {"pose_fallback", "reset_controller"}
      BY <1>0, <2>0 DEF Orderly, Follows
    <3> QED BY <1>1, <2>0, <3>1 DEF Orderly
  <2>3. AtMostOne(Active)'
    <3>1. CASE ctrl' = ctrl
      BY <2>0, <3>1 DEF Orderly, Active, AtMostOne
    <3>2. CASE /\ job[t].at \in {"load", "configure"}
               /\ Served(Request(t)) /\ ctrl' = Effect(Request(t))
      <4>1. PICK r : r = Request(t)
        OBVIOUS
      <4>2. r.kind \in {"load", "configure"}
        BY <3>2, <4>1, Requested DEF LoadRequest, ConfigureRequest
      <4>3. Active' = Active
        BY <3>2, <4>1, <4>2, EffectFacts DEF TypeInv
      <4> QED BY <2>0, <4>3 DEF Orderly, AtMostOne
    <3>3. CASE /\ job[t].at \in {"switch", "back"}
               /\ Served(Request(t)) /\ ctrl' = Effect(Request(t))
      BY <3>3, OrderlySwitch
    <3> QED BY <3>1, <3>2, <3>3 DEF Asked
  <2>4. ASSUME j.op = "reset_ptp", j.at \in {"switch", "validate", "motion", "back"}
        PROVE  AtMostOne(j.seen)
    <3>1. \/ j.seen = Active
          \/ /\ job[t].op = "reset_ptp" /\ j.seen = job[t].seen
             /\ job[t].at \in {"switch", "validate", "motion"}
      BY <2>4 DEF Read
    <3> QED BY <2>0, <3>1 DEF Orderly
  <2>5. \A u \in Threads :
          /\ job'[u].op = "reset_ptp" /\ job'[u].at \in {"switch", "validate", "motion", "back"}
          => AtMostOne(job'[u].seen)
    BY <1>1, <1>2, <2>4
  <2> QED BY <2>1, <2>2, <2>3, <2>5 DEF Orderly, AtMostOne
<1> QED BY <1>3, <1>4, <1>5 DEF ArmInv

\* A request arrives when, unless all overlap, no other is served.
LEMMA ArmArrival ==
  ASSUME TypeInv, ArmInv, NEW t \in Handlers, NEW j, Arrived(t, j)
  PROVE  ArmInv'
<1>0. /\ UNCHANGED <<mode, pose, ctrl, late>> /\ Active' = Active /\ t \in Threads
      /\ j.at = Begin(j.op) /\ j.op \in Allowed
  BY DEF Arrived, Active, Threads
<1>1. job'[t] = j /\ \A u \in Threads : u # t => job'[u] = job[u]
  BY <1>0, OneJob DEF Arrived, TypeInv
<1>2. mode # "overlap" => \A u \in Threads : u # t => job'[u].at = "idle"
  BY <1>1 DEF Arrived
<1>3. Quiet'
  BY <1>0, <1>2 DEF ArmInv, Quiet
<1>4. /\ j.at \notin {"validate", "motion", "back"}
      /\ j.at = "switch" => j.op = "stopimp"
      /\ j.op # "pose_fallback"
      /\ mode = "orderly" => j.op # "reset_controller"
  BY <1>0 DEF Begin, Allowed, Requests
<1>5. Fresh'
  <2> SUFFICES ASSUME mode \in {"orderly", "serial"}, NEW u \in Threads
               PROVE  \/ job'[u].at \notin {"switch", "validate", "motion", "back"}
                      \/ job'[u].at = "switch" /\ job'[u].op = "stopimp"
    BY <1>0 DEF Fresh
  <2> QED BY <1>1, <1>2, <1>4
<1>6. Orderly'
  <2> SUFFICES ASSUME mode = "orderly" PROVE Orderly'
    BY <1>0 DEF Orderly
  <2>1. pose' # "fallback" /\ AtMostOne(Active)'
    BY <1>0 DEF ArmInv, Orderly, AtMostOne
  <2>2. \A u \in Threads : job'[u].op \notin {"pose_fallback", "reset_controller"}
    BY <1>1, <1>4 DEF ArmInv, Orderly
  <2>3. \A u \in Threads :
          ~(job'[u].op = "reset_ptp" /\ job'[u].at \in {"switch", "validate", "motion", "back"})
    BY <1>1, <1>2, <1>4
  <2> QED BY <2>1, <2>2, <2>3 DEF Orderly
<1> QED BY <1>3, <1>5, <1>6 DEF ArmInv

\* The invariant of the arm controllers is inductive.
LEMMA ArmNext ==
  ASSUME TypeInv, ArmInv, [Next]_vars
  PROVE  ArmInv'
<1>1. CASE ServeLate
  <2>1. /\ late # {} /\ late' \subseteq late /\ UNCHANGED <<mode, pose, job>>
    BY <1>1 DEF ServeLate
  <2>2. mode \notin {"orderly", "serial"}
    BY <2>1 DEF ArmInv, Quiet
  <2> QED BY <2>1, <2>2 DEF ArmInv, Quiet, Fresh, Orderly
<1>2. CASE Spawn
  <2>1. UNCHANGED <<mode, pose, job, late>>
    BY <1>2 DEF Spawn
  <2>2. Active' = Active
    BY <1>2 DEF Spawn, TypeInv, CtrlType, Active, Controllers
  <2> QED BY <2>1, <2>2 DEF ArmInv, Quiet, Fresh, Orderly, AtMostOne
<1>3. CASE UNCHANGED vars
  <2>1. UNCHANGED <<mode, pose, job, late, Active>>
    BY <1>3 DEF vars, Active
  <2> QED BY <2>1 DEF ArmInv, Quiet, Fresh, Orderly, AtMostOne
<1> QED BY <1>1, <1>2, <1>3, NextCases, ArmStep, ArmArrival DEF TypeInv

\* Requests that do not overlap, whose responses come in time, and that use
\* neither the fallback nor use_controller, leave at most one arm controller
\* active; and during the motion of a PTP reset none is but the precise one.
\* Whatever fails, whenever the spawner runs, and for any number of threads.
THEOREM OneArm == Spec => []OneArmController
<1>1. ArmInv => OneArmController
  <2> SUFFICES ASSUME ArmInv PROVE OneArmController
    OBVIOUS
  <2>1. mode = "orderly" => Cardinality(Active) <= 1
    <3>1. CASE Active = {}
      BY <3>1, FS_EmptySet
    <3>2. CASE Active # {} /\ mode = "orderly"
      <4>1. PICK c \in Active : TRUE
        BY <3>2
      <4>2. Active = {c}
        BY <3>2, <4>1 DEF ArmInv, Orderly, AtMostOne
      <4> QED BY <4>2, FS_Singleton
    <3> QED BY <3>1, <3>2
  <2>2. \A t \in Threads :
          mode \in {"orderly", "serial"} /\ job[t].op = "reset_ptp" /\ job[t].at = "motion"
            => Active \subseteq {Precise}
    BY DEF ArmInv, Fresh
  <2> QED BY <2>1, <2>2 DEF OneArmController
<1> QED BY <1>1, ArmInit, ArmNext, TypeInit, TypeNext, PTL DEF Spec
=============================================================================
