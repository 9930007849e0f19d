------------------------- MODULE HardwareInterface -------------------------
(***************************************************************************)
(* franka_hardware::FrankaHardwareInterface, the ros2_control plugin that  *)
(* turns claimed command interfaces into one libfranka control session.    *)
(*                                                                         *)
(* Two threads act on it.  The realtime (RT) thread runs the cycle read -  *)
(* controllers' update - write; the switch thread (SW) runs                *)
(* prepare_command_mode_switch and perform_command_mode_switch.  None of   *)
(* the members they share is atomic or locked, so every check and every    *)
(* later use of what it checked are separate steps; assignments in a row   *)
(* that nobody reads in between are one.  With Overlap = FALSE the         *)
(* controller manager runs perform_command_mode_switch inside its own      *)
(* update, between a read and the next write; with Overlap = TRUE it runs  *)
(* beside the RT thread, as the comments in the source expect.             *)
(*                                                                         *)
(* The controller manager and the controllers are external: which          *)
(* controllers are active, what a switch requests, what a controller       *)
(* writes, and that an ERROR of read or write takes the component and its  *)
(* controllers down.                                                       *)
(***************************************************************************)
EXTENDS Robot

CONSTANTS
  Controllers,  \* the controllers that may be loaded
  Claims,       \* Claims[c]: the interface types controller c claims
  Partial,      \* Partial[c]: those of them it claims only some of the indices of
  Overlap,      \* may perform_command_mode_switch run beside read and write?
  Faults        \* may sessions fail to start, be aborted, or commands be non-finite?

\* The command interface types, in the order prepare goes through them
\* (command_interfaces_info_).
InterfaceOrder == <<"effort", "velocity", "position", "elbow_command",
                    "cartesian_velocity", "cartesian_pose_command">>
Interfaces == {"effort", "velocity", "position", "elbow_command",
               "cartesian_velocity", "cartesian_pose_command"}

ASSUME ClaimsType == Claims \in [Controllers -> SUBSET Interfaces]
ASSUME PartialType == Partial \in [Controllers -> SUBSET Interfaces]
ASSUME PartialClaims == \A c \in Controllers : Partial[c] \subseteq Claims[c]
ASSUME FlagsType == Overlap \in BOOLEAN /\ Faults \in BOOLEAN

VARIABLES
  hw,       \* lifecycle of the component: "inactive", "active" or "error"
  mode,     \* active_mode_
  needs,    \* needs_initial_command_
  claimed,  \* interface types whose *_claimed_ flag is true
  fresh,    \* command vectors written since the session was started
  nan,      \* command vectors holding a non-finite number
  rt,       \* program counter of the RT thread
  rtMode,   \* the mode the RT thread sampled
  rtKind,   \* the branch writeOnce chose
  sw,       \* program counter of the switch thread
  desired,  \* local variable of perform_command_mode_switch
  target,   \* controllers that will be active after the pending switch
  active,   \* active controllers (external)
  frame     \* last command handed to libfranka in this cycle

hwVars == <<hw, mode, needs, claimed, fresh, nan>>
rtVars == <<rt, rtMode, rtKind, frame>>
swVars == <<sw, desired, target, active>>
vars == <<robotVars, hwVars, rtVars, swVars>>

-----------------------------------------------------------------------------
(* ControlInterface and what the switch statements over it do. *)

Modes == {"None", "Effort", "JointVelocity", "JointPosition",
          "CartesianVelocity", "CartesianVelocityWithElbow",
          "CartesianPose", "CartesianPoseWithElbow"}

WithElbow == {"CartesianVelocityWithElbow", "CartesianPoseWithElbow"}

\* The initialize...Interface a mode calls.
KindOf(m) ==
  CASE m = "CartesianVelocityWithElbow" -> "CartesianVelocity"
    [] m = "CartesianPoseWithElbow"     -> "CartesianPose"
    [] OTHER                            -> m

\* The command vector write() passes on in a mode, besides the elbow.
MainVector(m) ==
  CASE m = "Effort"                     -> "effort"
    [] m = "JointVelocity"              -> "velocity"
    [] m = "JointPosition"              -> "position"
    [] KindOf(m) = "CartesianVelocity"  -> "cartesian_velocity"
    [] OTHER                            -> "cartesian_pose_command"

SizeOf(m) ==
  CASE KindOf(m) \in JointKinds         -> 7
    [] KindOf(m) = "CartesianVelocity"  -> 6
    [] OTHER                            -> 16

Vectors(m) ==
  {MainVector(m)} \cup (IF m \in WithElbow THEN {"elbow_command"} ELSE {})

\* Modes whose main vector perform_command_mode_switch fills with zeros.
ZeroFilled == {"Effort", "JointVelocity", "CartesianVelocity",
               "CartesianVelocityWithElbow"}

Zeroed(m) == IF m \in ZeroFilled THEN {MainVector(m)} ELSE {}

\* The vectors initializePositionCommands copies from the measured state.
Measured(m) == IF m = "None" THEN {} ELSE Vectors(m) \ Zeroed(m)

\* Mutant of NeedsInitial: CartesianPose was forgotten.
NeedsInitialJointOnly(m) == m \in WithElbow \cup {"JointPosition"}

\* needs_initial_command_ after the switch into a mode.
NeedsInitial(m) == m \notin {"Effort", "JointVelocity", "CartesianVelocity"}

\* The mode perform_command_mode_switch derives from the claim flags.
DesiredMode(c) ==
  IF "effort" \in c THEN "Effort"
  ELSE IF "velocity" \in c THEN "JointVelocity"
  ELSE IF "position" \in c THEN "JointPosition"
  ELSE IF "cartesian_pose_command" \in c
    THEN IF "elbow_command" \in c THEN "CartesianPoseWithElbow" ELSE "CartesianPose"
  ELSE IF "cartesian_velocity" \in c
    THEN IF "elbow_command" \in c THEN "CartesianVelocityWithElbow" ELSE "CartesianVelocity"
  ELSE "None"

LoneElbow(c) ==
  "elbow_command" \in c /\ c \cap {"cartesian_velocity", "cartesian_pose_command"} = {}

\* Interface types held by a set of controllers.
Held(cs) == UNION {Claims[c] : c \in cs}

NoFrame == [mode |-> "None", kind |-> "None", session |-> "None", stale |-> {}]

-----------------------------------------------------------------------------
Init ==
  /\ RobotInit
  /\ hw = "inactive" /\ mode = "None" /\ needs = TRUE
  /\ claimed = {} /\ fresh = {} /\ nan = {}
  /\ rt = "idle" /\ rtMode = "None" /\ rtKind = "None" /\ frame = NoFrame
  /\ sw = "idle" /\ desired = "None" /\ target = {} /\ active = {}

(* Scheduling: who may move.  Unless Overlap, the manager's update runs the *)
(* prepared switch before the controllers.  A request that arrives while    *)
(* the update runs is left to the next one.                                 *)
Performing == sw \notin {"idle", "prepared"}
RTMayRun == Overlap \/ ~Performing
MayPrepare == Overlap \/ rt # "update"
MayPerform == Overlap \/ rt = "update"
MayUpdate == Overlap \/ sw = "idle"

-----------------------------------------------------------------------------
(* Lifecycle callbacks, called by the controller manager's service thread   *)
(* while the component is not being read or written.                        *)

\* on_activate: the mode fields are reset, the claim flags and the session
\* are not.  The result of the read() inside is ignored: it only drops the
\* session when libfranka throws ControlException, and with mode None it
\* initializes no command.
OnActivate ==
  /\ hw # "active" /\ rt = "idle" /\ sw = "idle"
  /\ hw' = "active"
  /\ mode' = "None"
  /\ needs' = TRUE
  /\ \/ UNCHANGED robotVars
     \/ Faults /\ session # None /\ StopRobot
  /\ UNCHANGED <<claimed, fresh, nan, rtVars, swVars>>

\* on_deactivate.  The manager has deactivated the controllers before.
OnDeactivate ==
  /\ hw = "active" /\ rt = "idle" /\ sw = "idle" /\ active = {}
  /\ StopRobot
  /\ hw' = "inactive"
  /\ mode' = "None"
  /\ needs' = TRUE
  /\ UNCHANGED <<claimed, fresh, nan, rtVars, swVars>>

-----------------------------------------------------------------------------
(* The RT thread: read().                                                   *)

RTGoto(pc) == rt' = pc /\ UNCHANGED <<rtMode, rtKind, frame>>

\* read or write returned ERROR: the manager takes the component and every
\* controller down without a mode switch.
RTError ==
  /\ rt' = "idle"
  /\ rtMode' = "None" /\ rtKind' = "None" /\ frame' = NoFrame
  /\ hw' = "error"
  /\ active' = {}
  /\ UNCHANGED <<mode, needs, claimed, fresh, nan, sw, desired, target>>

\* Robot::readOnce tests active_control_ ...
RTReadCheck ==
  /\ rt = "idle" /\ hw = "active" /\ RTMayRun
  /\ rt' = IF session = None THEN "readRobot" ELSE "readSession"
  /\ frame' = NoFrame
  /\ UNCHANGED <<robotVars, hwVars, rtMode, rtKind, swVars>>

\* ... and reads through the connection, or through the session, which may
\* be gone by then (a null unique_ptr is dereferenced).
RTReadState ==
  /\ RTMayRun
  /\ \/ rt = "readRobot" /\ RTGoto("init")
     \/ rt = "readSession" /\ session # None /\ RTGoto("init")
     \/ rt = "readSession" /\ session = None /\ RTGoto("nullptr")
  /\ UNCHANGED <<robotVars, hwVars, swVars>>

\* The session was aborted by the robot: ControlException, caught by read(),
\* which calls stopRobot and returns ERROR.
RTReadThrows ==
  /\ Faults /\ RTMayRun
  /\ rt = "readSession" /\ session # None
  /\ RTGoto("stopFlags")
  /\ UNCHANGED <<robotVars, hwVars, swVars>>

RTStopFlags ==
  /\ rt = "stopFlags" /\ RTMayRun
  /\ session # None
  /\ StopClearFlags
  /\ RTGoto("stopSession")
  /\ UNCHANGED <<hwVars, swVars>>

\* The switch thread stopped the session first: stopRobot does nothing.
RTStopNothing ==
  /\ rt = "stopFlags" /\ RTMayRun
  /\ session = None
  /\ RTError
  /\ UNCHANGED robotVars

RTStopSession ==
  /\ rt = "stopSession" /\ RTMayRun
  /\ StopDropSession
  /\ RTError

\* initializePositionCommands: the early return, ...
RTInitCheck ==
  /\ rt = "init" /\ RTMayRun
  /\ \/ needs /\ mode # "None" /\ rt' = "copy" /\ rtMode' = mode
     \/ ~(needs /\ mode # "None") /\ rt' = "update" /\ UNCHANGED rtMode
  /\ UNCHANGED <<robotVars, hwVars, rtKind, frame, swVars>>

\* Mutant of RTInitCopy: needs_initial_command_ stays true.
RTInitCopyKeepsNeeds ==
  /\ rt = "copy" /\ RTMayRun
  /\ fresh' = fresh \cup Measured(rtMode)
  /\ nan' = nan \ Measured(rtMode)
  /\ rt' = "update" /\ rtMode' = "None"
  /\ UNCHANGED <<robotVars, hw, mode, needs, claimed, rtKind, frame, swVars>>

\* ... then the measured state is copied into the vectors of the mode.
RTInitCopy ==
  /\ rt = "copy" /\ RTMayRun
  /\ fresh' = fresh \cup Measured(rtMode)
  /\ nan' = nan \ Measured(rtMode)
  /\ needs' = FALSE
  /\ rt' = "update" /\ rtMode' = "None"
  /\ UNCHANGED <<robotVars, hw, mode, claimed, rtKind, frame, swVars>>

-----------------------------------------------------------------------------
(* The RT thread: the controllers' update (external), then write().         *)

\* Some of the active controllers write all the vectors they hold; a faulty
\* one writes a non-finite number.
RTUpdate ==
  /\ rt = "update" /\ MayUpdate
  /\ \E cs \in SUBSET active, bad \in SUBSET active :
       /\ bad \subseteq cs
       /\ ~Faults => bad = {}
       /\ fresh' = fresh \cup Held(cs)
       /\ nan' = (nan \ Held(cs)) \cup Held(bad)
  /\ RTGoto("write")
  /\ UNCHANGED <<robotVars, hw, mode, needs, claimed, swVars>>

\* A non-finite number in any vector, whatever the mode: ERROR.
RTWriteInfinite ==
  /\ rt = "write" /\ RTMayRun
  /\ nan # {}
  /\ RTError
  /\ UNCHANGED robotVars

\* Mutant of RTWriteCheck: needs_initial_command_ is not looked at.
RTWriteCheckNanOnly ==
  /\ rt = "write" /\ RTMayRun
  /\ nan = {}
  /\ RTGoto("select")
  /\ UNCHANGED <<robotVars, hwVars, swVars>>

\* needs_initial_command_: nothing is written yet.
RTWriteCheck ==
  /\ rt = "write" /\ RTMayRun
  /\ nan = {}
  /\ RTGoto(IF needs THEN "idle" ELSE "select")
  /\ UNCHANGED <<robotVars, hwVars, swVars>>

\* The switch over active_mode_ selects the vectors to pass on, if any.
RTWriteSelect ==
  /\ rt = "select" /\ RTMayRun
  /\ rt' = IF mode = "None" THEN "idle" ELSE "writeOnce"
  /\ rtMode' = mode
  /\ UNCHANGED <<robotVars, hwVars, rtKind, frame, swVars>>

\* Robot::writeOnce without a session: std::runtime_error, which write()
\* logs as a warning.
RTWriteOnceNoSession ==
  /\ rt = "writeOnce" /\ RTMayRun
  /\ session = None
  /\ rt' = "idle" /\ rtMode' = "None"
  /\ UNCHANGED <<robotVars, hwVars, rtKind, frame, swVars>>

\* Robot::writeOnce with a session: the flags choose the branch; when none
\* fits, std::invalid_argument leaves write() uncaught.
RTWriteOnceDispatch ==
  /\ rt = "writeOnce" /\ RTMayRun
  /\ session # None
  /\ LET kind == Dispatch(SizeOf(rtMode), rtMode \in WithElbow)
     IN  IF kind = "invalid"
           THEN RTGoto("uncaught")
           ELSE /\ rt' = "send" /\ rtKind' = kind
                /\ UNCHANGED <<rtMode, frame>>
  /\ UNCHANGED <<robotVars, hwVars, swVars>>

\* The chosen branch hands the command to the session, through a pointer
\* that may be null by now.  A session of another kind refuses the command
\* with a franka exception, which write() logs as a warning.
RTSend ==
  /\ rt = "send" /\ RTMayRun
  /\ IF session = None
       THEN RTGoto("nullptr")
       ELSE /\ rt' = "idle" /\ rtMode' = "None" /\ rtKind' = "None"
            /\ frame' = [mode |-> rtMode, kind |-> rtKind, session |-> session,
                         stale |-> Vectors(rtMode) \ fresh]
  /\ UNCHANGED <<robotVars, hwVars, swVars>>

RTNext ==
  \/ RTReadCheck \/ RTReadState \/ RTReadThrows
  \/ RTStopFlags \/ RTStopNothing \/ RTStopSession
  \/ RTInitCheck \/ RTInitCopy \/ RTUpdate
  \/ RTWriteInfinite \/ RTWriteCheck \/ RTWriteSelect
  \/ RTWriteOnceNoSession \/ RTWriteOnceDispatch \/ RTSend

-----------------------------------------------------------------------------
(* The switch thread: prepare_command_mode_switch.                          *)

\* Interface types before t in InterfaceOrder.
Before(t) ==
  LET Pos(u) == CHOOSE i \in DOMAIN InterfaceOrder : InterfaceOrder[i] = u
  IN  {u \in Interfaces : Pos(u) < Pos(t)}

\* The first type, in order, that the request does not cover completely.
FirstPartial(types) ==
  CHOOSE t \in types : types \cap Before(t) = {}

\* The requests a manager makes: stop some active controllers, start some
\* inactive ones, and never let two active controllers share an interface.
Request(stop, start) ==
  /\ stop \subseteq active
  /\ start \subseteq Controllers \ active
  /\ stop \cup start # {}
  /\ \A c \in start, d \in (active \ stop) \cup start :
       c # d => Claims[c] \cap Claims[d] = {}

\* Mutant of Reclaimed: the two assignments swapped.
ReclaimedStartFirst(stop, start) == (claimed \cup Held(start)) \ Held(stop)

\* The claim flags after a request: each type's stop comes before its start.
Reclaimed(stop, start) == (claimed \ Held(stop)) \cup Held(start)

\* All types are covered: every claim flag is updated.
Prepare ==
  /\ sw = "idle" /\ hw = "active" /\ MayPrepare
  /\ \E stop, start \in SUBSET Controllers :
       /\ Request(stop, start)
       /\ Held(start) # Interfaces
       /\ UNION {Partial[c] : c \in start} = {}
       /\ claimed' = Reclaimed(stop, start)
       /\ target' = (active \ stop) \cup start
  /\ sw' = "prepared"
  /\ UNCHANGED <<robotVars, hw, mode, needs, fresh, nan, rtVars, desired, active>>

\* A type is covered in part: the flags of the types before it are already
\* changed (and its own, if it was also stopped) when the exception leaves.
\* The manager drops the request.
PrepareThrows ==
  /\ sw = "idle" /\ hw = "active" /\ MayPrepare
  /\ \E stop, start \in SUBSET Controllers :
       /\ Request(stop, start)
       /\ LET partial == UNION {Partial[c] : c \in start}
              t == FirstPartial(partial)
          IN  /\ partial # {}
              /\ claimed' = (claimed \ (Held(stop) \cap (Before(t) \cup {t})))
                              \cup (Held(start) \cap Before(t))
  /\ UNCHANGED <<robotVars, hw, mode, needs, fresh, nan, rtVars, swVars>>

-----------------------------------------------------------------------------
(* The switch thread: perform_command_mode_switch.                          *)

SWFinish(controllers) ==
  /\ sw' = "idle" /\ desired' = "None" /\ target' = {}
  /\ active' = IF hw = "active" THEN controllers ELSE {}

\* The component went down between prepare and perform.
SWAbandon ==
  /\ sw = "prepared" /\ hw # "active"
  /\ SWFinish(active)
  /\ UNCHANGED <<robotVars, hwVars, rtVars>>

\* An elbow without a Cartesian interface: ERROR.  The manager may or may
\* not go on with the controllers.
SWRefuseElbow ==
  /\ sw = "prepared" /\ hw = "active" /\ MayPerform
  /\ LoneElbow(claimed)
  /\ \/ SWFinish(target)
     \/ SWFinish(active)
  /\ UNCHANGED <<robotVars, hwVars, rtVars>>

\* The mode stays what it is.
SWSameMode ==
  /\ sw = "prepared" /\ hw = "active" /\ MayPerform
  /\ ~LoneElbow(claimed)
  /\ DesiredMode(claimed) = mode
  /\ SWFinish(target)
  /\ UNCHANGED <<robotVars, hwVars, rtVars>>

\* Mode None first, so that write() skips, and then stopRobot.
SWLeaveMode ==
  /\ sw = "prepared" /\ hw = "active" /\ MayPerform
  /\ ~LoneElbow(claimed)
  /\ DesiredMode(claimed) # mode
  /\ mode' = "None"
  /\ needs' = TRUE
  /\ desired' = DesiredMode(claimed)
  /\ sw' = "stopFlags"
  /\ UNCHANGED <<robotVars, hw, claimed, fresh, nan, rtVars, target, active>>

SWStopFlags ==
  /\ sw = "stopFlags"
  /\ StopClearFlags
  /\ sw' = "stopSession"
  /\ UNCHANGED <<hwVars, rtVars, desired, target, active>>

SWStopSession ==
  /\ sw = "stopSession"
  /\ StopDropSession
  /\ sw' = IF desired = "None" THEN "publish" ELSE "start"
  /\ UNCHANGED <<hwVars, rtVars, desired, target, active>>

\* The command vector is zeroed where the mode needs it, then the session
\* is started.  fresh forgets what was written for the session before.
SWStart ==
  /\ sw = "start"
  /\ StartSession(KindOf(desired))
  /\ fresh' = Zeroed(desired)
  /\ nan' = nan \ Zeroed(desired)
  /\ sw' = "flag"
  /\ UNCHANGED <<hw, mode, needs, claimed, rtVars, desired, target, active>>

\* Recovery did not help: the exception leaves perform_command_mode_switch.
SWStartThrows ==
  /\ Faults /\ sw = "start"
  /\ nan' = nan \ Zeroed(desired)
  /\ \/ SWFinish(target)
     \/ SWFinish(active)
  /\ UNCHANGED <<robotVars, hw, mode, needs, claimed, fresh, rtVars>>

SWRaiseFlag ==
  /\ sw = "flag"
  /\ RaiseFlag(KindOf(desired))
  /\ needs' = NeedsInitial(desired)
  /\ sw' = "publish"
  /\ UNCHANGED <<hw, mode, claimed, fresh, nan, rtVars, desired, target, active>>

SWPublish ==
  /\ sw = "publish"
  /\ mode' = desired
  /\ needs' = (needs \/ desired = "None")
  /\ SWFinish(target)
  /\ UNCHANGED <<robotVars, hw, claimed, fresh, nan, rtVars>>

\* perform_command_mode_switch never waits for anything.
Perform ==
  \/ SWAbandon \/ SWRefuseElbow \/ SWSameMode \/ SWLeaveMode
  \/ SWStopFlags \/ SWStopSession \/ SWStart \/ SWStartThrows
  \/ SWRaiseFlag \/ SWPublish

Next == OnActivate \/ OnDeactivate \/ RTNext \/ Prepare \/ PrepareThrows \/ Perform

\* The RT loop is periodic, and a switch that was prepared is performed.
\* Nothing obliges the manager to request a switch, or to reactivate.
Fairness == WF_vars(RTNext) /\ WF_vars(Perform)

Spec == Init /\ [][Next]_vars /\ Fairness

-----------------------------------------------------------------------------
(* Properties.                                                              *)

\* Every variable has its type.
TypeOK ==
  /\ RobotTypeOK
  /\ hw \in {"inactive", "active", "error"}
  /\ mode \in Modes /\ rtMode \in Modes /\ desired \in Modes
  /\ needs \in BOOLEAN
  /\ claimed \in SUBSET Interfaces
  /\ fresh \in SUBSET Interfaces /\ nan \in SUBSET Interfaces
  /\ rt \in {"idle", "readRobot", "readSession", "stopFlags", "stopSession", "init",
              "copy", "update", "write", "select", "writeOnce", "send", "nullptr", "uncaught"}
  /\ rtKind \in Kinds \cup {None}
  /\ sw \in {"idle", "prepared", "stopFlags", "stopSession", "start", "flag", "publish"}
  /\ target \in SUBSET Controllers /\ active \in SUBSET Controllers
  /\ frame \in [mode : Modes, kind : Kinds \cup {None},
                session : Kinds \cup {None}, stale : SUBSET Interfaces]

\* Between switches the mode the component serves is the one the active
\* controllers need (perform_command_mode_switch with the claim flags of
\* prepare_command_mode_switch), and a command carries only vectors they hold.
ModeServesControllers ==
  /\ hw = "active" /\ ~Performing /\ sw = "idle" => mode = DesiredMode(Held(active))
  /\ frame # NoFrame /\ ~Performing => Vectors(frame.mode) \subseteq Held(active)

\* A command reaches libfranka through the session of the mode whose vectors
\* it carries: the mode, the flags writeOnce goes by and the session agree.
FrameMatchesSession ==
  frame # NoFrame => /\ frame.kind = frame.session
                     /\ frame.kind = KindOf(frame.mode)

\* No command carries a vector last written before its session was started:
\* the needs_initial_command_ handshake and the zero fill.
FrameInitialized == frame.stale = {}

\* The RT thread never dereferences a null session and no exception leaves
\* write().
RTSurvives == rt \notin {"nullptr", "uncaught"}

\* A session is started only after the previous one was dropped.
SessionsDoNotOverlap == [][session' # session => None \in {session, session'}]_session

\* What the interface promises to libfranka.  A command is whole when all the
\* vectors of the mode were written since the session was started.
Control == INSTANCE ControlSession WITH
  kind <- session,
  ready <- session # None /\ mode # "None" /\ Vectors(mode) \subseteq fresh,
  sent <- frame.kind

\* When the switch runs inside the manager's update, read, write and the mode
\* switch keep that promise together: no step of theirs opens a second session,
\* or sends a command that is not of the session's kind, not whole, or not the
\* only one of its cycle.
ImplementsControlSession == Control!Spec

\* Once a mode is entered its commands reach the robot, unless the mode is
\* left or the component goes down.
CommandsFlow ==
  \A m \in Modes \ {"None"} :
    mode = m ~> (rt = "send" /\ rtMode = m) \/ mode # m \/ hw # "active"

(* What the tests say of a switch beside the RT thread.                     *)

\* Test givenOnActivateCalled_whenPositionModeStarted...: a command the
\* session accepts is never one written before the session was started.
AcceptedFrameInitialized == frame.kind = frame.session => frame.stale = {}

-----------------------------------------------------------------------------
(* The inductive invariant of the proofs, for Overlap = FALSE.              *)

\* What each step of perform_command_mode_switch has established.
SwitchInv ==
  /\ Performing => rt = "update" /\ hw = "active" /\ mode = "None"
  /\ sw = "stopSession" => flags = {}
  /\ sw = "start" => session = None /\ flags = {} /\ desired # "None"
  /\ sw = "flag" => /\ desired # "None" /\ session = KindOf(desired) /\ flags = {}
                    /\ Zeroed(desired) \subseteq fresh
  /\ sw = "publish" /\ desired # "None" =>
       /\ session = KindOf(desired)
       /\ Zeroed(desired) \subseteq fresh
       /\ needs = NeedsInitial(desired)

\* Between switches an active component has the session of its mode, and
\* once needs_initial_command_ is cleared its vectors were all written.
ModeInv ==
  /\ sw \notin {"stopSession", "flag"} /\ rt # "stopSession" => FlagsMatchSession
  /\ rt = "stopSession" => flags = {}
  /\ hw = "active" /\ mode # "None" =>
       /\ session = KindOf(mode)
       /\ Zeroed(mode) \subseteq fresh
       /\ ~needs => Measured(mode) \subseteq fresh

\* What the RT thread sampled is still so.
RTInv ==
  /\ rt # "idle" => hw = "active"
  /\ rt \in {"readSession", "stopFlags"} => session # None
  /\ rt = "copy" => rtMode = mode /\ mode # "None"
  /\ rt = "select" => ~needs
  /\ rt \in {"writeOnce", "send"} => rtMode = mode /\ mode # "None" /\ ~needs
  /\ rt = "send" => rtKind = KindOf(mode)
  /\ RTSurvives

SerialInv == SwitchInv /\ ModeInv /\ RTInv /\ FrameMatchesSession /\ FrameInitialized

\* Controllers that claim whole types, and the elbow only beside a Cartesian
\* interface: requests the component never refuses.
WellFormedClaims ==
  \A c \in Controllers :
    /\ Partial[c] = {}
    /\ "elbow_command" \in Claims[c] =>
         Claims[c] \cap {"cartesian_velocity", "cartesian_pose_command"} # {}

\* No interface type is held twice.
Exclusive(cs) == \A c, d \in cs : c # d => Claims[c] \cap Claims[d] = {}

\* The controllers the claim flags stand for.
Claimants == IF sw = "idle" THEN active ELSE target

\* With well-formed claims and no faults: the claim flags follow the
\* requests, and the mode follows the claim flags.
ServeInv ==
  /\ nan = {} /\ hw # "error" /\ rt \notin {"stopFlags", "stopSession"}
  /\ hw = "inactive" => sw = "idle" /\ active = {} /\ mode = "None"
  /\ Exclusive(active) /\ Exclusive(Claimants)
  /\ claimed = Held(Claimants)
  /\ Performing => desired = DesiredMode(claimed)
  /\ ~Performing => mode = DesiredMode(Held(active))
  /\ rt # "idle" => frame = NoFrame
  /\ frame # NoFrame => Vectors(frame.mode) \subseteq Held(active)
=============================================================================
