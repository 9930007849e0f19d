---------------------- MODULE HardwareInterfaceProofs ----------------------
(***************************************************************************)
(* Proofs about HardwareInterface: type correctness for any scheduling of  *)
(* the two threads, and the safety of what reaches libfranka when the mode *)
(* switch runs inside the manager's update (Overlap = FALSE).              *)
(***************************************************************************)
EXTENDS HardwareInterface, TLAPS

-----------------------------------------------------------------------------
(* Facts about the tables of modes.                                         *)

\* Every mode but None has one of the five kinds of session.
LEMMA KindOfMode ==
  ASSUME NEW m \in Modes, m # "None"
  PROVE  KindOf(m) \in Kinds /\ KindOf(m) # None
BY DEF Modes, Kinds, JointKinds, KindOf, None

\* The claim flags always lead to a mode.
LEMMA DesiredModeType ==
  ASSUME NEW c \in SUBSET Interfaces
  PROVE  DesiredMode(c) \in Modes
BY DEF DesiredMode, Modes

\* The vectors of a mode are command vectors, and each of them is either
\* zeroed at the switch or copied from the measured state.
LEMMA VectorsOfMode ==
  ASSUME NEW m \in Modes
  PROVE  /\ Vectors(m) \subseteq Interfaces
         /\ Zeroed(m) \subseteq Interfaces
         /\ Measured(m) \subseteq Interfaces
         /\ m # "None" => Vectors(m) \subseteq Zeroed(m) \cup Measured(m)
BY DEF Modes, Vectors, MainVector, Zeroed, Measured, ZeroFilled, WithElbow,
       KindOf, Interfaces

\* A mode that does not wait for an initial command copies nothing.
LEMMA NothingToMeasure ==
  ASSUME NEW m \in Modes, ~NeedsInitial(m)
  PROVE  Measured(m) = {}
BY DEF Modes, NeedsInitial, Measured, Vectors, MainVector, Zeroed, ZeroFilled,
       WithElbow, KindOf

\* With the flag of its own session only, writeOnce sends a mode's command
\* as what it is.
LEMMA DispatchOfMode ==
  ASSUME NEW m \in Modes, m # "None", flags = {KindOf(m)}
  PROVE  Dispatch(SizeOf(m), m \in WithElbow) = KindOf(m)
<1>1. CASE KindOf(m) \in JointKinds
  <2>1. m \notin WithElbow /\ SizeOf(m) = 7
    BY <1>1 DEF KindOf, JointKinds, WithElbow, SizeOf
  <2>2. flags \cap JointKinds # {}
    BY <1>1
  <2>3. JointDispatch = KindOf(m)
    BY <1>1 DEF JointDispatch, JointKinds
  <2> QED BY <2>1, <2>2, <2>3 DEF Dispatch
<1>2. CASE KindOf(m) = "CartesianVelocity"
  <2>1. SizeOf(m) = 6
    BY <1>2 DEF SizeOf, JointKinds
  <2>2. flags \cap JointKinds = {}
    BY <1>2 DEF JointKinds
  <2> QED BY <1>2, <2>1, <2>2 DEF Dispatch
<1>3. CASE KindOf(m) = "CartesianPose"
  <2>1. SizeOf(m) = 16
    BY <1>3 DEF SizeOf, JointKinds
  <2>2. flags \cap JointKinds = {} /\ "CartesianVelocity" \notin flags
    BY <1>3 DEF JointKinds
  <2> QED BY <1>3, <2>1, <2>2 DEF Dispatch
<1> QED BY <1>1, <1>2, <1>3, KindOfMode DEF Kinds

-----------------------------------------------------------------------------
(* Type correctness.                                                        *)

\* What a set of controllers holds are interface types (Claims is what the
\* controllers declare).
LEMMA HeldType ==
  ASSUME NEW cs \in SUBSET Controllers
  PROVE  Held(cs) \in SUBSET Interfaces
BY ClaimsType DEF Held

\* What is left of a request has the right types.
LEMMA FinishType ==
  ASSUME TypeOK, NEW cs \in SUBSET Controllers, SWFinish(cs)
  PROVE  /\ sw' = "idle" /\ desired' \in Modes
         /\ target' \in SUBSET Controllers /\ active' \in SUBSET Controllers
BY DEF SWFinish, Modes

\* TypeOK alone is not inductive: a session is started and its flag raised
\* only for a mode that has one.
TypeInv == TypeOK /\ (sw \in {"start", "flag"} => desired # "None")

\* The component starts with the types right.
LEMMA TypeInit == Init => TypeInv
BY DEF TypeInv, Init, RobotInit, TypeOK, RobotTypeOK, NoFrame, Modes, Kinds, None

\* Each step of the two threads and of the lifecycle keeps the types.
LEMMA TypeNext == TypeInv /\ [Next]_vars => TypeInv'
<1> SUFFICES ASSUME TypeInv, [Next]_vars PROVE TypeInv'
  OBVIOUS
<1> USE DEF TypeInv, TypeOK, RobotTypeOK, robotVars, hwVars, rtVars, swVars
<1>1. CASE OnActivate
  BY <1>1 DEF OnActivate, StopRobot, Modes, None
<1>2. CASE OnDeactivate
  BY <1>2 DEF OnDeactivate, StopRobot, Modes, None
<1>3. CASE RTNext
  <2>1. CASE RTReadCheck
    BY <2>1 DEF RTReadCheck, NoFrame, Modes, None
  <2>2. CASE RTReadState
    BY <2>2 DEF RTReadState, RTGoto
  <2>3. CASE RTReadThrows
    BY <2>3 DEF RTReadThrows, RTGoto
  <2>4. CASE RTStopFlags
    BY <2>4 DEF RTStopFlags, StopClearFlags, RTGoto
  <2>5. CASE RTStopNothing
    BY <2>5 DEF RTStopNothing, RTError, NoFrame, Modes, None
  <2>6. CASE RTStopSession
    BY <2>6 DEF RTStopSession, StopDropSession, RTError, NoFrame, Modes, None
  <2>7. CASE RTInitCheck
    BY <2>7 DEF RTInitCheck
  <2>8. CASE RTInitCopy
    <3>1. Measured(rtMode) \in SUBSET Interfaces
      BY VectorsOfMode
    <3>2. fresh' \in SUBSET Interfaces /\ nan' \in SUBSET Interfaces
      BY <2>8, <3>1 DEF RTInitCopy
    <3>3. rtMode' \in Modes /\ needs' \in BOOLEAN /\ rt' = "update"
      BY <2>8 DEF RTInitCopy, Modes
    <3>4. UNCHANGED <<robotVars, hw, mode, claimed, rtKind, frame, swVars>>
      BY <2>8 DEF RTInitCopy
    <3> QED BY <3>2, <3>3, <3>4
  <2>9. CASE RTUpdate
    BY <2>9, HeldType DEF RTUpdate, RTGoto
  <2>10. CASE RTWriteInfinite
    BY <2>10 DEF RTWriteInfinite, RTError, NoFrame, Modes, None
  <2>11. CASE RTWriteCheck
    BY <2>11 DEF RTWriteCheck, RTGoto
  <2>12. CASE RTWriteSelect
    BY <2>12 DEF RTWriteSelect, Modes
  <2>13. CASE RTWriteOnceNoSession
    BY <2>13 DEF RTWriteOnceNoSession, Modes
  <2>14. CASE RTWriteOnceDispatch
    BY <2>14 DEF RTWriteOnceDispatch, RTGoto, Dispatch, JointDispatch, Kinds, JointKinds
  <2>15. CASE RTSend
    <3>1. Vectors(rtMode) \in SUBSET Interfaces
      BY VectorsOfMode
    <3> QED BY <2>15, <3>1 DEF RTSend, RTGoto, Modes, None
  <2> QED
    BY <1>3, <2>1, <2>2, <2>3, <2>4, <2>5, <2>6, <2>7, <2>8, <2>9, <2>10, <2>11,
       <2>12, <2>13, <2>14, <2>15 DEF RTNext
<1>4. CASE Prepare
  BY <1>4, HeldType DEF Prepare, Reclaimed, Request
<1>5. CASE PrepareThrows
  BY <1>5, HeldType DEF PrepareThrows, Request
<1>6. CASE Perform
  <2>1. CASE SWAbandon
    BY <2>1, FinishType DEF SWAbandon
  <2>2. CASE SWRefuseElbow
    BY <2>2, FinishType DEF SWRefuseElbow
  <2>3. CASE SWSameMode
    BY <2>3, FinishType DEF SWSameMode
  <2>4. CASE SWLeaveMode
    BY <2>4, DesiredModeType DEF SWLeaveMode, Modes
  <2>5. CASE SWStopFlags
    BY <2>5 DEF SWStopFlags, StopClearFlags
  <2>6. CASE SWStopSession
    BY <2>6 DEF SWStopSession, StopDropSession, None
  <2>7. CASE SWStart
    BY <2>7, KindOfMode, VectorsOfMode DEF SWStart, StartSession
  <2>8. CASE SWStartThrows
    BY <2>8, FinishType DEF SWStartThrows
  <2>9. CASE SWRaiseFlag
    BY <2>9, KindOfMode DEF SWRaiseFlag, RaiseFlag, NeedsInitial
  <2>10. CASE SWPublish
    BY <2>10, FinishType DEF SWPublish
  <2> QED
    BY <1>6, <2>1, <2>2, <2>3, <2>4, <2>5, <2>6, <2>7, <2>8, <2>9, <2>10 DEF Perform
<1>7. CASE UNCHANGED vars
  BY <1>7 DEF vars
<1> QED BY <1>1, <1>2, <1>3, <1>4, <1>5, <1>6, <1>7 DEF Next

\* Every variable keeps its type, whatever the controllers claim and however
\* the two threads are scheduled.
THEOREM TypeCorrect == Spec => []TypeOK
<1>1. TypeInv => TypeOK
  BY DEF TypeInv
<1> QED BY <1>1, TypeInit, TypeNext, PTL DEF Spec

-----------------------------------------------------------------------------
(* Safety of the commands when the switch runs inside the update.           *)

\* The invariant holds before the component was ever activated.
LEMMA SerialInit == Init => SerialInv
BY DEF Init, RobotInit, SerialInv, SwitchInv, ModeInv, RTInv, RTSurvives, Performing,
       FlagsMatchSession, FrameMatchesSession, FrameInitialized, NoFrame, None

\* on_activate and on_deactivate leave mode None, about which the invariant
\* says nothing but that flags and session agree.
LEMMA SerialLifecycle ==
  ASSUME Overlap = FALSE, TypeInv, SerialInv, OnActivate \/ OnDeactivate
  PROVE  SerialInv'
<1> USE DEF SerialInv, SwitchInv, ModeInv, RTInv, RTSurvives, Performing,
            FlagsMatchSession, FrameMatchesSession, FrameInitialized,
            robotVars, hwVars, rtVars, swVars
<1>1. CASE OnActivate
  BY <1>1 DEF OnActivate, StopRobot
<1>2. CASE OnDeactivate
  BY <1>2 DEF OnDeactivate, StopRobot
<1> QED BY <1>1, <1>2

\* A down component is out of the reach of every conjunct about the mode.
LEMMA SerialError ==
  ASSUME TypeInv, SerialInv, RTError, ~Performing, FlagsMatchSession'
  PROVE  SerialInv'
BY DEF SerialInv, SwitchInv, ModeInv, RTInv, RTSurvives, Performing,
       FrameMatchesSession, FrameInitialized, RTError, NoFrame

\* read(): the session was there when it is used, and the copy of the measured
\* state completes the vectors of the mode.
LEMMA SerialRead ==
  ASSUME Overlap = FALSE, TypeInv, SerialInv,
         RTReadCheck \/ RTReadState \/ RTReadThrows \/ RTStopFlags
           \/ RTStopNothing \/ RTStopSession \/ RTInitCheck \/ RTInitCopy
  PROVE  SerialInv'
<1> USE DEF RTMayRun, robotVars, hwVars, rtVars, swVars
<1>a. ~Performing
  BY DEF RTReadCheck, RTReadState, RTReadThrows, RTStopFlags, RTStopNothing,
         RTStopSession, RTInitCheck, RTInitCopy
<1>b. FlagsMatchSession \/ rt = "stopSession"
  BY <1>a DEF SerialInv, ModeInv, Performing
<1>1. CASE RTReadCheck
  BY <1>1 DEF RTReadCheck, NoFrame, SerialInv, SwitchInv, ModeInv, RTInv, RTSurvives,
     Performing, FlagsMatchSession, FrameMatchesSession, FrameInitialized
<1>2. CASE RTReadState
  BY <1>2 DEF RTReadState, RTGoto, SerialInv, SwitchInv, ModeInv, RTInv, RTSurvives,
     Performing, FlagsMatchSession, FrameMatchesSession, FrameInitialized
<1>3. CASE RTReadThrows
  BY <1>3 DEF RTReadThrows, RTGoto, SerialInv, SwitchInv, ModeInv, RTInv, RTSurvives,
     Performing, FlagsMatchSession, FrameMatchesSession, FrameInitialized
<1>4. CASE RTStopFlags
  BY <1>4 DEF RTStopFlags, StopClearFlags, RTGoto, SerialInv, SwitchInv, ModeInv, RTInv,
     RTSurvives, Performing, FlagsMatchSession, FrameMatchesSession, FrameInitialized
<1>5. CASE RTStopNothing
  <2>1. FALSE
    BY <1>5 DEF RTStopNothing, SerialInv, RTInv
  <2> QED BY <2>1
<1>6. CASE RTStopSession
  <2>1. FlagsMatchSession'
    BY <1>6 DEF RTStopSession, StopDropSession, SerialInv, ModeInv, FlagsMatchSession
  <2> QED BY <1>6, <1>a, <2>1, SerialError DEF RTStopSession
<1>7. CASE RTInitCheck
  BY <1>7 DEF RTInitCheck, SerialInv, SwitchInv, ModeInv, RTInv, RTSurvives,
     Performing, FlagsMatchSession, FrameMatchesSession, FrameInitialized
<1>8. CASE RTInitCopy
  BY <1>8 DEF RTInitCopy, SerialInv, SwitchInv, ModeInv, RTInv, RTSurvives,
     Performing, FlagsMatchSession, FrameMatchesSession, FrameInitialized
<1> QED BY <1>1, <1>2, <1>3, <1>4, <1>5, <1>6, <1>7, <1>8

\* The controllers' update and write(): the command selected is the one the
\* flags let through, for the session there is.
LEMMA SerialWrite ==
  ASSUME Overlap = FALSE, TypeInv, SerialInv,
         RTUpdate \/ RTWriteInfinite \/ RTWriteCheck \/ RTWriteSelect
           \/ RTWriteOnceNoSession \/ RTWriteOnceDispatch \/ RTSend
  PROVE  SerialInv'
<1> USE DEF RTMayRun, MayUpdate, robotVars, hwVars, rtVars, swVars
<1>a. ~Performing
  BY DEF RTUpdate, RTWriteInfinite, RTWriteCheck, RTWriteSelect, Performing,
         RTWriteOnceNoSession, RTWriteOnceDispatch, RTSend
<1>b. rt # "stopSession" => FlagsMatchSession
  BY <1>a DEF SerialInv, ModeInv, Performing
<1>1. CASE RTUpdate
  BY <1>1 DEF RTUpdate, RTGoto, SerialInv, SwitchInv, ModeInv, RTInv, RTSurvives,
     Performing, FlagsMatchSession, FrameMatchesSession, FrameInitialized
<1>2. CASE RTWriteInfinite
  <2>1. FlagsMatchSession'
    BY <1>2, <1>b DEF RTWriteInfinite, FlagsMatchSession
  <2> QED BY <1>2, <1>a, <2>1, SerialError DEF RTWriteInfinite
<1>3. CASE RTWriteCheck
  BY <1>3 DEF RTWriteCheck, RTGoto, SerialInv, SwitchInv, ModeInv, RTInv, RTSurvives,
     Performing, FlagsMatchSession, FrameMatchesSession, FrameInitialized
<1>4. CASE RTWriteSelect
  BY <1>4 DEF RTWriteSelect, SerialInv, SwitchInv, ModeInv, RTInv, RTSurvives,
     Performing, FlagsMatchSession, FrameMatchesSession, FrameInitialized
<1>5. CASE RTWriteOnceNoSession
  BY <1>5 DEF RTWriteOnceNoSession, SerialInv, SwitchInv, ModeInv, RTInv, RTSurvives,
     Performing, FlagsMatchSession, FrameMatchesSession, FrameInitialized
<1>6. CASE RTWriteOnceDispatch
  <2>1. rtMode = mode /\ mode \in Modes /\ mode # "None" /\ session = KindOf(mode)
    BY <1>6 DEF RTWriteOnceDispatch, SerialInv, ModeInv, RTInv, TypeInv, TypeOK
  <2>2. flags = {KindOf(mode)}
    BY <1>6, <1>b, <2>1 DEF RTWriteOnceDispatch, FlagsMatchSession
  <2>3. Dispatch(SizeOf(rtMode), rtMode \in WithElbow) = KindOf(mode)
    BY <2>1, <2>2, DispatchOfMode
  <2>4. KindOf(mode) # "invalid"
    BY <2>1, KindOfMode DEF Kinds, JointKinds
  <2>5. /\ rt' = "send" /\ rtKind' = KindOf(mode)
        /\ UNCHANGED <<rtMode, frame, robotVars, hwVars, swVars>>
    BY <1>6, <2>3, <2>4 DEF RTWriteOnceDispatch
  <2> QED BY <1>6, <2>5 DEF RTWriteOnceDispatch, SerialInv, SwitchInv, ModeInv, RTInv,
     RTSurvives, Performing, FlagsMatchSession, FrameMatchesSession, FrameInitialized
<1>7. CASE RTSend
  <2>1. /\ rtMode = mode /\ mode \in Modes /\ mode # "None" /\ session = KindOf(mode)
        /\ rtKind = KindOf(mode)
        /\ Zeroed(mode) \cup Measured(mode) \subseteq fresh
    BY <1>7 DEF RTSend, SerialInv, ModeInv, RTInv, TypeInv, TypeOK
  <2>2. Vectors(mode) \subseteq fresh /\ KindOf(mode) # None
    BY <2>1, VectorsOfMode, KindOfMode
  <2>3. /\ rt' = "idle"
        /\ frame' = [mode |-> mode, kind |-> KindOf(mode), session |-> KindOf(mode),
                     stale |-> {}]
        /\ UNCHANGED <<robotVars, hwVars, swVars>>
    BY <1>7, <2>1, <2>2 DEF RTSend
  <2>4. FrameMatchesSession' /\ FrameInitialized'
    BY <2>3 DEF FrameMatchesSession, FrameInitialized
  <2> QED BY <1>7, <2>3, <2>4 DEF RTSend, SerialInv, SwitchInv, ModeInv, RTInv,
     RTSurvives, Performing, FlagsMatchSession
<1> QED BY <1>1, <1>2, <1>3, <1>4, <1>5, <1>6, <1>7

\* prepare_command_mode_switch changes claim flags only, with or without the
\* exception.
LEMMA SerialPrepare ==
  ASSUME Overlap = FALSE, TypeInv, SerialInv, Prepare \/ PrepareThrows
  PROVE  SerialInv'
<1> USE DEF SerialInv, SwitchInv, ModeInv, RTInv, RTSurvives, Performing, MayPrepare,
            FlagsMatchSession, FrameMatchesSession, FrameInitialized,
            robotVars, hwVars, rtVars, swVars
<1>1. CASE Prepare
  BY <1>1 DEF Prepare
<1>2. CASE PrepareThrows
  BY <1>2 DEF PrepareThrows
<1> QED BY <1>1, <1>2

\* perform_command_mode_switch: each step establishes what the next relies on.
LEMMA SerialPerform ==
  ASSUME Overlap = FALSE, TypeInv, SerialInv, Perform
  PROVE  SerialInv'
<1> USE DEF SerialInv, SwitchInv, ModeInv, RTInv, RTSurvives, Performing, MayPerform,
            FlagsMatchSession, FrameMatchesSession, FrameInitialized,
            robotVars, hwVars, rtVars, swVars
<1>1. CASE SWAbandon
  BY <1>1 DEF SWAbandon, SWFinish
<1>2. CASE SWRefuseElbow
  BY <1>2 DEF SWRefuseElbow, SWFinish
<1>3. CASE SWSameMode
  BY <1>3 DEF SWSameMode, SWFinish
<1>4. CASE SWLeaveMode
  BY <1>4 DEF SWLeaveMode
<1>5. CASE SWStopFlags
  BY <1>5 DEF SWStopFlags, StopClearFlags
<1>6. CASE SWStopSession
  BY <1>6 DEF SWStopSession, StopDropSession
<1>7. CASE SWStart
  BY <1>7 DEF SWStart, StartSession
<1>8. CASE SWStartThrows
  BY <1>8 DEF SWStartThrows, SWFinish
<1>9. CASE SWRaiseFlag
  <2>1. KindOf(desired) # None
    BY <1>9, KindOfMode DEF SWRaiseFlag, TypeInv, TypeOK
  <2> QED BY <1>9, <2>1 DEF SWRaiseFlag, RaiseFlag
<1>10. CASE SWPublish
  <2>1. desired # "None" /\ ~NeedsInitial(desired) => Measured(desired) = {}
    BY NothingToMeasure DEF TypeInv, TypeOK
  <2> QED BY <1>10, <2>1 DEF SWPublish, SWFinish
<1> QED BY <1>1, <1>2, <1>3, <1>4, <1>5, <1>6, <1>7, <1>8, <1>9, <1>10 DEF Perform

\* With the switch inside the update, every step preserves the invariant.
LEMMA SerialNext ==
  ASSUME Overlap = FALSE, TypeInv, SerialInv, [Next]_vars
  PROVE  SerialInv'
<1>1. CASE UNCHANGED vars
  BY <1>1 DEF vars, robotVars, hwVars, rtVars, swVars, SerialInv, SwitchInv, ModeInv,
     RTInv, RTSurvives, Performing, FlagsMatchSession, FrameMatchesSession, FrameInitialized
<1> QED BY <1>1, SerialLifecycle, SerialRead, SerialWrite, SerialPrepare, SerialPerform
         DEF Next, RTNext

\* The invariant holds in every state of a component that is switched inside
\* the update.
LEMMA SerialAlways ==
  ASSUME Overlap = FALSE
  PROVE  Spec => [](TypeInv /\ SerialInv)
<1>1. Init => TypeInv /\ SerialInv
  BY TypeInit, SerialInit
<1>2. TypeInv /\ SerialInv /\ [Next]_vars => (TypeInv /\ SerialInv)'
  BY TypeNext, SerialNext
<1> QED BY <1>1, <1>2, PTL DEF Spec

\* With the mode switch inside the manager's update, every command reaches
\* the session it was meant for: whatever controllers are loaded, and with
\* sessions that abort or fail to start.
THEOREM SerialSafety ==
  ASSUME Overlap = FALSE
  PROVE  Spec => []FrameMatchesSession
<1>1. SerialInv => FrameMatchesSession
  BY DEF SerialInv
<1> QED BY <1>1, SerialAlways, PTL

\* And it carries only vectors written since that session was started.
THEOREM SerialInitialized ==
  ASSUME Overlap = FALSE
  PROVE  Spec => []FrameInitialized
<1>1. SerialInv => FrameInitialized
  BY DEF SerialInv
<1> QED BY <1>1, SerialAlways, PTL

\* And the RT thread never meets a null session in readOnce or writeOnce, nor
\* an exception that leaves write().
THEOREM SerialSurvives ==
  ASSUME Overlap = FALSE
  PROVE  Spec => []RTSurvives
<1>1. SerialInv => RTSurvives
  BY DEF SerialInv, RTInv
<1> QED BY <1>1, SerialAlways, PTL

-----------------------------------------------------------------------------
(* One session at a time, however the two threads are scheduled.            *)

\* Between the reset of active_control_ and the initialize... call of the
\* switch nobody else starts a session.
StartInv == sw = "start" => session = None

\* Only the switch thread starts sessions: the RT thread can at most drop one.
LEMMA StartNext == StartInv /\ [Next]_vars => StartInv'
<1> SUFFICES ASSUME StartInv, [Next]_vars PROVE StartInv'
  OBVIOUS
<1> USE DEF StartInv, robotVars, hwVars, rtVars, swVars
<1>1. CASE OnActivate \/ OnDeactivate
  BY <1>1 DEF OnActivate, OnDeactivate, StopRobot
<1>2. CASE RTNext
  BY <1>2 DEF RTNext, RTReadCheck, RTReadState, RTReadThrows, RTStopFlags, StopClearFlags,
     RTStopNothing, RTStopSession, StopDropSession, RTInitCheck, RTInitCopy, RTUpdate,
     RTWriteInfinite, RTWriteCheck, RTWriteSelect, RTWriteOnceNoSession,
     RTWriteOnceDispatch, RTSend, RTError, RTGoto
<1>3. CASE Prepare \/ PrepareThrows
  BY <1>3 DEF Prepare, PrepareThrows
<1>4. CASE Perform
  BY <1>4 DEF Perform, SWAbandon, SWRefuseElbow, SWSameMode, SWLeaveMode, SWStopFlags,
     StopClearFlags, SWStopSession, StopDropSession, SWStart, SWStartThrows,
     SWRaiseFlag, RaiseFlag, SWPublish, SWFinish
<1>5. CASE UNCHANGED vars
  BY <1>5 DEF vars
<1> QED BY <1>1, <1>2, <1>3, <1>4, <1>5 DEF Next

\* A step that changes the session starts one where there is none, or drops
\* the one there is.
LEMMA StartStep ==
  StartInv /\ [Next]_vars => [session' # session => None \in {session, session'}]_session
<1> SUFFICES ASSUME StartInv, [Next]_vars, session' # session
             PROVE  None \in {session, session'}
  OBVIOUS
<1> USE DEF StartInv, robotVars, hwVars, rtVars, swVars
<1>1. CASE OnActivate \/ OnDeactivate
  BY <1>1 DEF OnActivate, OnDeactivate, StopRobot
<1>2. CASE RTNext
  BY <1>2 DEF RTNext, RTReadCheck, RTReadState, RTReadThrows, RTStopFlags, StopClearFlags,
     RTStopNothing, RTStopSession, StopDropSession, RTInitCheck, RTInitCopy, RTUpdate,
     RTWriteInfinite, RTWriteCheck, RTWriteSelect, RTWriteOnceNoSession,
     RTWriteOnceDispatch, RTSend, RTError, RTGoto
<1>3. CASE Prepare \/ PrepareThrows
  BY <1>3 DEF Prepare, PrepareThrows
<1>4. CASE Perform
  BY <1>4 DEF Perform, SWAbandon, SWRefuseElbow, SWSameMode, SWLeaveMode, SWStopFlags,
     StopClearFlags, SWStopSession, StopDropSession, SWStart, SWStartThrows,
     SWRaiseFlag, RaiseFlag, SWPublish, SWFinish
<1>5. CASE UNCHANGED vars
  BY <1>5 DEF vars
<1> QED BY <1>1, <1>2, <1>3, <1>4, <1>5 DEF Next

\* A libfranka session is started only after the previous one was dropped,
\* also when perform_command_mode_switch runs beside read() and write(), with
\* sessions that abort and whatever the controllers claim.
THEOREM OneSession == Spec => SessionsDoNotOverlap
<1>1. Init => StartInv
  BY DEF Init, StartInv
<1> QED BY <1>1, StartNext, StartStep, PTL DEF Spec, SessionsDoNotOverlap

-----------------------------------------------------------------------------
(* The served mode follows the active controllers.                          *)

\* A mode derived from claim flags commands only vectors that are claimed.
LEMMA VectorsOfDesired ==
  ASSUME NEW c \in SUBSET Interfaces, DesiredMode(c) # "None"
  PROVE  Vectors(DesiredMode(c)) \subseteq c
BY DEF DesiredMode, Vectors, MainVector, WithElbow, KindOf

\* No controllers, no mode.
LEMMA HeldNothing == Held({}) = {} /\ DesiredMode({}) = "None"
BY DEF Held, DesiredMode

\* Well-formed controllers together never hold an elbow alone.
LEMMA NoLoneElbow ==
  ASSUME WellFormedClaims, NEW cs \in SUBSET Controllers
  PROVE  ~LoneElbow(Held(cs))
<1> SUFFICES ASSUME "elbow_command" \in Held(cs)
             PROVE  Held(cs) \cap {"cartesian_velocity", "cartesian_pose_command"} # {}
  BY DEF LoneElbow
<1>1. PICK c \in cs : "elbow_command" \in Claims[c]
  BY DEF Held
<1>2. PICK t \in Claims[c] : t \in {"cartesian_velocity", "cartesian_pose_command"}
  BY <1>1 DEF WellFormedClaims
<1>3. t \in Held(cs)
  BY <1>2 DEF Held
<1> QED BY <1>2, <1>3

\* prepare_command_mode_switch clears the flags of the stopped controllers and
\* then sets those of the started ones: what is left are the flags of the
\* controllers that will be active, when no type is held twice.
LEMMA ReclaimedHeld ==
  ASSUME NEW stop, NEW start, Request(stop, start), Exclusive(active), claimed = Held(active)
  PROVE  /\ Reclaimed(stop, start) = Held((active \ stop) \cup start)
         /\ Exclusive((active \ stop) \cup start)
<1>1. \A t : t \in Held(active) \ Held(stop) <=> t \in Held(active \ stop)
  <2>1. ASSUME NEW t, t \in Held(active), t \notin Held(stop)
        PROVE  t \in Held(active \ stop)
    BY <2>1 DEF Held
  <2>2. ASSUME NEW t, t \in Held(active \ stop)
        PROVE  t \in Held(active) /\ t \notin Held(stop)
    <3>1. PICK c \in active \ stop : t \in Claims[c]
      BY <2>2 DEF Held
    <3>2. t \in Held(active)
      BY <3>1 DEF Held
    <3>3. ASSUME NEW d \in stop, t \in Claims[d] PROVE FALSE
      BY <3>1, <3>3 DEF Request, Exclusive
    <3> QED BY <3>2, <3>3 DEF Held
  <2> QED BY <2>1, <2>2
<1>2. \A t : t \in Held((active \ stop) \cup start)
               <=> t \in Held(active \ stop) \/ t \in Held(start)
  BY DEF Held
<1>3. Exclusive((active \ stop) \cup start)
  BY DEF Exclusive, Request
<1> QED BY <1>1, <1>2, <1>3 DEF Reclaimed

\* The component starts without controllers and without a mode.
LEMMA ServeInit == Init => ServeInv
BY HeldNothing DEF Init, ServeInv, Performing, Exclusive, Claimants

\* Lifecycle callbacks: there is no controller to serve.
LEMMA ServeLifecycle ==
  ASSUME Overlap = FALSE, Faults = FALSE, TypeInv, SerialInv, ServeInv,
         OnActivate \/ OnDeactivate
  PROVE  ServeInv'
<1> USE DEF ServeInv, Performing, Exclusive, Claimants, robotVars, hwVars, rtVars, swVars
<1>1. CASE OnActivate
  <2>1. active = {} /\ mode' = "None" /\ sw = "idle" /\ mode = "None" /\ hw = "inactive"
    BY <1>1 DEF OnActivate, TypeInv, TypeOK
  <2>2. UNCHANGED <<claimed, nan, rtVars, swVars>> /\ hw' = "active"
    BY <1>1 DEF OnActivate
  <2> QED BY <2>1, <2>2
<1>2. CASE OnDeactivate
  <2>1. active = {} /\ mode' = "None" /\ sw = "idle" /\ mode = "None"
    BY <1>2, HeldNothing DEF OnDeactivate
  <2>2. UNCHANGED <<claimed, nan, rtVars, swVars>> /\ hw' = "inactive"
    BY <1>2 DEF OnDeactivate
  <2> QED BY <2>1, <2>2
<1> QED BY <1>1, <1>2

\* The RT thread leaves mode, flags and controllers alone; the command it
\* sends is one of the mode.
LEMMA ServeCycle ==
  ASSUME Overlap = FALSE, Faults = FALSE, TypeInv, SerialInv, ServeInv, RTNext
  PROVE  ServeInv'
<1> USE DEF ServeInv, Performing, Exclusive, Claimants, robotVars, hwVars, rtVars, swVars
<1>1. CASE RTReadCheck
  BY <1>1 DEF RTReadCheck
<1>2. CASE RTReadState
  BY <1>2 DEF RTReadState, RTGoto
<1>3. CASE RTReadThrows
  BY <1>3 DEF RTReadThrows
<1>4. CASE RTStopFlags \/ RTStopNothing
  BY <1>4 DEF RTStopFlags, RTStopNothing
<1>5. CASE RTStopSession
  <2>1. rt = "stopSession"
    BY <1>5 DEF RTStopSession
  <2> QED BY <2>1
<1>6. CASE RTInitCheck
  BY <1>6 DEF RTInitCheck
<1>7. CASE RTInitCopy
  BY <1>7 DEF RTInitCopy
<1>8. CASE RTUpdate
  <2>1. nan' = {}
    BY <1>8 DEF RTUpdate, Held
  <2> QED BY <1>8, <2>1 DEF RTUpdate, RTGoto
<1>9. CASE RTWriteInfinite
  BY <1>9 DEF RTWriteInfinite
<1>10. CASE RTWriteCheck
  BY <1>10 DEF RTWriteCheck, RTGoto
<1>11. CASE RTWriteSelect
  BY <1>11 DEF RTWriteSelect
<1>12. CASE RTWriteOnceNoSession
  BY <1>12 DEF RTWriteOnceNoSession
<1>13. CASE RTWriteOnceDispatch
  BY <1>13 DEF RTWriteOnceDispatch, RTGoto
<1>14. CASE RTSend
  <2>1. /\ rtMode = mode /\ mode # "None" /\ session # None /\ ~Performing
        /\ UNCHANGED <<robotVars, hwVars, swVars>>
    BY <1>14, KindOfMode DEF RTSend, RTMayRun, SerialInv, ModeInv, RTInv, TypeInv, TypeOK
  <2>2. frame'.mode = mode /\ rt' = "idle"
    BY <1>14, <2>1 DEF RTSend
  <2>3. Held(active) \in SUBSET Interfaces
    BY HeldType DEF TypeInv, TypeOK
  <2>4. Vectors(frame'.mode) \subseteq Held(active)
    BY <2>1, <2>2, <2>3, VectorsOfDesired
  <2> QED BY <2>1, <2>2, <2>4
<1> QED BY <1>1, <1>2, <1>3, <1>4, <1>5, <1>6, <1>7, <1>8, <1>9, <1>10, <1>11, <1>12,
           <1>13, <1>14 DEF RTNext

\* prepare_command_mode_switch: the flags become those of the controllers that
\* will be active; the exception needs a partial claim.
LEMMA ServePrepare ==
  ASSUME Overlap = FALSE, WellFormedClaims, TypeInv, SerialInv, ServeInv,
         Prepare \/ PrepareThrows
  PROVE  ServeInv'
<1>1. CASE Prepare
  <2> USE <1>1 DEF Prepare
  <2>1. /\ sw = "idle" /\ sw' = "prepared" /\ hw = "active"
        /\ UNCHANGED <<robotVars, hw, mode, needs, fresh, nan, rtVars, desired, active>>
    OBVIOUS
  <2>2. PICK stop, start \in SUBSET Controllers :
          /\ Request(stop, start)
          /\ claimed' = Reclaimed(stop, start)
          /\ target' = (active \ stop) \cup start
    OBVIOUS
  <2>3. Exclusive(active) /\ claimed = Held(active)
    BY <2>1 DEF ServeInv, Claimants
  <2>4. claimed' = Held(target') /\ Exclusive(target')
    BY <2>2, <2>3, ReclaimedHeld
  <2>5. Claimants' = target'
    BY <2>1 DEF Claimants
  <2> HIDE DEF Prepare
  <2>6. Exclusive(active') /\ Exclusive(Claimants')
    BY <2>1, <2>3, <2>4, <2>5
  <2> QED BY <2>1, <2>4, <2>5, <2>6 DEF ServeInv, Performing, Exclusive, rtVars
<1>2. CASE PrepareThrows
  <2>1. FALSE
    BY <1>2 DEF PrepareThrows, WellFormedClaims
  <2> QED BY <2>1
<1> QED BY <1>1, <1>2

\* perform_command_mode_switch: the mode it publishes is the one of the claim
\* flags, and the controllers it was prepared for become active.
LEMMA ServePerform ==
  ASSUME Overlap = FALSE, Faults = FALSE, WellFormedClaims, TypeInv, SerialInv, ServeInv,
         Perform
  PROVE  ServeInv'
<1> USE DEF Performing, Exclusive, Claimants, robotVars, hwVars, rtVars, swVars
<1>a. sw # "idle"
  BY DEF Perform, SWAbandon, SWRefuseElbow, SWSameMode, SWLeaveMode, SWStopFlags,
     SWStopSession, SWStart, SWStartThrows, SWRaiseFlag, SWPublish
<1>b. hw = "active" /\ claimed = Held(target) /\ ~LoneElbow(claimed)
  BY <1>a, NoLoneElbow DEF ServeInv, TypeInv, TypeOK
<1>1. CASE SWAbandon \/ SWRefuseElbow \/ SWStartThrows
  BY <1>1, <1>b DEF SWAbandon, SWRefuseElbow, SWStartThrows
<1>2. CASE SWSameMode
  <2>1. frame = NoFrame
    BY <1>2 DEF SWSameMode, MayPerform, ServeInv
  <2> QED BY <1>2, <1>b, <2>1 DEF SWSameMode, SWFinish, ServeInv
<1>3. CASE SWLeaveMode
  BY <1>3, <1>b DEF SWLeaveMode, ServeInv
<1>4. CASE SWStopFlags
  BY <1>4, <1>b DEF SWStopFlags, ServeInv
<1>5. CASE SWStopSession
  BY <1>5, <1>b DEF SWStopSession, ServeInv
<1>6. CASE SWStart
  BY <1>6, <1>b DEF SWStart, ServeInv
<1>7. CASE SWRaiseFlag
  BY <1>7, <1>b DEF SWRaiseFlag, ServeInv
<1>8. CASE SWPublish
  <2>1. frame = NoFrame /\ desired = DesiredMode(Held(target))
    BY <1>8, <1>b DEF SWPublish, ServeInv, SerialInv, SwitchInv
  <2> QED BY <1>8, <1>b, <2>1 DEF SWPublish, SWFinish, ServeInv
<1> QED BY <1>1, <1>2, <1>3, <1>4, <1>5, <1>6, <1>7, <1>8 DEF Perform

\* Without faults and with well-formed claims, every step preserves the
\* invariant.
LEMMA ServeNext ==
  ASSUME Overlap = FALSE, Faults = FALSE, WellFormedClaims, TypeInv, SerialInv, ServeInv,
         [Next]_vars
  PROVE  ServeInv'
<1>1. CASE UNCHANGED vars
  BY <1>1 DEF vars, robotVars, hwVars, rtVars, swVars, ServeInv, Performing, Exclusive,
     Claimants
<1> QED BY <1>1, ServeLifecycle, ServeCycle, ServePrepare, ServePerform DEF Next

\* Between switches the component serves the mode the active controllers
\* claim, and a command carries only vectors they hold: for any set of
\* controllers that claim whole types and no lone elbow, when no session fails.
THEOREM ModeServed ==
  ASSUME Overlap = FALSE, Faults = FALSE, WellFormedClaims
  PROVE  Spec => []ModeServesControllers
<1>1. ServeInv => ModeServesControllers
  BY DEF ServeInv, ModeServesControllers, Performing
<1>2. TypeInv /\ SerialInv /\ ServeInv /\ [Next]_vars => ServeInv'
  BY ServeNext
<1> QED BY <1>1, <1>2, ServeInit, SerialAlways, PTL DEF Spec

-----------------------------------------------------------------------------
(* The hardware interface implements ControlSession.                        *)

\* A command is sent at the end of a cycle, and forgotten when the next one
\* begins.
FrameInv == rt # "idle" => frame = NoFrame

\* No command was sent before the first cycle.
LEMMA FrameInit == Init => FrameInv
BY DEF Init, FrameInv

\* Only the last step of a cycle sends.
LEMMA FrameNext == FrameInv /\ [Next]_vars => FrameInv'
<1> SUFFICES ASSUME FrameInv, [Next]_vars PROVE FrameInv'
  OBVIOUS
<1> USE DEF FrameInv, rtVars
<1>1. CASE RTNext
  BY <1>1 DEF RTNext, RTReadCheck, RTReadState, RTReadThrows, RTStopFlags, RTStopNothing,
     RTStopSession, RTInitCheck, RTInitCopy, RTUpdate, RTWriteInfinite, RTWriteCheck,
     RTWriteSelect, RTWriteOnceNoSession, RTWriteOnceDispatch, RTSend, RTGoto, RTError
<1>2. CASE UNCHANGED rtVars
  BY <1>2
<1>3. CASE OnActivate \/ OnDeactivate \/ Prepare \/ PrepareThrows \/ Perform
  BY <1>2, <1>3 DEF OnActivate, OnDeactivate, Prepare, PrepareThrows, Perform, SWAbandon,
     SWRefuseElbow, SWSameMode, SWLeaveMode, SWStopFlags, SWStopSession, SWStart,
     SWStartThrows, SWRaiseFlag, SWPublish
<1> QED BY <1>1, <1>2, <1>3 DEF Next, vars

\* At the start there is no session.
LEMMA ControlInit == Init => Control!Init
BY DEF Init, RobotInit, Control!Init, NoFrame, None

\* The command of the open session is written whole.
Whole == session # None /\ mode # "None" /\ Vectors(mode) \subseteq fresh

\* A step that leaves session, mode and command, and forgets no vector.
LEMMA ControlKeeps ==
  ASSUME UNCHANGED <<session, mode, frame>>, fresh \subseteq fresh'
  PROVE  [Control!Next]_Control!vars
<1>1. Whole => Whole'
  BY DEF Whole
<1>2. CASE Whole' = Whole
  BY <1>2 DEF Whole, Control!vars
<1>3. CASE Whole' # Whole
  <2>1. session # None /\ Whole' = TRUE
    BY <1>1, <1>3 DEF Whole
  <2> QED BY <2>1 DEF Whole, Control!Next, Control!Complete
<1> QED BY <1>2, <1>3

\* A step that drops the session.
LEMMA ControlCloses ==
  ASSUME session' = None, frame' = frame
  PROVE  [Control!Next]_Control!vars
BY DEF Control!Next, Control!Close

\* A step that leaves the mode.
LEMMA ControlWithdraws ==
  ASSUME session' = session, mode' = "None", frame' = frame
  PROVE  [Control!Next]_Control!vars
BY DEF Control!Next, Control!Withdraw

\* Every step of the interface is one of the contract or changes nothing there.
LEMMA ControlStep ==
  ASSUME Overlap = FALSE, TypeInv, SerialInv, FrameInv, [Next]_vars
  PROVE  [Control!Next]_Control!vars
<1> USE DEF robotVars, hwVars, rtVars, swVars
<1>1. CASE OnActivate
  BY <1>1, ControlCloses, ControlWithdraws DEF OnActivate, StopRobot
<1>2. CASE OnDeactivate
  BY <1>2, ControlCloses DEF OnDeactivate, StopRobot
<1>3. CASE RTReadCheck
  <2>1. frame' = NoFrame /\ UNCHANGED <<session, mode, fresh>>
    BY <1>3 DEF RTReadCheck
  <2>2. frame'.kind = None
    BY <2>1 DEF NoFrame, None
  <2> QED BY <2>1, <2>2 DEF Control!Next, Control!NextCycle
<1>4. CASE RTStopSession
  BY <1>4, ControlCloses DEF RTStopSession, StopDropSession, RTError, FrameInv
<1>5. CASE RTSend
  <2>1. /\ rtMode = mode /\ mode \in Modes /\ mode # "None" /\ session = KindOf(mode)
        /\ rtKind = KindOf(mode) /\ frame = NoFrame
        /\ Zeroed(mode) \cup Measured(mode) \subseteq fresh
    BY <1>5 DEF RTSend, SerialInv, ModeInv, RTInv, TypeInv, TypeOK, FrameInv
  <2>2. Whole /\ frame.kind = None
    BY <2>1, VectorsOfMode, KindOfMode DEF Whole, NoFrame, None
  <2>3. frame'.kind = session /\ UNCHANGED <<session, mode, fresh>>
    BY <1>5, <2>1, <2>2 DEF RTSend, Whole
  <2> QED BY <2>2, <2>3 DEF Whole, Control!Next, Control!Send
<1>6. CASE SWLeaveMode
  BY <1>6, ControlWithdraws DEF SWLeaveMode
<1>7. CASE SWStopSession
  BY <1>7, ControlCloses DEF SWStopSession, StopDropSession
<1>8. CASE SWStart
  <2>1. session = None /\ mode = "None" /\ desired \in Modes /\ desired # "None"
    BY <1>8 DEF SWStart, SerialInv, SwitchInv, Performing, TypeInv, TypeOK
  <2>2. session' \in Kinds /\ mode' = mode /\ frame' = frame
    BY <1>8, <2>1, KindOfMode DEF SWStart, StartSession
  <2> QED BY <2>1, <2>2 DEF Control!Next, Control!Open
<1>9. CASE SWPublish
  <2>1. mode = "None" /\ UNCHANGED <<session, frame>>
    BY <1>9 DEF SWPublish, SerialInv, SwitchInv, Performing
  <2>2. CASE Whole'
    BY <2>1, <2>2 DEF Whole, Control!Next, Control!Complete
  <2>3. CASE ~Whole'
    BY <2>1, <2>3 DEF Whole, Control!Next, Control!Withdraw
  <2> QED BY <2>2, <2>3
<1>10. CASE RTStopNothing \/ RTWriteInfinite
  <2>1. frame' = frame /\ UNCHANGED <<session, mode, fresh>>
    BY <1>10 DEF RTStopNothing, RTWriteInfinite, RTError, FrameInv
  <2> QED BY <2>1, ControlKeeps
<1>11. CASE RTInitCopy \/ RTUpdate
  BY <1>11, ControlKeeps DEF RTInitCopy, RTUpdate, RTGoto
<1>12. CASE \/ RTReadState \/ RTReadThrows \/ RTStopFlags \/ RTInitCheck \/ RTWriteCheck
            \/ RTWriteSelect \/ RTWriteOnceNoSession \/ RTWriteOnceDispatch
            \/ Prepare \/ PrepareThrows
            \/ SWAbandon \/ SWRefuseElbow \/ SWSameMode \/ SWStopFlags
            \/ SWStartThrows \/ SWRaiseFlag \/ UNCHANGED vars
  <2>1. UNCHANGED <<session, mode, fresh, frame>>
    BY <1>12 DEF RTReadState, RTReadThrows, RTStopFlags, RTInitCheck, RTWriteCheck, RTWriteSelect,
       RTWriteOnceNoSession, RTWriteOnceDispatch, RTGoto, StopClearFlags, RaiseFlag, Prepare,
       PrepareThrows, SWAbandon, SWRefuseElbow, SWSameMode, SWStopFlags, SWStartThrows,
       SWRaiseFlag, vars
  <2> QED BY <2>1, ControlKeeps
<1> QED BY <1>1, <1>2, <1>3, <1>4, <1>5, <1>6, <1>7, <1>8, <1>9, <1>10, <1>11, <1>12
         DEF Next, RTNext, Perform

\* With the mode switch inside the manager's update the interface implements
\* ControlSession: one session at a time, and only whole commands of its kind,
\* one a cycle.  Whatever the controllers claim, with faults or without.
THEOREM Refinement ==
  ASSUME Overlap = FALSE
  PROVE  Spec => ImplementsControlSession
<1>1. TypeInv /\ SerialInv /\ FrameInv /\ [Next]_vars => [Control!Next]_Control!vars
  BY ControlStep
<1> QED BY <1>1, SerialAlways, FrameInit, FrameNext, ControlInit, PTL
         DEF Spec, ImplementsControlSession, Control!Spec
=============================================================================
