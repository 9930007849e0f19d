--------------------------- MODULE TrajectoryPlot ---------------------------
(***************************************************************************)
(* TeleopRealtimePlotNode: the traces of the controller and of the TCP     *)
(* that the plot window draws, relative to the first sample of each.  One  *)
(* thread spins the node and draws.  A position is left out; a sample has  *)
(* the grip (enabling of the teleoperation, as the node learnt of it) that *)
(* it was taken in, and the origin it is relative to, named likewise.      *)
(***************************************************************************)
EXTENDS Sequences, Naturals

CONSTANTS
  NoOrigin,
  MaxPoints, \* max_points
  MaxGrips   \* bound: how often the teleoperation is enabled, or origins are reset

ASSUME PlotAssumption ==
  MaxPoints \in Nat \ {0} /\ MaxGrips \in Nat /\ NoOrigin \notin Nat

VARIABLES
  plotConfig, \* record_..._only_when_enabled, reset_controller_trace_on_enable
  teleopEnabled,
  resetOnNext, \* reset_controller_on_next_sample
  origin,     \* controller_origin, tcp_origin
  samples,    \* controller_samples, tcp_samples
  grip        \* grips so far (history)

plotVars == <<plotConfig, teleopEnabled, resetOnNext, origin, samples, grip>>

Traces == {"controller", "tcp"}

PlotInit ==
  /\ plotConfig \in [onlyEnabled : BOOLEAN, resetOnEnable : BOOLEAN]
  /\ teleopEnabled = FALSE /\ resetOnNext = FALSE
  /\ origin = [t \in Traces |-> NoOrigin]
  /\ samples = [t \in Traces |-> <<>>]
  /\ grip = 0

\* Mutant of AsksForReset: the flag tells of the last message only.
AsksForResetNow(value) == value /\ ~teleopEnabled /\ plotConfig.resetOnEnable

AsksForReset(value) ==
  resetOnNext \/ (value /\ ~teleopEnabled /\ plotConfig.resetOnEnable)

PlotEnabledCallback(value) ==
  /\ value /\ ~teleopEnabled => grip < MaxGrips
  /\ grip' = IF value /\ ~teleopEnabled THEN grip + 1 ELSE grip
  /\ teleopEnabled' = value
  /\ resetOnNext' = AsksForReset(value)
  /\ UNCHANGED <<plotConfig, origin, samples>>

\* A deque with maxlen drops its oldest sample.
Appended(trace, sample) ==
  LET all == Append(trace, sample) IN
  IF Len(all) > MaxPoints THEN Tail(all) ELSE all

\* A sample of trace t, after those in `kept`; the first one is the origin.
Record(t, kept, known) ==
  LET first == IF known = NoOrigin THEN grip ELSE known IN
  /\ origin' = [origin EXCEPT ![t] = first]
  /\ samples' = [samples EXCEPT ![t] = Appended(kept, [grip |-> grip, origin |-> first])]

RecordController ==
  IF resetOnNext THEN Record("controller", <<>>, NoOrigin)
                 ELSE Record("controller", samples["controller"], origin["controller"])

PlotControllerPoseCallback ==
  /\ plotConfig.onlyEnabled => teleopEnabled
  /\ RecordController
  /\ resetOnNext' = FALSE
  /\ UNCHANGED <<plotConfig, teleopEnabled, grip>>

PlotTcpPoseCallback ==
  /\ Record("tcp", samples["tcp"], origin["tcp"])
  /\ UNCHANGED <<plotConfig, teleopEnabled, resetOnNext, grip>>

\* The button of the window.
ResetOrigins ==
  /\ origin' = [t \in Traces |-> NoOrigin]
  /\ samples' = [t \in Traces |-> <<>>]
  /\ UNCHANGED <<plotConfig, teleopEnabled, resetOnNext, grip>>

\* Time passes: the oldest sample of a trace is past the window.  The origin
\* stays, though its sample has gone.
TrimOldSamples ==
  /\ \E t \in Traces :
       /\ samples[t] # <<>>
       /\ samples' = [samples EXCEPT ![t] = Tail(@)]
  /\ UNCHANGED <<plotConfig, teleopEnabled, resetOnNext, origin, grip>>

PlotNext ==
  \/ \E value \in BOOLEAN : PlotEnabledCallback(value)
  \/ PlotControllerPoseCallback \/ PlotTcpPoseCallback
  \/ ResetOrigins \/ TrimOldSamples

PlotTypeOK ==
  /\ {teleopEnabled, resetOnNext} \subseteq BOOLEAN /\ grip \in 0..MaxGrips
  /\ origin \in [Traces -> 0..MaxGrips \cup {NoOrigin}]
  /\ \A t \in Traces : Len(samples[t]) <= MaxPoints

(* What is drawn of a trace is relative to one origin, the one that the    *)
(* next sample is relative to, whatever was reset or trimmed meanwhile.    *)
(* With reset_controller_trace_on_enable the controller's trace is of one  *)
(* grip, however many messages came between an enabling and a pose.        *)
TraceCoherent ==
  /\ \A t \in Traces : \A i \in DOMAIN samples[t] : samples[t][i].origin = origin[t]
  /\ plotConfig.resetOnEnable =>
       \A i, j \in DOMAIN samples["controller"] :
         samples["controller"][i].grip = samples["controller"][j].grip
=============================================================================
