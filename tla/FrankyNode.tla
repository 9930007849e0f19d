----------------------------- MODULE FrankyNode -----------------------------
(***************************************************************************)
(* The franky pose node: its threads, which leave out the poses, and the   *)
(* commands of its control thread, which leave out the threads.  And what  *)
(* it is launched with: the nodes of both hands, and the plot of its       *)
(* current_pose.  `part` picks one of them.                                *)
(***************************************************************************)
EXTENDS FrankyPose, FrankySteps, DualTeleop, TrajectoryPlot

VARIABLE part

nodeVars == <<part, vars, stepVars, dualVars, plotVars>>

NodeInit ==
  /\ part \in {"threads", "steps", "dual", "plot"}
  /\ Init /\ StepsInit /\ DualInit /\ PlotInit
  /\ part # "steps" => \A a \in Axes : position[a] = Lowest /\ goal[a] = Lowest
  /\ part # "threads" => mode = "pose" /\ robot
  /\ part # "dual" => started = {}
  /\ part # "plot" => plotConfig = [onlyEnabled |-> TRUE, resetOnEnable |-> TRUE]

NodeNext ==
  \/ part = "threads" /\ Next /\ UNCHANGED <<part, stepVars, dualVars, plotVars>>
  \/ part = "steps" /\ StepsNext /\ UNCHANGED <<part, vars, dualVars, plotVars>>
  \/ part = "dual" /\ DualNext /\ UNCHANGED <<part, vars, stepVars, plotVars>>
  \/ part = "plot" /\ PlotNext /\ UNCHANGED <<part, vars, stepVars, dualVars>>

\* The control thread loops, and the executor works off what it began.  A robot
\* that has a command moves, and cycles are not held up all the time.
NodeSpec ==
  /\ NodeInit /\ [][NodeNext]_nodeVars
  /\ WF_vars(part = "threads" /\ Control)
  /\ WF_vars(part = "threads" /\ HandleTeleopDisabled)
  /\ WF_vars(/\ part = "threads"
             /\ \/ SetException("ex") \/ AttemptErrorRecovery("ex")
                \/ ErrorRecovered("ex"))
  /\ WF_stepVars(part = "steps" /\ (StayAtRest \/ Advance(1)))
  /\ SF_stepVars(part = "steps" /\ RobotMoves)

\* Every variable keeps its type; the velocity keeps its limit however it is
\* changed, and the gripper has one command at a time.
NodeTypeOK ==
  /\ TypeOK
  /\ position \in Point /\ command \in Point /\ goal \in [Axes -> Targets]
  /\ velocity \in Velocities
  /\ {moving, failed, settled} \subseteq BOOLEAN
  /\ part = "dual" => DualTypeOK
  /\ part = "plot" => PlotTypeOK

\* Wherever the target jumps and however long a cycle was held up: the robot is
\* never sent away from the target, nor further than its velocity limit allows;
\* it speeds up by its acceleration at most, and begins at rest if it was
\* stopped before.  A command of a velocity that was kept may pass the target,
\* and with it a wall of the workspace; the first one after a stop stays inside.
SteppedGently ==
  [][\A ticks \in Ticks : part = "steps" /\ Advance(ticks) =>
       LET by == Minus(command', position) IN
       /\ by # Zero => Dot(by, Minus(ClippedTarget, position)) > 0
       /\ by \in Disc(MaxVelocity * Span(ticks))
       /\ \A speed \in 0 .. MaxVelocity :
            (IF moving THEN velocity ELSE Zero) \in Disc(speed)
              => velocity' \in Disc(speed + Acceleration * ticks)
       /\ ~moving /\ position \in Workspace => command' \in Workspace]_nodeVars

\* A target that stays where it is, and is not too far to begin with, is
\* reached, and kept, also by a robot that was sent past it.  (If it takes many
\* cycles to gather the largest velocity, whole numbers are too coarse to show
\* that the part of it across the way is lost.)
TargetReached ==
  settled ~> [](position = ClippedTarget)
             \/ (~moving /\ ~CloseEnough)
=============================================================================
