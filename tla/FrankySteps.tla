----------------------------- MODULE FrankySteps -----------------------------
(***************************************************************************)
(* FrankyCartesianPoseNode: the command that each cycle of the control     *)
(* thread makes of the robot's position and the target, _step_toward and   *)
(* what resets its velocity.  The position stands for the pose; the        *)
(* velocity that is kept and the way to the target are vectors of a plane. *)
(*                                                                         *)
(* Coordinates are whole numbers.  A velocity is what it covers in the     *)
(* lookahead; a quotient is rounded to zero, and a limited vector to a     *)
(* nearest one within the limit.  A cycle lasts some ticks: few, or more   *)
(* than the lookahead when the thread was held up.                         *)
(***************************************************************************)
EXTENDS Integers

CONSTANTS
  Lowest, Highest, \* workspace_min, workspace_max, of each axis
  Targets,      \* the coordinates a target can have
  Lookahead,    \* command_target_lookahead, in ticks
  Ticks,        \* how long a cycle can last
  MaxVelocity,  \* max_linear_velocity, per lookahead
  Acceleration, \* max_linear_acceleration, per lookahead and tick
  MaxInitial    \* max_initial_target_distance

ASSUME StepsAssumption ==
  /\ Lowest \in Int /\ Highest \in Int /\ Lowest <= Highest /\ Targets \subseteq Int
  /\ Lookahead \in Nat \ {0} /\ Ticks \subseteq Nat \ {0}
  /\ MaxVelocity \in Nat \ {0} /\ Acceleration \in Nat \ {0} /\ MaxInitial \in Nat

VARIABLES
  position,  \* current_state.position
  goal,      \* target.position
  command,   \* command_position
  velocity,  \* command_linear_velocity
  moving,    \* motion_active
  failed,    \* an exception has started the recovery hold
  settled    \* the user and the robot leave it at that (history)

stepVars == <<position, goal, command, velocity, moving, failed, settled>>

Axes == {"x", "y"}
Point == [Axes -> Int]
Plus(v, w) == [a \in Axes |-> v[a] + w[a]]
Minus(v, w) == [a \in Axes |-> v[a] - w[a]]
Times(v, n) == [a \in Axes |-> v[a] * n]
Dot(v, w) == v["x"] * w["x"] + v["y"] * w["y"]
Square(v) == Dot(v, v) \* of the norm
Apart(v, w) == (v["x"] - w["x"]) * (v["x"] - w["x"]) + (v["y"] - w["y"]) * (v["y"] - w["y"])
Zero == [a \in Axes |-> 0]

Workspace == [Axes -> Lowest .. Highest]

StepsInit ==
  /\ position \in Workspace /\ command = position
  /\ goal \in [Axes -> Targets]
  /\ velocity = Zero /\ moving = FALSE
  /\ failed = FALSE /\ settled = FALSE

Quotient(v, n) == [a \in Axes |-> IF v[a] < 0 THEN -((-v[a]) \div n) ELSE v[a] \div n]

ClippedTarget ==
  [a \in Axes |-> IF goal[a] < Lowest THEN Lowest
                  ELSE IF goal[a] > Highest THEN Highest ELSE goal[a]]

\* How many times the lookahead a command of this cycle reaches.
Span(ticks) == IF ticks <= Lookahead THEN 1 ELSE ticks \div Lookahead

\* A limit on a norm is a disc; a vector outside gives way to a nearest inside.
Disc(radius) == {v \in [Axes -> -radius .. radius] : Square(v) <= radius * radius}

Nearest(S, v) ==
  IF v \in S THEN {v}
  ELSE {w \in S : \A u \in S : Apart(w, v) <= Apart(u, v)}

Velocities == Disc(MaxVelocity)

LimitVectorNorm(v) == Nearest(Velocities, v)

\* Between two velocities within the limit all are.
LimitVectorChange(desired, current, change) ==
  Nearest({v \in Velocities : Minus(v, current) \in Disc(change)}, desired)

Step(by, v) == [by |-> by, velocity |-> v]

\* alignment > 0.98, for vectors whose product is positive
Aligned(v, w) == 2500 * (Dot(v, w) * Dot(v, w)) > 2401 * (Square(v) * Square(w))

\* Mutant of Shortened: a target straight ahead is made for at once.
ShortenedAtOnce(v, span, delta) ==
  LET by == Times(v, span) IN
  IF Dot(by, delta) <= 0 THEN Step(Zero, Zero)
  ELSE IF Aligned(by, delta) THEN Step(delta, Quotient(delta, span))
  ELSE Step(by, v)

\* Mutant of Shortened: a velocity away from the target only slows down.
ShortenedAhead(v, span, delta) ==
  LET by == Times(v, span) IN
  IF Square(by) > Square(delta) /\ Aligned(by, delta) THEN Step(delta, Quotient(delta, span))
  ELSE Step(by, v)

\* The command for velocity v.  It never leads away from the target, and one
\* that leads past it is shortened when it leads almost through it; another,
\* off the line to the target, goes out as it is.
Shortened(v, span, delta) ==
  LET by == Times(v, span) IN
  IF Dot(by, delta) <= 0 THEN Step(Zero, Zero)
  ELSE IF Square(by) > Square(delta) /\ Aligned(by, delta) THEN Step(delta, Quotient(delta, span))
  ELSE Step(by, v)

\* Mutant of StepToward: a target that is close counts as reached.
StepTowardRoughly(v, ticks) ==
  LET span == Span(ticks)
      delta == Minus(ClippedTarget, position)
  IN  IF Square(delta) <= 1 THEN {Step(Zero, Zero)}
      ELSE {Shortened(next, span, delta) : next \in
             UNION {LimitVectorChange(desired, v, Acceleration * ticks) :
                      desired \in LimitVectorNorm(Quotient(delta, span))}}

\* _step_toward, from velocity v
StepToward(v, ticks) ==
  LET span == Span(ticks)
      delta == Minus(ClippedTarget, position)
  IN  IF delta = Zero THEN {Step(Zero, Zero)}
      ELSE {Shortened(next, span, delta) : next \in
             UNION {LimitVectorChange(desired, v, Acceleration * ticks) :
                      desired \in LimitVectorNorm(Quotient(delta, span))}}

\* _reset_command_dynamics
RestVelocity == Zero

CloseEnough == Minus(ClippedTarget, position) \in Disc(MaxInitial)

\* A cycle that ends with a motion, which may fail to be sent.
Advance(ticks) ==
  /\ ~failed
  /\ moving \/ CloseEnough
  /\ \E step \in StepToward(IF moving THEN velocity ELSE RestVelocity, ticks) :
       /\ command' = Plus(position, step.by)
       /\ velocity' = step.velocity
  /\ \/ moving' = TRUE /\ UNCHANGED failed
     \/ ~settled /\ failed' = TRUE /\ UNCHANGED moving
  /\ UNCHANGED <<position, goal, settled>>

\* A cycle that ends with a stop: the robot is in the hold of a recovery, the
\* teleoperation is disabled, the target is old, or the first one is too far.
StayAtRest ==
  /\ ~settled \/ failed \/ (~moving /\ ~CloseEnough)
  /\ command' = position /\ velocity' = RestVelocity
  /\ moving' = FALSE /\ failed' = FALSE
  /\ UNCHANGED <<position, goal, settled>>

\* External: the robot on its way to its command, which need not be a straight
\* line, and the target.
RobotMoves ==
  /\ moving /\ position # command
  /\ position' = [a \in Axes |-> IF position[a] < command[a] THEN position[a] + 1
                                 ELSE IF position[a] > command[a] THEN position[a] - 1
                                 ELSE position[a]]
  /\ UNCHANGED <<goal, command, velocity, moving, failed, settled>>

TargetMoves ==
  /\ ~settled /\ goal' \in [Axes -> Targets]
  /\ UNCHANGED <<position, command, velocity, moving, failed, settled>>

Settle ==
  /\ settled' = TRUE
  /\ UNCHANGED <<position, goal, command, velocity, moving, failed>>

StepsNext ==
  \/ \E ticks \in Ticks : Advance(ticks)
  \/ StayAtRest \/ RobotMoves \/ TargetMoves \/ Settle
=============================================================================
