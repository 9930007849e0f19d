-------------------------- MODULE FrankyNodeProofs --------------------------
(***************************************************************************)
(* The franky pose node and what it is launched with, for every workspace, *)
(* speed and target: a disabled teleoperation stays stopped, commands are  *)
(* gentle, hands keep to their arms, and traces to one origin.             *)
(***************************************************************************)
EXTENDS FrankyNode, TLAPS

-----------------------------------------------------------------------------
(* The threads of the node.                                                 *)

\* What is missing in DisabledMeansStopped to be inductive: the control thread
\* holds command_send_lock just while it sends, so that the handler of the
\* message that disables waits for a motion that was on its way; and a robot
\* that was dropped does not move.
SendInv ==
  /\ sendLock <=> ctl = "send"
  /\ ~robot => sent # "move"
  /\ ~enabled /\ ex # "disable" => sent # "move" /\ ctl # "send"

ThreadsInv == TypeOK /\ SendInv

LEMMA ThreadsStart == Init => ThreadsInv
<1> SUFFICES ASSUME Init PROVE ThreadsInv
  OBVIOUS
<1>1. TypeOK
  <2>1. {robot, enabled, enabledFresh, hold, cooled, motionActive, sendLock, gripper}
          \subseteq BOOLEAN
    BY DEF Init
  <2>2. /\ mode \in Modes /\ current = "invalid" /\ target = "invalid"
        /\ ex = "idle" /\ ctl = "sleep" /\ seen = "disabled"
        /\ sent = "none" /\ grippers = 0
    BY DEF Init
  <2> QED
    BY <2>1, <2>2 DEF TypeOK
<1>2. SendInv
  BY DEF Init, SendInv
<1> QED
  BY <1>1, <1>2 DEF ThreadsInv

\* An exception in either thread does not touch the lock, and drops the robot
\* only with its motion.
LEMMA ExceptionStep ==
  ASSUME ThreadsInv, NEW t \in Threads,
         SetException(t) \/ AttemptErrorRecovery(t) \/ ErrorRecovered(t)
  PROVE  ThreadsInv'
<1> USE DEF ThreadsInv, Threads, At, Goto, Rest
<1>1. CASE SetException(t)
  <2>1. TypeOK'
    BY <1>1 DEF SetException, TypeOK, targetVars, timeVars, gripperVars
  <2>2. SendInv'
    BY <1>1 DEF SetException, SendInv, targetVars, gripperVars
  <2> QED
    BY <2>1, <2>2
<1>2. CASE AttemptErrorRecovery(t)
  <2>1. TypeOK'
    BY <1>2 DEF AttemptErrorRecovery, TypeOK, targetVars, timeVars, gripperVars
  <2>2. SendInv'
    BY <1>2 DEF AttemptErrorRecovery, SendInv, targetVars, gripperVars
  <2> QED
    BY <2>1, <2>2
<1>3. CASE ErrorRecovered(t)
  <2>1. TypeOK'
    BY <1>3 DEF ErrorRecovered, TypeOK, gripperVars
  <2>2. SendInv'
    BY <1>3 DEF ErrorRecovered, SendInv, gripperVars
  <2> QED
    BY <2>1, <2>2
<1> QED
  BY <1>1, <1>2, <1>3

\* A stop leaves the last motion unchanged only if there is no robot, or if it
\* is not forced.
LEMMA StopResult ==
  ASSUME ThreadsInv, NEW force \in BOOLEAN, StopIfActive(force)
  PROVE  /\ motionActive' = FALSE
         /\ sent' \in {sent, "stop", "refused"}
         /\ force => sent' # "move"
BY DEF StopIfActive, SendStopMotion, ThreadsInv, SendInv

LEMMA ExecutorStep ==
  ASSUME ThreadsInv, Executor
  PROVE  ThreadsInv'
<1> USE DEF ThreadsInv, Goto
<1>1. CASE TargetCallback
  BY <1>1 DEF TargetCallback, TypeOK, SendInv, timeVars, gripperVars
<1>2. ASSUME NEW value \in BOOLEAN, EnabledCallback(value) PROVE ThreadsInv'
  <2>1. TypeOK'
    BY <1>2 DEF EnabledCallback, TypeOK, timeVars, gripperVars
  <2>2. SendInv'
    BY <1>2 DEF EnabledCallback, SendInv, TypeOK
  <2> QED
    BY <2>1, <2>2
<1>3. CASE HandleTeleopDisabled
  <2>1. sent' # "move" /\ sent' \in {sent, "stop", "refused"} /\ motionActive' = FALSE
    BY <1>3, StopResult DEF HandleTeleopDisabled
  <2>2. TypeOK'
    BY <1>3, <2>1 DEF HandleTeleopDisabled, TypeOK, targetVars, timeVars, gripperVars
  <2>3. SendInv'
    BY <1>3, <2>1 DEF HandleTeleopDisabled, SendInv, targetVars
  <2> QED
    BY <2>2, <2>3
<1>4. CASE ReadCurrentState
  BY <1>4 DEF ReadCurrentState, TypeOK, SendInv, targetVars, timeVars, gripperVars
<1>5. CASE TryConnectRobot
  BY <1>5 DEF TryConnectRobot, TypeOK, SendInv, targetVars, timeVars, gripperVars
<1>6. CASE StartGripperCommand
  BY <1>6 DEF StartGripperCommand, TypeOK, SendInv, targetVars, timeVars
<1> QED
  BY <1>1, <1>2, <1>3, <1>4, <1>5, <1>6, ExceptionStep DEF Executor, Threads

\* The control thread sends what it found enabled under command_send_lock.
LEMMA ControlStep ==
  ASSUME ThreadsInv, Control
  PROVE  ThreadsInv'
<1> USE DEF ThreadsInv
<1>1. CASE Snapshot
  <2>1. TypeOK'
    BY <1>1 DEF Snapshot, TypeOK, targetVars, timeVars, gripperVars
  <2>2. SendInv'
    BY <1>1 DEF Snapshot, SendInv, targetVars
  <2> QED
    BY <2>1, <2>2
<1>2. CASE Decide
  <2>1. sent' \in {sent, "stop", "refused"} /\ motionActive' \in {motionActive, FALSE}
    BY <1>2, StopResult DEF Decide
  <2>2. ctl = "decide" /\ ctl' \in {"sleep", "lock"}
    BY <1>2 DEF Decide
  <2>3. TypeOK'
    BY <1>2, <2>1, <2>2 DEF Decide, TypeOK, targetVars, timeVars, gripperVars
  <2>4. SendInv'
    BY <1>2, <2>1, <2>2 DEF Decide, SendInv, targetVars
  <2> QED
    BY <2>3, <2>4
<1>3. CASE CheckStillEnabled
  <2>1. \/ enabled /\ sendLock' = TRUE /\ ctl' = "send" /\ UNCHANGED <<motionActive, sent>>
        \/ /\ ctl' = "sleep" /\ sendLock' = sendLock
           /\ motionActive' = FALSE /\ sent' \in {sent, "stop", "refused"}
    BY <1>3, StopResult DEF CheckStillEnabled
  <2>2. ctl = "lock"
    BY <1>3 DEF CheckStillEnabled
  <2>3. TypeOK'
    BY <1>3, <2>1 DEF CheckStillEnabled, TypeOK, targetVars, timeVars, gripperVars
  <2>4. SendInv'
    BY <1>3, <2>1, <2>2 DEF CheckStillEnabled, SendInv, targetVars
  <2> QED
    BY <2>3, <2>4
<1>4. CASE Send
  <2>1. TypeOK'
    BY <1>4 DEF Send, TypeOK, targetVars, timeVars, gripperVars
  <2>2. SendInv'
    BY <1>4 DEF Send, SendInv, targetVars
  <2> QED
    BY <2>1, <2>2
<1> QED
  BY <1>1, <1>2, <1>3, <1>4, ExceptionStep DEF Control, Threads

LEMMA ThreadsStep == ThreadsInv /\ [Next]_vars => ThreadsInv'
<1> SUFFICES ASSUME ThreadsInv, [Next]_vars PROVE ThreadsInv'
  OBVIOUS
<1> USE DEF ThreadsInv
<1>1. CASE UNCHANGED vars
  BY <1>1 DEF vars, TypeOK, SendInv, targetVars, timeVars, gripperVars
<1>2. CASE RunGripperCommand
  BY <1>2 DEF RunGripperCommand, TypeOK, SendInv, targetVars, timeVars
<1>3. CASE Expire
  <2>1. {enabledFresh', hold', cooled'} \subseteq BOOLEAN /\ target' \in {"invalid", "fresh", "stale"}
    BY <1>3 DEF Expire, TypeOK, timeVars
  <2>2. TypeOK'
    BY <1>3, <2>1 DEF Expire, TypeOK, gripperVars
  <2>3. SendInv'
    BY <1>3 DEF Expire, SendInv
  <2> QED
    BY <2>2, <2>3
<1> QED
  BY <1>1, <1>2, <1>3, ExecutorStep, ControlStep DEF Next

-----------------------------------------------------------------------------
(* The commands of its control thread.                                      *)

\* Squares grow with what is squared.
LEMMA SquareOrder ==
  ASSUME NEW a \in Nat, NEW b \in Nat, a * a <= b * b
  PROVE  a <= b
<1> SUFFICES ASSUME a >= b + 1 PROVE FALSE
  OBVIOUS
<1>1. a * a >= (b + 1) * (b + 1)
  <2>1. a * a >= a * (b + 1)
    OBVIOUS
  <2>2. a * (b + 1) >= (b + 1) * (b + 1)
    OBVIOUS
  <2> QED BY <2>1, <2>2
<1>2. (b + 1) * (b + 1) > b * b
  OBVIOUS
<1> QED BY <1>1, <1>2

LEMMA SquareSign == ASSUME NEW a \in Int PROVE a * a >= 0 /\ (a # 0 => a * a > 0)
OBVIOUS

\* The sum of two vectors has at most the sum of their norms.
LEMMA Triangle ==
  ASSUME NEW a \in Int, NEW b \in Int, NEW c \in Int, NEW d \in Int,
         NEW r \in Nat, NEW k \in Nat,
         a * a + b * b <= r * r, c * c + d * d <= k * k
  PROVE  (a + c) * (a + c) + (b + d) * (b + d) <= (r + k) * (r + k)
<1> DEFINE dot == a * c + b * d
           p == a * a + b * b
           q == c * c + d * d
<1>1. dot \in Int /\ p \in Nat /\ q \in Nat /\ r * r \in Nat /\ k * k \in Nat /\ r * k \in Nat
  <2>1. a * a >= 0 /\ b * b >= 0 /\ c * c >= 0 /\ d * d >= 0
    BY SquareSign
  <2> QED BY <2>1
<1>2. dot * dot <= p * q
  <2>1. (a * d - b * c) * (a * d - b * c) >= 0
    BY SquareSign
  <2>2. p * q = dot * dot + (a * d - b * c) * (a * d - b * c)
    OBVIOUS
  <2>3. dot * dot \in Int /\ p * q \in Int /\ (a * d - b * c) * (a * d - b * c) \in Int
    OBVIOUS
  <2> QED BY <2>1, <2>2, <2>3
<1>3. p * q <= (r * k) * (r * k)
  <2> HIDE DEF p, q
  <2>1. p <= r * r /\ q <= k * k
    BY DEF p, q
  <2>2. p * q <= (r * r) * q
    BY <1>1, <2>1
  <2>3. (r * r) * q <= (r * r) * (k * k)
    BY <1>1, <2>1
  <2>4. (r * r) * (k * k) = (r * k) * (r * k)
    OBVIOUS
  <2>5. p * q \in Int /\ (r * r) * q \in Int /\ (r * r) * (k * k) \in Int
    BY <1>1
  <2> QED BY <2>2, <2>3, <2>4, <2>5
<1>4. dot <= r * k
  <2> HIDE DEF dot, p, q
  <2>1. CASE dot < 0
    BY <1>1, <2>1
  <2>2. CASE dot >= 0
    <3>1. dot \in Nat /\ r * k \in Nat
      BY <1>1, <2>2
    <3>2. dot * dot <= (r * k) * (r * k)
      <4>1. dot * dot \in Int /\ p * q \in Int /\ (r * k) * (r * k) \in Int
        BY <1>1
      <4> QED BY <1>2, <1>3, <4>1
    <3> QED BY <3>1, <3>2, SquareOrder
  <2> QED BY <1>1, <2>1, <2>2
<1>5. (a + c) * (a + c) + (b + d) * (b + d) = p + q + 2 * dot
  OBVIOUS
<1>6. (r + k) * (r + k) = r * r + k * k + 2 * (r * k)
  OBVIOUS
<1>7. p <= r * r /\ q <= k * k
  OBVIOUS
<1> HIDE DEF dot, p, q
<1> QED BY <1>1, <1>4, <1>5, <1>6, <1>7

LEMMA VectorTypes ==
  ASSUME NEW v \in Point, NEW w \in Point, NEW n \in Int
  PROVE  /\ v["x"] \in Int /\ v["y"] \in Int
         /\ Plus(v, w) \in Point /\ Minus(v, w) \in Point /\ Times(v, n) \in Point
         /\ Zero \in Point /\ Square(v) \in Nat /\ Dot(v, w) \in Int
<1>1. v["x"] \in Int /\ v["y"] \in Int /\ w["x"] \in Int /\ w["y"] \in Int
  BY DEF Point, Axes
<1>2. Plus(v, w) \in Point /\ Minus(v, w) \in Point /\ Times(v, n) \in Point /\ Zero \in Point
  BY DEF Point, Plus, Minus, Times, Zero
<1>3. Dot(v, w) \in Int
  BY <1>1 DEF Dot
<1>4. v["x"] * v["x"] \in Nat /\ v["y"] * v["y"] \in Nat
  BY <1>1, SquareSign
<1>5. Square(v) \in Nat
  BY <1>4 DEF Square, Dot
<1> QED BY <1>1, <1>2, <1>3, <1>5

LEMMA SquareType == ASSUME NEW v \in Point PROVE Square(v) \in Nat
<1>1. v["x"] \in Int /\ v["y"] \in Int
  BY VectorTypes
<1>2. v["x"] * v["x"] \in Nat /\ v["y"] * v["y"] \in Nat
  BY <1>1, SquareSign
<1> QED BY <1>2 DEF Square, Dot

\* A disc holds the vectors whose norm is its radius at most.
LEMMA DiscVectors ==
  ASSUME NEW r \in Nat
  PROVE  /\ Disc(r) \subseteq Point
         /\ \A v \in Disc(r) : Square(v) <= r * r
         /\ \A v \in Point : Square(v) <= r * r => v \in Disc(r)
         /\ Zero \in Disc(r)
<1>1. Disc(r) \subseteq Point /\ \A v \in Disc(r) : Square(v) <= r * r
  BY DEF Disc, Point
<1>2. ASSUME NEW v \in Point, Square(v) <= r * r PROVE v \in Disc(r)
  <2>1. \A a \in Axes : v[a] \in Int /\ v[a] * v[a] <= r * r
    <3>1. v["x"] \in Int /\ v["y"] \in Int
      BY VectorTypes
    <3>2. v["x"] * v["x"] >= 0 /\ v["y"] * v["y"] >= 0
      BY <3>1, SquareSign
    <3>3. v["x"] * v["x"] + v["y"] * v["y"] <= r * r
      BY <1>2 DEF Square, Dot
    <3>4. v["x"] * v["x"] \in Int /\ v["y"] * v["y"] \in Int /\ r * r \in Int
      BY <3>1
    <3>5. v["x"] * v["x"] <= r * r /\ v["y"] * v["y"] <= r * r
      BY <3>2, <3>3, <3>4
    <3> QED BY <3>1, <3>5 DEF Axes
  <2>2. ASSUME NEW a \in Axes PROVE v[a] \in -r .. r
    <3>1. CASE v[a] >= 0
      BY <2>1, <3>1, SquareOrder
    <3>2. CASE v[a] < 0
      <4>1. -v[a] \in Nat /\ (-v[a]) * (-v[a]) = v[a] * v[a]
        BY <2>1, <3>2
      <4>2. -v[a] <= r
        BY <2>1, <4>1, SquareOrder
      <4> QED BY <2>1, <3>2, <4>2
    <3> QED BY <2>1, <3>1, <3>2
  <2>3. v \in [Axes -> -r .. r]
    BY <2>2 DEF Point
  <2> QED BY <1>2, <2>3 DEF Disc
<1>3. Zero \in Point /\ Square(Zero) = 0 /\ r * r >= 0
  BY DEF Zero, Point, Square, Dot, Axes
<1> QED BY <1>1, <1>2, <1>3

\* A vector with the square of another in a disc, or a smaller one, is in it.
LEMMA DiscSmaller ==
  ASSUME NEW r \in Nat, NEW u \in Disc(r), NEW w \in Point, Square(w) <= Square(u)
  PROVE  w \in Disc(r)
<1>1. Square(u) <= r * r /\ u \in Point
  BY DiscVectors
<1>2. Square(w) \in Nat /\ Square(u) \in Nat
  BY <1>1, SquareType
<1>3. r * r \in Int
  OBVIOUS
<1>4. Square(w) <= r * r
  BY <1>1, <1>2, <1>3
<1> QED BY <1>4, DiscVectors

\* A change by k at most of a vector of norm r at most.
LEMMA DiscSum ==
  ASSUME NEW r \in Nat, NEW k \in Nat, NEW v \in Disc(r), NEW w \in Point,
         Minus(w, v) \in Disc(k)
  PROVE  w \in Disc(r + k)
<1> DEFINE d == Minus(w, v)
<1>1. v \in Point /\ d \in Point /\ Square(v) <= r * r /\ Square(d) <= k * k
  BY DiscVectors
<1>2. v["x"] \in Int /\ v["y"] \in Int /\ w["x"] \in Int /\ w["y"] \in Int
  BY <1>1, VectorTypes
<1>3. d["x"] = w["x"] - v["x"] /\ d["y"] = w["y"] - v["y"]
  BY DEF Minus, Axes
<1> HIDE DEF d
<1>4. (v["x"] + d["x"]) * (v["x"] + d["x"]) + (v["y"] + d["y"]) * (v["y"] + d["y"])
        <= (r + k) * (r + k)
  <2>1. d["x"] \in Int /\ d["y"] \in Int
    BY <1>2, <1>3
  <2> QED BY <1>1, <1>2, <2>1, Triangle DEF Square, Dot
<1>5. w["x"] = v["x"] + d["x"] /\ w["y"] = v["y"] + d["y"]
  BY <1>2, <1>3
<1>6. Square(w) <= (r + k) * (r + k)
  BY <1>4, <1>5 DEF Square, Dot
<1> QED BY <1>6, DiscVectors

\* A quotient is between zero and what was divided.
Between(a, b) == (0 <= a /\ a <= b) \/ (b <= a /\ a <= 0)

LEMMA QuotientBetween ==
  ASSUME NEW v \in Point, NEW n \in Nat \ {0}
  PROVE  /\ Quotient(v, n) \in Point
         /\ \A a \in Axes : Between(Quotient(v, n)[a] * n, v[a])
<1> SUFFICES ASSUME NEW a \in Axes
             PROVE  Quotient(v, n)[a] \in Int /\ Between(Quotient(v, n)[a] * n, v[a])
  BY DEF Quotient, Point
<1>1. v[a] \in Int
  BY DEF Point
<1>2. CASE v[a] >= 0
  <2>1. v[a] \div n \in Nat /\ n * (v[a] \div n) <= v[a]
    BY <1>1, <1>2
  <2>2. Quotient(v, n)[a] = v[a] \div n
    BY <1>1, <1>2 DEF Quotient
  <2>3. (v[a] \div n) * n = n * (v[a] \div n) /\ n * (v[a] \div n) >= 0
    BY <2>1
  <2> QED BY <1>1, <2>1, <2>2, <2>3 DEF Between
<1>3. CASE v[a] < 0
  <2> DEFINE u == -v[a]
  <2>1. u \in Nat
    BY <1>1, <1>3
  <2>2. u \div n \in Nat /\ n * (u \div n) <= u
    BY <2>1
  <2>3. Quotient(v, n)[a] = -(u \div n)
    BY <1>1, <1>3 DEF Quotient
  <2>4. (-(u \div n)) * n = -(n * (u \div n)) /\ n * (u \div n) >= 0
    BY <2>2
  <2>5. v[a] = -u
    BY <1>1
  <2> HIDE DEF u
  <2> QED BY <2>1, <2>2, <2>3, <2>4, <2>5 DEF Between
<1> QED BY <1>1, <1>2, <1>3

\* What is between has the smaller square.
LEMMA BetweenSquare ==
  ASSUME NEW a \in Int, NEW b \in Int, Between(a, b)
  PROVE  a * a <= b * b
<1>1. CASE 0 <= a /\ a <= b
  <2>1. a * a <= a * b /\ a * b <= b * b
    BY <1>1
  <2> QED BY <2>1
<1>2. CASE b <= a /\ a <= 0
  <2>1. a * a <= a * b /\ a * b <= b * b
    BY <1>2
  <2> QED BY <2>1
<1> QED BY <1>1, <1>2 DEF Between

LEMMA TimesSquare ==
  ASSUME NEW v \in Point, NEW n \in Int
  PROVE  Square(Times(v, n)) = (n * n) * Square(v)
<1>1. v["x"] \in Int /\ v["y"] \in Int
  BY VectorTypes
<1>2. Times(v, n)["x"] = v["x"] * n /\ Times(v, n)["y"] = v["y"] * n
  BY DEF Times, Axes
<1>3. (v["x"] * n) * (v["x"] * n) + (v["y"] * n) * (v["y"] * n)
        = (n * n) * (v["x"] * v["x"] + v["y"] * v["y"])
  BY <1>1
<1> QED BY <1>2, <1>3 DEF Square, Dot

\* The velocity that is left of one that leads past the target is smaller.
LEMMA QuotientSlower ==
  ASSUME NEW v \in Point, NEW delta \in Point, NEW n \in Nat \ {0},
         Square(Times(v, n)) > Square(delta)
  PROVE  Square(Quotient(delta, n)) <= Square(v)
<1> DEFINE q == Quotient(delta, n)
<1>1. q \in Point
  BY QuotientBetween
<1>2. Square(Times(q, n)) <= Square(delta)
  <2>1. \A a \in Axes : /\ q[a] * n \in Int /\ delta[a] \in Int
                        /\ Between(q[a] * n, delta[a])
    BY <1>1, QuotientBetween DEF Point
  <2>2. \A a \in Axes : (q[a] * n) * (q[a] * n) <= delta[a] * delta[a]
    BY <2>1, BetweenSquare
  <2>3. Times(q, n)["x"] = q["x"] * n /\ Times(q, n)["y"] = q["y"] * n
    BY DEF Times, Axes
  <2> HIDE DEF q
  <2>4. (q["x"] * n) * (q["x"] * n) <= delta["x"] * delta["x"]
        /\ (q["y"] * n) * (q["y"] * n) <= delta["y"] * delta["y"]
    BY <2>2 DEF Axes
  <2>5. /\ (q["x"] * n) * (q["x"] * n) \in Int /\ (q["y"] * n) * (q["y"] * n) \in Int
        /\ delta["x"] * delta["x"] \in Int /\ delta["y"] * delta["y"] \in Int
    BY <2>1 DEF Axes
  <2> QED BY <2>3, <2>4, <2>5 DEF Square, Dot
<1> HIDE DEF q
<1>3. Square(v) \in Nat /\ Square(q) \in Nat /\ Square(delta) \in Nat /\ n * n \in Nat \ {0}
  <2>1. n * n > 0
    BY SquareSign
  <2> QED BY <1>1, <2>1, VectorTypes
<1>4. (n * n) * Square(q) < (n * n) * Square(v)
  <2>1. (n * n) * Square(q) <= Square(delta) /\ Square(delta) < (n * n) * Square(v)
    BY <1>1, <1>2, TimesSquare
  <2> QED BY <1>3, <2>1
<1>5. SUFFICES ASSUME Square(q) > Square(v) PROVE FALSE
  BY <1>3 DEF q
<1>6. (n * n) * Square(q) >= (n * n) * Square(v)
  BY <1>3, <1>5
<1> QED BY <1>3, <1>4, <1>6

\* A coordinate that is not between zero and what it should come near to can
\* come nearer without growing.
LEMMA Clamp ==
  ASSUME NEW p \in Int, NEW q \in Int, ~Between(p, q)
  PROVE  \E c \in Int : c * c <= p * p /\ (c - q) * (c - q) < (p - q) * (p - q)
<1>1. CASE (p > q /\ q >= 0) \/ (p < q /\ q < 0)
  <2>1. Between(q, p) \/ Between(p, q)
    BY <1>1 DEF Between
  <2>2. q * q <= p * p
    BY <2>1, BetweenSquare
  <2>3. (q - q) * (q - q) = 0
    OBVIOUS
  <2>4. (p - q) * (p - q) > 0
    BY <1>1, SquareSign
  <2> QED BY <2>2, <2>3, <2>4
<1>2. CASE p < 0 /\ q >= 0
  <2>1. p * p > 0 /\ p * q <= 0
    BY <1>2, SquareSign
  <2>2. (p - q) * (p - q) = p * p + q * q - 2 * (p * q)
    OBVIOUS
  <2>3. p * p \in Int /\ q * q \in Int /\ p * q \in Int
    OBVIOUS
  <2>4. 0 * 0 <= p * p /\ (0 - q) * (0 - q) < (p - q) * (p - q)
    <3>1. 0 * 0 = 0 /\ (0 - q) * (0 - q) = q * q
      OBVIOUS
    <3> QED BY <2>1, <2>2, <2>3, <3>1
  <2> QED BY <2>4
<1>3. CASE p > 0 /\ q < 0
  <2>1. p * p > 0 /\ p * q <= 0
    BY <1>3, SquareSign
  <2>2. (p - q) * (p - q) = p * p + q * q - 2 * (p * q)
    OBVIOUS
  <2>3. p * p \in Int /\ q * q \in Int /\ p * q \in Int
    OBVIOUS
  <2>4. 0 * 0 <= p * p /\ (0 - q) * (0 - q) < (p - q) * (p - q)
    <3>1. 0 * 0 = 0 /\ (0 - q) * (0 - q) = q * q
      OBVIOUS
    <3> QED BY <2>1, <2>2, <2>3, <3>1
  <2> QED BY <2>4
<1> QED BY <1>1, <1>2, <1>3 DEF Between

\* A nearest vector of a set that with a vector holds all smaller ones.
LEMMA NearestBetween ==
  ASSUME NEW S, S \subseteq Point,
         \A u \in S : \A w \in Point : Square(w) <= Square(u) => w \in S,
         NEW v \in Point, NEW w \in Nearest(S, v), NEW a \in Axes
  PROVE  Between(w[a], v[a])
<1>1. CASE v \in S
  <2>1. w = v /\ v[a] \in Int
    BY <1>1 DEF Nearest, Point
  <2> QED BY <2>1 DEF Between
<1>2. CASE v \notin S
  <2>1. w \in S /\ w \in Point /\ \A u \in S : Apart(w, v) <= Apart(u, v)
    BY <1>2 DEF Nearest
  <2>2. SUFFICES ASSUME ~Between(w[a], v[a]) PROVE FALSE
    OBVIOUS
  <2>3. /\ v["x"] \in Int /\ v["y"] \in Int /\ w["x"] \in Int /\ w["y"] \in Int
        /\ w[a] \in Int /\ v[a] \in Int
    BY <2>1 DEF Point, Axes
  <2>4. PICK c \in Int : /\ c * c <= w[a] * w[a]
                         /\ (c - v[a]) * (c - v[a]) < (w[a] - v[a]) * (w[a] - v[a])
    BY <2>2, <2>3, Clamp
  <2> DEFINE u == [w EXCEPT ![a] = c]
  <2>5. u \in Point
    BY <2>1 DEF Point
  <2>6. Square(u) <= Square(w) /\ Apart(u, v) < Apart(w, v)
    <3>1. CASE a = "x"
      <4>1. u["x"] = c /\ u["y"] = w["y"]
        BY <2>1, <3>1 DEF Point, Axes
      <4>2. /\ Square(u) = c * c + w["y"] * w["y"]
            /\ Square(w) = w["x"] * w["x"] + w["y"] * w["y"]
            /\ Apart(u, v) = (c - v["x"]) * (c - v["x"]) + (w["y"] - v["y"]) * (w["y"] - v["y"])
            /\ Apart(w, v) = (w["x"] - v["x"]) * (w["x"] - v["x"])
                               + (w["y"] - v["y"]) * (w["y"] - v["y"])
        BY <4>1 DEF Square, Dot, Apart
      <4>3. /\ c * c \in Int /\ w["x"] * w["x"] \in Int /\ w["y"] * w["y"] \in Int
            /\ (c - v["x"]) * (c - v["x"]) \in Int
            /\ (w["x"] - v["x"]) * (w["x"] - v["x"]) \in Int
            /\ (w["y"] - v["y"]) * (w["y"] - v["y"]) \in Int
        BY <2>3
      <4> HIDE DEF u
      <4> QED BY <2>4, <3>1, <4>2, <4>3
    <3>2. CASE a = "y"
      <4>1. u["y"] = c /\ u["x"] = w["x"]
        BY <2>1, <3>2 DEF Point, Axes
      <4>2. /\ Square(u) = w["x"] * w["x"] + c * c
            /\ Square(w) = w["x"] * w["x"] + w["y"] * w["y"]
            /\ Apart(u, v) = (w["x"] - v["x"]) * (w["x"] - v["x"]) + (c - v["y"]) * (c - v["y"])
            /\ Apart(w, v) = (w["x"] - v["x"]) * (w["x"] - v["x"])
                               + (w["y"] - v["y"]) * (w["y"] - v["y"])
        BY <4>1 DEF Square, Dot, Apart
      <4>3. /\ c * c \in Int /\ w["x"] * w["x"] \in Int /\ w["y"] * w["y"] \in Int
            /\ (c - v["y"]) * (c - v["y"]) \in Int
            /\ (w["x"] - v["x"]) * (w["x"] - v["x"]) \in Int
            /\ (w["y"] - v["y"]) * (w["y"] - v["y"]) \in Int
        BY <2>3
      <4> HIDE DEF u
      <4> QED BY <2>4, <3>2, <4>2, <4>3
    <3> QED BY <3>1, <3>2 DEF Axes
  <2>7. u \in S
    BY <2>1, <2>5, <2>6
  <2>8. Apart(u, v) \in Int /\ Apart(w, v) \in Int
    <3>1. u["x"] \in Int /\ u["y"] \in Int
      BY <2>5 DEF Point, Axes
    <3> HIDE DEF u
    <3> QED BY <2>3, <3>1 DEF Apart
  <2> HIDE DEF u
  <2> QED BY <2>1, <2>6, <2>7, <2>8
<1> QED BY <1>1, <1>2

LEMMA BetweenTimes ==
  ASSUME NEW a \in Int, NEW b \in Int, NEW n \in Nat, Between(a, b)
  PROVE  Between(a * n, b * n)
<1>1. CASE 0 <= a /\ a <= b
  <2>1. 0 <= a * n /\ a * n <= b * n
    BY <1>1
  <2> QED BY <2>1 DEF Between
<1>2. CASE b <= a /\ a <= 0
  <2>1. b * n <= a * n /\ a * n <= 0
    BY <1>2
  <2> QED BY <2>1 DEF Between
<1> QED BY <1>1, <1>2 DEF Between

\* The velocity of a command from velocity v: within the limit, and changed by
\* the acceleration at most; from rest it is between zero and the way there.
LEMMA LimitedVelocity ==
  ASSUME NEW q \in Point, NEW v \in Point, NEW change \in Nat,
         NEW desired \in LimitVectorNorm(q),
         NEW next \in LimitVectorChange(desired, v, change),
         v \in Velocities
  PROVE  /\ next \in Velocities
         /\ Minus(next, v) \in Disc(change)
         /\ v = Zero => \A a \in Axes : Between(next[a], q[a])
<1> DEFINE S == {u \in Velocities : Minus(u, v) \in Disc(change)}
<1>1. Velocities \subseteq Point /\ MaxVelocity \in Nat
  BY StepsAssumption, DiscVectors DEF Velocities
<1>2. desired \in Velocities
  BY DEF LimitVectorNorm, Nearest
<1>3. next \in S
  BY DEF LimitVectorChange, Nearest
<1>4. ASSUME v = Zero, NEW a \in Axes PROVE Between(next[a], q[a])
  <2>1. ASSUME NEW u \in Point PROVE Minus(u, Zero) = u
    BY DEF Minus, Zero, Point
  <2>2. Between(desired[a], q[a])
    <3>1. \A u \in Velocities : \A w \in Point : Square(w) <= Square(u) => w \in Velocities
      BY <1>1, DiscSmaller DEF Velocities
    <3> QED BY <1>1, <3>1, NearestBetween DEF LimitVectorNorm
  <2>3. Between(next[a], desired[a])
    <3>1. \A u \in S : \A w \in Point : Square(w) <= Square(u) => w \in S
      <4> SUFFICES ASSUME NEW u \in S, NEW w \in Point, Square(w) <= Square(u)
                   PROVE  w \in S
        OBVIOUS
      <4>1. u \in Velocities /\ u \in Point /\ u \in Disc(change)
        BY <1>1, <1>4, <2>1
      <4>2. w \in Velocities /\ w \in Disc(change)
        BY <1>1, <4>1, DiscSmaller DEF Velocities
      <4> QED BY <1>4, <2>1, <4>2
    <3>2. S \subseteq Point /\ desired \in Point
      BY <1>1, <1>2
    <3>3. next \in Nearest(S, desired)
      BY DEF LimitVectorChange
    <3> HIDE DEF S
    <3> QED BY <3>1, <3>2, <3>3, NearestBetween
  <2>4. next[a] \in Int /\ desired[a] \in Int /\ q[a] \in Int
    BY <1>1, <1>2, <1>3 DEF Point
  <2> QED BY <2>2, <2>3, <2>4 DEF Between
<1> QED BY <1>3, <1>4

LEMMA TimesDisc ==
  ASSUME NEW r \in Nat, NEW v \in Disc(r), NEW n \in Nat
  PROVE  Times(v, n) \in Disc(r * n)
<1>1. v \in Point /\ Square(v) <= r * r
  BY DiscVectors
<1>2. Times(v, n) \in Point /\ Square(Times(v, n)) = (n * n) * Square(v)
  BY <1>1, VectorTypes, TimesSquare
<1>3. Square(v) \in Nat /\ r * r \in Nat /\ n * n \in Nat /\ r * n \in Nat
  BY <1>1, SquareType
<1>4. (n * n) * Square(v) <= (n * n) * (r * r)
  BY <1>1, <1>3
<1>5. (n * n) * (r * r) = (r * n) * (r * n)
  OBVIOUS
<1>6. Square(Times(v, n)) <= (r * n) * (r * n)
  BY <1>2, <1>4, <1>5
<1> QED BY <1>2, <1>3, <1>6, DiscVectors

\* What is sent leads nowhere or toward the target, no further than the velocity
\* goes, and leaves a velocity that is no larger.
LEMMA ShortenedBound ==
  ASSUME NEW v \in Velocities, NEW span \in Nat \ {0}, NEW delta \in Point,
         NEW step, step = Shortened(v, span, delta)
  PROVE  /\ step.by \in Disc(MaxVelocity * span)
         /\ step.by = Zero \/ Dot(step.by, delta) > 0
         /\ step.velocity \in Point /\ Square(step.velocity) <= Square(v)
         /\ step.by = Zero \/ step.by = delta \/ step.by = Times(v, span)
<1> DEFINE by == Times(v, span)
<1>1. MaxVelocity \in Nat /\ MaxVelocity * span \in Nat
  BY StepsAssumption
<1>2. v \in Point /\ Square(v) \in Nat /\ by \in Disc(MaxVelocity * span)
  BY <1>1, DiscVectors, SquareType, TimesDisc DEF Velocities
<1>3. Zero \in Point /\ Square(Zero) = 0 /\ Zero \in Disc(MaxVelocity * span)
  <2>1. Zero \in Disc(MaxVelocity * span) /\ Zero \in Point
    BY <1>1, DiscVectors
  <2>2. Square(Zero) = 0
    BY DEF Zero, Square, Dot, Axes
  <2> QED BY <2>1, <2>2
<1>4. CASE Dot(by, delta) <= 0
  <2>1. step = Step(Zero, Zero)
    BY <1>4 DEF Shortened
  <2>2. step.by = Zero /\ step.velocity = Zero
    BY <2>1 DEF Step
  <2> QED BY <1>2, <1>3, <2>2
<1>5. CASE ~(Dot(by, delta) <= 0) /\ Square(by) > Square(delta) /\ Aligned(by, delta)
  <2>1. step = Step(delta, Quotient(delta, span))
    BY <1>5 DEF Shortened
  <2>2. step.by = delta /\ step.velocity = Quotient(delta, span)
    BY <2>1 DEF Step
  <2>3. Quotient(delta, span) \in Point /\ Square(Quotient(delta, span)) <= Square(v)
    BY <1>2, <1>5, QuotientBetween, QuotientSlower
  <2>4. delta \in Disc(MaxVelocity * span)
    <3>1. by \in Point
      BY <1>1, <1>2, DiscVectors
    <3>2. Square(by) \in Nat /\ Square(delta) \in Nat
      BY <3>1, SquareType
    <3>3. Square(delta) <= Square(by)
      BY <1>5, <3>2
    <3> HIDE DEF by
    <3> QED BY <1>1, <1>2, <3>3, DiscSmaller
  <2>5. Dot(delta, delta) > 0
    <3>1. delta["x"] \in Int /\ delta["y"] \in Int
      BY VectorTypes
    <3>2. delta["x"] # 0 \/ delta["y"] # 0
      <4>1. SUFFICES ASSUME delta["x"] = 0, delta["y"] = 0 PROVE FALSE
        OBVIOUS
      <4>2. by["x"] \in Int /\ by["y"] \in Int
        BY <1>1, <1>2, DiscVectors DEF Point, Axes
      <4> HIDE DEF by
      <4>3. Dot(by, delta) = 0
        BY <4>1, <4>2 DEF Dot
      <4> QED BY <1>5, <4>3
    <3>3. /\ delta["x"] * delta["x"] \in Nat /\ delta["y"] * delta["y"] \in Nat
          /\ delta["x"] * delta["x"] > 0 \/ delta["y"] * delta["y"] > 0
      BY <3>1, <3>2, SquareSign
    <3> QED BY <3>3 DEF Dot
  <2> HIDE DEF by
  <2> QED BY <2>2, <2>3, <2>4, <2>5
<1>6. CASE ~(Dot(by, delta) <= 0) /\ ~(Square(by) > Square(delta) /\ Aligned(by, delta))
  <2>1. step = Step(by, v)
    BY <1>6 DEF Shortened
  <2>2. step.by = by /\ step.velocity = v
    BY <2>1 DEF Step
  <2>3. Dot(by, delta) \in Int
    <3>1. by \in Point
      BY <1>1, <1>2, DiscVectors
    <3> HIDE DEF by
    <3>2. by["x"] \in Int /\ by["y"] \in Int /\ delta["x"] \in Int /\ delta["y"] \in Int
      BY <3>1 DEF Point, Axes
    <3> QED BY <3>2 DEF Dot
  <2>4. Dot(by, delta) > 0
    BY <1>6, <2>3
  <2>5. Square(v) <= Square(v)
    BY <1>2
  <2>6. by = Times(v, span)
    OBVIOUS
  <2> HIDE DEF by
  <2> QED BY <1>2, <2>2, <2>4, <2>5, <2>6
<1> QED BY <1>4, <1>5, <1>6

StepsInv ==
  /\ position \in Point /\ command \in Point /\ goal \in [Axes -> Targets]
  /\ velocity \in Velocities
  /\ moving \in BOOLEAN /\ failed \in BOOLEAN /\ settled \in BOOLEAN

\* The way to a place of the workspace from another, or part of it, stays inside.
LEMMA StaysInside ==
  ASSUME NEW p \in Workspace, NEW c \in Workspace, NEW by \in Point,
         \A a \in Axes : Between(by[a], Minus(c, p)[a])
  PROVE  Plus(p, by) \in Workspace
<1> SUFFICES ASSUME NEW a \in Axes PROVE p[a] + by[a] \in Lowest .. Highest
  BY DEF Plus, Workspace
<1>1. p[a] \in Lowest .. Highest /\ c[a] \in Lowest .. Highest /\ by[a] \in Int
  BY DEF Workspace, Point
<1>2. Between(by[a], c[a] - p[a])
  BY DEF Minus
<1> QED
  BY <1>1, <1>2, StepsAssumption DEF Between

\* One step from a velocity within the limit: toward the target if anywhere, no
\* further than the limit, and faster by the acceleration at most; from rest it
\* is part of the way.
LEMMA StepBound ==
  ASSUME StepsInv, NEW v \in Velocities, NEW ticks \in Ticks,
         NEW step \in StepToward(v, ticks)
  PROVE  /\ step.by \in Point /\ step.by \in Disc(MaxVelocity * Span(ticks))
         /\ step.by = Zero \/ Dot(step.by, Minus(ClippedTarget, position)) > 0
         /\ step.velocity \in Velocities
         /\ \A speed \in 0 .. MaxVelocity :
              v \in Disc(speed) => step.velocity \in Disc(speed + Acceleration * ticks)
         /\ v = Zero /\ position \in Workspace => Plus(position, step.by) \in Workspace
<1> DEFINE span == Span(ticks)
           delta == Minus(ClippedTarget, position)
           change == Acceleration * ticks
           quotient == Quotient(delta, span)
<1>1. ClippedTarget \in Workspace /\ ClippedTarget \in Point /\ position \in Point
  <2>1. ASSUME NEW a \in Axes PROVE goal[a] \in Int
    BY StepsAssumption DEF StepsInv
  <2>2. ASSUME NEW a \in Axes
        PROVE  ClippedTarget[a] \in Lowest .. Highest
    BY <2>1, StepsAssumption DEF ClippedTarget
  <2>3. ClippedTarget \in Workspace
    BY <2>2 DEF ClippedTarget, Workspace
  <2>4. Workspace \subseteq Point
    BY StepsAssumption DEF Workspace, Point
  <2> QED
    BY <2>3, <2>4 DEF StepsInv
<1>2. delta \in Point
  BY <1>1, VectorTypes
<1>3. ticks \in Nat \ {0} /\ span \in Nat \ {0}
  BY StepsAssumption DEF Span
<1>4. change \in Nat /\ MaxVelocity \in Nat
  BY <1>3, StepsAssumption
<1>5. MaxVelocity * span \in Nat
  BY <1>3, <1>4
<1>6. Velocities \subseteq Point /\ Zero \in Velocities /\ Square(Zero) = 0
  <2>1. Square(Zero) = 0
    BY DEF Zero, Square, Dot, Axes
  <2> QED
    BY <1>4, <2>1, DiscVectors DEF Velocities
<1>7. quotient \in Point /\ \A a \in Axes : Between(quotient[a] * span, delta[a])
  BY <1>2, <1>3, QuotientBetween
<1>8. CASE delta = Zero
  <2>1. step = Step(Zero, Zero)
    BY <1>8 DEF StepToward
  <2>2. step.by = Zero /\ step.velocity = Zero
    BY <2>1 DEF Step
  <2>3. ASSUME NEW r \in Nat PROVE Zero \in Disc(r)
    BY DiscVectors
  <2>4. \A speed \in 0 .. MaxVelocity : speed + change \in Nat
    BY <1>4
  <2>5. position \in Workspace => Plus(position, Zero) = position
    BY <1>1 DEF Plus, Zero, Point
  <2> HIDE DEF change, span
  <2> QED
    BY <1>5, <1>6, <2>2, <2>3, <2>4, <2>5 DEF change, span
<1>9. CASE delta # Zero
  <2>1. PICK desired \in LimitVectorNorm(quotient) :
          \E u \in LimitVectorChange(desired, v, change) : step = Shortened(u, span, delta)
    BY <1>9 DEF StepToward
  <2>2. PICK next \in LimitVectorChange(desired, v, change) :
          step = Shortened(next, span, delta)
    BY <2>1
  <2> HIDE DEF span, delta, change, quotient
  <2>3. /\ next \in Velocities /\ Minus(next, v) \in Disc(change)
        /\ v = Zero => \A a \in Axes : Between(next[a], quotient[a])
    BY <1>4, <1>6, <1>7, LimitedVelocity
  <2>4. /\ step.by \in Disc(MaxVelocity * span)
        /\ step.by = Zero \/ Dot(step.by, delta) > 0
        /\ step.velocity \in Point /\ Square(step.velocity) <= Square(next)
        /\ step.by = Zero \/ step.by = delta \/ step.by = Times(next, span)
    BY <1>2, <1>3, <2>2, <2>3, ShortenedBound
  <2>5. step.by \in Point
    BY <1>5, <2>4, DiscVectors
  <2>6. step.velocity \in Velocities
    BY <1>4, <2>3, <2>4, DiscSmaller DEF Velocities
  <2>7. ASSUME NEW speed \in 0 .. MaxVelocity, v \in Disc(speed)
        PROVE  step.velocity \in Disc(speed + change)
    <3>1. speed \in Nat /\ speed + change \in Nat
      BY <1>4
    <3>2. next \in Disc(speed + change)
      BY <1>4, <1>6, <2>3, <2>7, <3>1, DiscSum
    <3> QED
      BY <2>4, <3>1, <3>2, DiscSmaller
  <2>8. ASSUME v = Zero, position \in Workspace PROVE Plus(position, step.by) \in Workspace
    <3>1. ASSUME NEW a \in Axes PROVE Between(step.by[a], delta[a])
      <4>1. next[a] \in Int /\ quotient[a] \in Int /\ delta[a] \in Int
        BY <1>2, <1>6, <1>7, <2>3 DEF Point
      <4>2. Between(next[a] * span, quotient[a] * span)
        BY <1>3, <2>3, <2>8, <4>1, BetweenTimes
      <4>3. Between(next[a] * span, delta[a])
        <5>1. next[a] * span \in Int /\ quotient[a] * span \in Int
          BY <1>3, <4>1
        <5>2. Between(quotient[a] * span, delta[a])
          BY <1>7
        <5> QED
          BY <4>1, <4>2, <5>1, <5>2 DEF Between
      <4>4. Times(next, span)[a] = next[a] * span /\ Zero[a] = 0
        BY DEF Times, Zero
      <4>5. Between(0, delta[a]) /\ Between(delta[a], delta[a])
        BY <4>1 DEF Between
      <4> QED
        BY <2>4, <4>3, <4>4, <4>5
    <3> QED
      BY <1>1, <2>5, <2>8, <3>1, StaysInside DEF delta
  <2> QED
    BY <2>4, <2>5, <2>6, <2>7, <2>8 DEF span, delta, change
<1> QED
  BY <1>8, <1>9

LEMMA StepsStart == StepsInit => StepsInv
<1> SUFFICES ASSUME StepsInit PROVE StepsInv
  OBVIOUS
<1>1. position \in Point /\ command \in Point
  BY StepsAssumption DEF StepsInit, Workspace, Point
<1>2. Zero \in Velocities
  BY StepsAssumption, DiscVectors DEF Velocities
<1> QED
  BY <1>1, <1>2 DEF StepsInit, StepsInv

\* One cycle that ends with a motion.
LEMMA AdvanceStep ==
  ASSUME StepsInv, NEW ticks \in Ticks, Advance(ticks)
  PROVE  LET by == Minus(command', position) IN
         /\ StepsInv'
         /\ by # Zero => Dot(by, Minus(ClippedTarget, position)) > 0
         /\ by \in Disc(MaxVelocity * Span(ticks))
         /\ \A speed \in 0 .. MaxVelocity :
              (IF moving THEN velocity ELSE Zero) \in Disc(speed)
                => velocity' \in Disc(speed + Acceleration * ticks)
         /\ ~moving /\ position \in Workspace => command' \in Workspace
<1> DEFINE v == IF moving THEN velocity ELSE RestVelocity
<1>1. v \in Velocities
  BY StepsAssumption, DiscVectors DEF StepsInv, RestVelocity, Velocities
<1>2. PICK step \in StepToward(v, ticks) :
        command' = Plus(position, step.by) /\ velocity' = step.velocity
  BY DEF Advance
<1>3. v = (IF moving THEN velocity ELSE Zero) /\ (~moving => v = Zero)
  BY DEF RestVelocity
<1> HIDE DEF v
<1>4. /\ step.by \in Point /\ step.by \in Disc(MaxVelocity * Span(ticks))
      /\ step.by = Zero \/ Dot(step.by, Minus(ClippedTarget, position)) > 0
      /\ step.velocity \in Velocities
      /\ \A speed \in 0 .. MaxVelocity :
           v \in Disc(speed) => step.velocity \in Disc(speed + Acceleration * ticks)
      /\ v = Zero /\ position \in Workspace => Plus(position, step.by) \in Workspace
  BY <1>1, StepBound
<1>5. Minus(command', position) = step.by
  BY <1>2, <1>4 DEF StepsInv, Minus, Plus, Point
<1>6. command' \in Point
  BY <1>2, <1>4, VectorTypes DEF StepsInv
<1>7. StepsInv'
  BY <1>2, <1>4, <1>6 DEF Advance, StepsInv
<1> QED
  BY <1>2, <1>3, <1>4, <1>5, <1>7

LEMMA StepsStep == StepsInv /\ [StepsNext]_stepVars => StepsInv'
<1> SUFFICES ASSUME StepsInv, [StepsNext]_stepVars PROVE StepsInv'
  OBVIOUS
<1>1. CASE UNCHANGED stepVars
  BY <1>1 DEF stepVars, StepsInv
<1>2. CASE StayAtRest
  <2>1. velocity' \in Velocities
    BY <1>2, StepsAssumption, DiscVectors DEF StayAtRest, RestVelocity, Velocities
  <2>2. moving' \in BOOLEAN /\ failed' \in BOOLEAN /\ settled' \in BOOLEAN
    BY <1>2 DEF StayAtRest, StepsInv
  <2>3. command' = position /\ position' = position /\ goal' = goal
    BY <1>2 DEF StayAtRest
  <2> QED
    BY <2>1, <2>2, <2>3 DEF StepsInv
<1>3. CASE RobotMoves
  <2>1. position' \in Point
    BY <1>3 DEF RobotMoves, StepsInv, Point
  <2> QED
    BY <1>3, <2>1 DEF RobotMoves, StepsInv
<1>4. CASE TargetMoves
  BY <1>4 DEF TargetMoves, StepsInv
<1>5. CASE Settle
  BY <1>5 DEF Settle, StepsInv
<1> QED
  BY <1>1, <1>2, <1>3, <1>4, <1>5, AdvanceStep DEF StepsNext

-----------------------------------------------------------------------------
(* Both hands.                                                              *)

Trigger(h) == IF h = "left" THEN "LTr" ELSE "RTr"
Following == {"controller_pose", "target_pose", "current_pose", "joint_states"}

\* OwnHand on every topic a message passes on its way to a robot.
HandsInv ==
  /\ \A h \in Sides : \A k \in Following : Known(topic[<<k, h>>]) \subseteq {h}
  /\ \A h \in Sides : Known(topic[<<"enabled", h>>]) \subseteq {Trigger(h)}
  /\ \A h \in Sides : tcp[h] \subseteq {h}
  /\ \A h \in Sides : armed[h] \subseteq {Trigger(h)}

\* The values are sets of hands and triggers.
Values == (SUBSET (Sides \cup {"LTr", "RTr"})) \cup {NoMessage}

DualInv ==
  /\ DualTypeOK /\ HandsInv /\ armed \in [Sides -> SUBSET {"LTr", "RTr"}]

LEMMA KnownValues ==
  ASSUME NEW m \in Values
  PROVE  /\ Known(m) \in SUBSET (Sides \cup {"LTr", "RTr"})
         /\ m # NoMessage => Known(m) = m
<1>1. CASE m = NoMessage
  <2>1. Known(m) = {}
    BY <1>1 DEF Known
  <2> QED
    BY <1>1, <2>1
<1>2. CASE m # NoMessage
  <2>1. Known(m) = m /\ m \in SUBSET (Sides \cup {"LTr", "RTr"})
    BY <1>2 DEF Known, Values
  <2> QED
    BY <2>1
<1> QED
  BY <1>1, <1>2

LEMMA DualStart ==
  ASSUME started \in SUBSET Sides, DualInit
  PROVE  DualInv
<1>1. DualTypeOK
  <2>1. topic \in [Topics -> Values]
    BY DEF DualInit, Values
  <2>2. tcp \in [Sides -> SUBSET Sides]
    BY DEF DualInit
  <2> QED
    BY <2>1, <2>2 DEF DualInit, DualTypeOK, Values
<1>2. \A k \in Kinds, h \in Sides : <<k, h>> \in Topics
  BY DEF Topics
<1>3. \A k \in Kinds, h \in Sides : Known(topic[<<k, h>>]) = {}
  BY <1>2 DEF DualInit, Known
<1>4. Following \subseteq Kinds /\ "enabled" \in Kinds
  BY DEF Following, Kinds
<1>5. HandsInv
  BY <1>3, <1>4 DEF DualInit, HandsInv
<1>6. armed \in [Sides -> SUBSET {"LTr", "RTr"}]
  BY DEF DualInit
<1> QED
  BY <1>1, <1>5, <1>6 DEF DualInv

\* Topics of the kinds are topics, and none of them is the buttons'.
LEMMA TopicsOf ==
  /\ \A k \in Kinds, h \in Sides : <<k, h>> \in Topics /\ <<k, h>> # ButtonsTopic
  /\ ButtonsTopic \in Topics
  /\ Following \subseteq Kinds /\ "enabled" \in Kinds
BY DEF Topics, Kinds, ButtonsTopic, Following

\* A tracked hand makes its own pose's topic.
LEMMA HeadsetStep ==
  ASSUME DualInv, NEW tracked \in SUBSET Sides, Quest3OculusTf(tracked)
  PROVE  DualInv'
<1> USE DEF DualInv
<1>1. \A t \in Topics :
        topic'[t] = IF t = ButtonsTopic THEN down
                    ELSE IF \E h \in tracked : t = <<"controller_pose", h>> THEN {t[2]}
                    ELSE topic[t]
  BY DEF Quest3OculusTf
<1>2. \A h \in Sides, k \in Kinds :
        topic'[<<k, h>>] = IF k = "controller_pose" /\ h \in tracked THEN {h}
                           ELSE topic[<<k, h>>]
  BY <1>1, TopicsOf
<1>3. topic' \in [Topics -> Values]
  <2>1. \A t \in Topics : topic[t] \in Values
    BY DEF DualTypeOK, Values
  <2>2. \A h \in tracked : {h} \in Values
    BY DEF Values
  <2>3. down \in Values
    BY DEF DualTypeOK, Values
  <2>4. ASSUME NEW t \in Topics PROVE topic'[t] \in Values
    <3>1. CASE t = ButtonsTopic
      BY <1>1, <2>3, <3>1
    <3>2. ASSUME t # ButtonsTopic, NEW h \in tracked, t = <<"controller_pose", h>>
          PROVE  topic'[t] \in Values
      <4>1. t[2] = h
        BY <3>2
      <4> QED
        BY <1>1, <2>2, <3>2, <4>1
    <3>3. CASE t # ButtonsTopic /\ ~ \E h \in tracked : t = <<"controller_pose", h>>
      BY <1>1, <2>1, <3>3
    <3> QED
      BY <3>1, <3>2, <3>3
  <2>5. DOMAIN topic' = Topics
    BY DEF Quest3OculusTf
  <2> QED
    BY <2>4, <2>5 DEF Quest3OculusTf
<1>4. UNCHANGED <<started, down, tcp, armed>>
  BY DEF Quest3OculusTf
<1>5. \A h \in Sides, k \in Following : Known(topic'[<<k, h>>]) \subseteq {h}
  BY <1>2, TopicsOf DEF HandsInv, Known
<1>6. \A h \in Sides : topic'[<<"enabled", h>>] = topic[<<"enabled", h>>]
  BY <1>2, TopicsOf
<1>7. HandsInv'
  BY <1>4, <1>5, <1>6 DEF HandsInv, Known
<1> QED
  BY <1>3, <1>4, <1>7 DEF DualTypeOK, Values

\* A node of one side reads and writes its side's topics.
LEMMA TeleopStep ==
  ASSUME DualInv, NEW h \in Sides, HandTeleopTimer(h)
  PROVE  DualInv'
<1> USE DEF DualInv
<1> DEFINE tracking == /\ Trigger(h) \in Known(topic[ButtonsTopic])
                       /\ topic[<<"controller_pose", h>>] # NoMessage
           followed == tcp[h] \cup Known(topic[<<"current_pose", h>>])
                         \cup (IF tracking THEN topic[<<"controller_pose", h>>] ELSE {})
           enabling == IF tracking THEN {Trigger(h)} ELSE {}
<1>1. /\ tcp' = [tcp EXCEPT ![h] = followed]
      /\ topic' = [topic EXCEPT ![<<"target_pose", h>>] = followed,
                                ![<<"enabled", h>>] = enabling]
      /\ UNCHANGED <<started, down, armed>>
  BY DEF HandTeleopTimer, HandTeleops, HandTeleopNode, Trigger
<1>2. \A k \in Kinds : topic[<<k, h>>] \in Values
  BY TopicsOf DEF DualTypeOK, Values
<1>3. followed \subseteq {h}
  <2>1. /\ Known(topic[<<"controller_pose", h>>]) \subseteq {h}
        /\ Known(topic[<<"current_pose", h>>]) \subseteq {h}
        /\ tcp[h] \subseteq {h}
    BY DEF HandsInv, Following
  <2>2. CASE tracking
    <3>1. topic[<<"controller_pose", h>>] \subseteq {h}
      BY <2>1, <2>2 DEF Known
    <3> QED
      BY <2>1, <2>2, <3>1
  <2>3. CASE ~tracking
    <3>1. followed = tcp[h] \cup Known(topic[<<"current_pose", h>>]) \cup {}
      BY <2>3
    <3> QED
      BY <2>1, <3>1
  <2> QED
    BY <2>2, <2>3
<1>4. enabling \subseteq {Trigger(h)}
  OBVIOUS
<1> HIDE DEF followed, enabling
<1>5. \A k \in Kinds, u \in Sides :
        topic'[<<k, u>>] = IF u = h /\ k = "target_pose" THEN followed
                           ELSE IF u = h /\ k = "enabled" THEN enabling
                           ELSE topic[<<k, u>>]
  BY <1>1, TopicsOf DEF DualTypeOK
<1>6. followed \in Values /\ enabling \in Values /\ followed \in SUBSET Sides
  BY <1>3, <1>4 DEF Values, Trigger
<1>7. DualTypeOK'
  BY <1>1, <1>6, TopicsOf DEF DualTypeOK, Values
<1>8. \A m : (m \subseteq {h} => Known(m) \subseteq {h})
              /\ (m \subseteq {Trigger(h)} => Known(m) \subseteq {Trigger(h)})
  BY DEF Known
<1>9. \A u \in Sides, k \in Following : Known(topic'[<<k, u>>]) \subseteq {u}
  BY <1>3, <1>5, <1>8, TopicsOf DEF HandsInv, Following
<1>10. \A u \in Sides : Known(topic'[<<"enabled", u>>]) \subseteq {Trigger(u)}
  BY <1>4, <1>5, <1>8, TopicsOf DEF HandsInv
<1>11. \A u \in Sides : tcp'[u] \subseteq {u} /\ armed'[u] \subseteq {Trigger(u)}
  BY <1>1, <1>3 DEF HandsInv, DualTypeOK
<1>12. HandsInv'
  BY <1>9, <1>10, <1>11 DEF HandsInv, Known
<1> QED
  BY <1>1, <1>7, <1>12

LEMMA RobotStep ==
  ASSUME DualInv, NEW h \in Sides, FrankyCartesianPose(h)
  PROVE  DualInv'
<1> USE DEF DualInv
<1> DEFINE moves == /\ Known(topic[<<"enabled", h>>]) # {}
                    /\ topic[<<"target_pose", h>>] # NoMessage
           followed == Known(topic[<<"current_pose", h>>])
                         \cup (IF moves THEN topic[<<"target_pose", h>>] ELSE {})
           pulled == IF moves THEN topic[<<"enabled", h>>] ELSE {}
<1>1. /\ topic' = [topic EXCEPT ![<<"current_pose", h>>] = followed,
                                ![<<"joint_states", h>>] = followed]
      /\ armed' = IF moves THEN [armed EXCEPT ![h] = @ \cup topic[<<"enabled", h>>]]
                           ELSE armed
      /\ UNCHANGED <<started, down, tcp>>
  BY DEF FrankyCartesianPose, FrankyNodes, FrankyCartesianPoseNode
<1>2. followed \subseteq {h}
  <2>1. /\ Known(topic[<<"target_pose", h>>]) \subseteq {h}
        /\ Known(topic[<<"current_pose", h>>]) \subseteq {h}
    BY DEF HandsInv, Following
  <2>2. CASE moves
    <3>1. topic[<<"target_pose", h>>] \subseteq {h}
      BY <2>1, <2>2 DEF Known
    <3> QED
      BY <2>1, <2>2, <3>1
  <2>3. CASE ~moves
    <3>1. followed = Known(topic[<<"current_pose", h>>]) \cup {}
      BY <2>3
    <3> QED
      BY <2>1, <3>1
  <2> QED
    BY <2>2, <2>3
<1>3. pulled \subseteq {Trigger(h)}
  <2>1. Known(topic[<<"enabled", h>>]) \subseteq {Trigger(h)}
    BY DEF HandsInv
  <2> QED
    BY <2>1 DEF Known
<1>4. armed' = [armed EXCEPT ![h] = @ \cup pulled]
  BY <1>1
<1> HIDE DEF followed, pulled, moves
<1>5. \A k \in Kinds, u \in Sides :
        topic'[<<k, u>>] = IF u = h /\ k \in {"current_pose", "joint_states"} THEN followed
                           ELSE topic[<<k, u>>]
  BY <1>1, TopicsOf DEF DualTypeOK
<1>6. followed \in Values
  BY <1>2 DEF Values
<1>7. DualTypeOK'
  BY <1>1, <1>6, TopicsOf DEF DualTypeOK, Values
<1>8. \A m : m \subseteq {h} => Known(m) \subseteq {h}
  BY DEF Known
<1>9. \A u \in Sides, k \in Following : Known(topic'[<<k, u>>]) \subseteq {u}
  BY <1>2, <1>5, <1>8, TopicsOf DEF HandsInv, Following
<1>10. \A u \in Sides : topic'[<<"enabled", u>>] = topic[<<"enabled", u>>]
  BY <1>5, TopicsOf
<1>11. \A u \in Sides : armed'[u] \subseteq {Trigger(u)}
  BY <1>3, <1>4 DEF HandsInv
<1>12. armed' \in [Sides -> SUBSET {"LTr", "RTr"}]
  BY <1>3, <1>4 DEF Trigger
<1>13. HandsInv'
  BY <1>1, <1>9, <1>10, <1>11 DEF HandsInv, Known
<1> QED
  BY <1>7, <1>12, <1>13

LEMMA SimStep ==
  ASSUME DualInv, NEW h \in Sides, FrankaSimIk(h)
  PROVE  DualInv'
<1> USE DEF DualInv
<1> DEFINE joints == Known(topic[<<"joint_states", h>>]) \cup Known(topic[<<"target_pose", h>>])
<1>1. /\ topic' = [topic EXCEPT ![<<"joint_states", h>>] = joints]
      /\ UNCHANGED <<started, down, tcp, armed>>
  BY DEF FrankaSimIk, SimNodes
<1>2. joints \subseteq {h}
  BY DEF HandsInv, Following
<1> HIDE DEF joints
<1>3. \A k \in Kinds, u \in Sides :
        topic'[<<k, u>>] = IF u = h /\ k = "joint_states" THEN joints ELSE topic[<<k, u>>]
  BY <1>1, TopicsOf DEF DualTypeOK
<1>4. joints \in Values
  BY <1>2 DEF Values
<1>5. DualTypeOK'
  BY <1>1, <1>4, TopicsOf DEF DualTypeOK, Values
<1>6. \A m : m \subseteq {h} => Known(m) \subseteq {h}
  BY DEF Known
<1>7. \A u \in Sides, k \in Following : Known(topic'[<<k, u>>]) \subseteq {u}
  BY <1>2, <1>3, <1>6, TopicsOf DEF HandsInv, Following
<1>8. \A u \in Sides : topic'[<<"enabled", u>>] = topic[<<"enabled", u>>]
  BY <1>3, TopicsOf
<1>9. HandsInv'
  BY <1>1, <1>7, <1>8 DEF HandsInv, Known
<1> QED
  BY <1>1, <1>5, <1>9

LEMMA DualStep == DualInv /\ [DualNext]_dualVars => DualInv'
<1> SUFFICES ASSUME DualInv, [DualNext]_dualVars PROVE DualInv'
  OBVIOUS
<1>1. CASE UNCHANGED dualVars
  BY <1>1 DEF dualVars, DualInv, DualTypeOK, HandsInv, Known
<1>2. ASSUME NEW trigger \in {"LTr", "RTr"}, Pull(trigger) PROVE DualInv'
  <2>1. down' \subseteq {"LTr", "RTr"}
    BY <1>2 DEF Pull, DualInv, DualTypeOK
  <2> QED
    BY <1>2, <2>1 DEF Pull, DualInv, DualTypeOK, HandsInv, Known
<1> QED
  BY <1>1, <1>2, HeadsetStep, TeleopStep, RobotStep, SimStep DEF DualNext

LEMMA DualHands == DualInv => OwnHand
BY DEF DualInv, HandsInv, OwnHand, Following, Trigger

-----------------------------------------------------------------------------
(* The plot.                                                                *)

Sample == [grip : Nat, origin : Nat]

\* What is missing in TraceCoherent to be inductive: without a pending reset,
\* the controller's trace is of the present grip.
GripInv ==
  plotConfig.resetOnEnable /\ ~resetOnNext =>
    \A i \in DOMAIN samples["controller"] : samples["controller"][i].grip = grip

PlotInv ==
  /\ teleopEnabled \in BOOLEAN /\ resetOnNext \in BOOLEAN /\ grip \in 0..MaxGrips
  /\ origin \in [Traces -> 0..MaxGrips \cup {NoOrigin}]
  /\ samples \in [Traces -> Seq(Sample)]
  /\ \A t \in Traces : Len(samples[t]) <= MaxPoints
  /\ TraceCoherent /\ GripInv

\* Whatever is dropped, a sample of the trace with a new one is one or the other.
LEMMA AppendedTrace ==
  ASSUME NEW trace \in Seq(Sample), Len(trace) <= MaxPoints, NEW sample \in Sample
  PROVE  /\ Appended(trace, sample) \in Seq(Sample)
         /\ Len(Appended(trace, sample)) <= MaxPoints
         /\ \A i \in DOMAIN Appended(trace, sample) :
              \/ Appended(trace, sample)[i] = sample
              \/ \E j \in DOMAIN trace : Appended(trace, sample)[i] = trace[j]
<1> DEFINE all == Append(trace, sample)
<1>1. all \in Seq(Sample) /\ Len(all) = Len(trace) + 1 /\ Len(trace) \in Nat
  OBVIOUS
<1>2. \A i \in 1..Len(all) : all[i] = IF i = Len(all) THEN sample ELSE trace[i]
  OBVIOUS
<1>3. CASE Len(all) > MaxPoints
  <2>1. Appended(trace, sample) = Tail(all)
    BY <1>3 DEF Appended
  <2>2. all # <<>>
    BY <1>1
  <2> HIDE DEF all
  <2>3. /\ Tail(all) \in Seq(Sample) /\ Len(Tail(all)) = Len(all) - 1
        /\ \A i \in 1..Len(Tail(all)) : Tail(all)[i] = all[i + 1]
    BY <1>1, <2>2
  <2>4. DOMAIN Tail(all) = 1..Len(Tail(all)) /\ DOMAIN trace = 1..Len(trace)
    BY <2>3
  <2>5. ASSUME NEW i \in DOMAIN Tail(all)
        PROVE  Tail(all)[i] = sample \/ \E j \in DOMAIN trace : Tail(all)[i] = trace[j]
    <3>1. i \in 1..Len(trace) /\ Tail(all)[i] = all[i + 1] /\ i + 1 \in 1..Len(all)
      BY <1>1, <2>3, <2>4
    <3>2. CASE i + 1 = Len(all)
      BY <1>2, <3>1, <3>2
    <3>3. CASE i + 1 # Len(all)
      <4>1. i + 1 \in DOMAIN trace /\ Tail(all)[i] = trace[i + 1]
        BY <1>1, <1>2, <2>4, <3>1, <3>3
      <4> QED
        BY <4>1
    <3> QED
      BY <3>2, <3>3
  <2>6. Len(Tail(all)) <= MaxPoints
    BY <1>1, <2>3, PlotAssumption
  <2> QED
    BY <2>1, <2>3, <2>5, <2>6
<1>4. CASE ~(Len(all) > MaxPoints)
  <2>1. Appended(trace, sample) = all
    BY <1>4 DEF Appended
  <2> HIDE DEF all
  <2>2. \A i \in DOMAIN all : all[i] = sample \/ \E j \in DOMAIN trace : all[i] = trace[j]
    BY <1>1, <1>2
  <2> QED
    BY <1>1, <1>4, <2>1, <2>2, PlotAssumption
<1> QED
  BY <1>3, <1>4

\* A sample is relative to the origin of its trace, old or new.
LEMMA RecordStep ==
  ASSUME PlotInv, NEW t \in Traces, NEW kept \in Seq(Sample), NEW known,
         \/ kept = samples[t] /\ known = origin[t]
         \/ kept = <<>> /\ known = NoOrigin,
         Record(t, kept, known)
  PROVE  /\ origin' \in [Traces -> 0..MaxGrips \cup {NoOrigin}]
         /\ samples' \in [Traces -> Seq(Sample)]
         /\ \A u \in Traces : Len(samples'[u]) <= MaxPoints
         /\ \A u \in Traces : \A i \in DOMAIN samples'[u] : samples'[u][i].origin = origin'[u]
         /\ \A u \in Traces \ {t} : samples'[u] = samples[u]
         /\ \A i \in DOMAIN samples'[t] :
              \/ samples'[t][i].grip = grip
              \/ \E j \in DOMAIN kept : samples'[t][i].grip = kept[j].grip
<1> USE DEF PlotInv
<1> DEFINE first == IF known = NoOrigin THEN grip ELSE known
           sample == [grip |-> grip, origin |-> first]
           new == Appended(kept, sample)
<1>1. origin' = [origin EXCEPT ![t] = first] /\ samples' = [samples EXCEPT ![t] = new]
  BY DEF Record
<1>2. first \in 0..MaxGrips /\ sample \in Sample /\ sample.origin = first /\ sample.grip = grip
  BY DEF Sample
<1>3. Len(kept) <= MaxPoints
  BY PlotAssumption
<1>4. \A j \in DOMAIN kept : kept[j].origin = first
  <2> SUFFICES ASSUME NEW j \in DOMAIN kept PROVE kept[j].origin = first
    OBVIOUS
  <2>1. kept # <<>> /\ kept = samples[t] /\ known = origin[t]
    OBVIOUS
  <2>2. kept[j].origin = origin[t] /\ kept[j].origin \in Nat
    <3>1. kept[j] \in Sample
      OBVIOUS
    <3>2. kept[j].origin = origin[t]
      BY <2>1 DEF TraceCoherent
    <3> QED
      BY <3>1, <3>2 DEF Sample
  <2>3. origin[t] # NoOrigin
    BY <2>2, PlotAssumption
  <2> QED
    BY <2>1, <2>2, <2>3
<1> HIDE DEF first, sample
<1>5. /\ new \in Seq(Sample) /\ Len(new) <= MaxPoints
      /\ \A i \in DOMAIN new : new[i] = sample \/ \E j \in DOMAIN kept : new[i] = kept[j]
  BY <1>2, <1>3, AppendedTrace
<1> HIDE DEF new
<1>6. \A i \in DOMAIN new : new[i].origin = first
  BY <1>2, <1>4, <1>5
<1>7. \A i \in DOMAIN new : new[i].grip = grip \/ \E j \in DOMAIN kept : new[i].grip = kept[j].grip
  BY <1>2, <1>5
<1>8. samples'[t] = new /\ origin'[t] = first
  BY <1>1
<1>9. \A u \in Traces \ {t} : samples'[u] = samples[u] /\ origin'[u] = origin[u]
  BY <1>1
<1>10. origin' \in [Traces -> 0..MaxGrips \cup {NoOrigin}] /\ samples' \in [Traces -> Seq(Sample)]
  BY <1>1, <1>2, <1>5
<1>11. \A u \in Traces : Len(samples'[u]) <= MaxPoints
  BY <1>5, <1>8, <1>9
<1>12. \A u \in Traces : \A i \in DOMAIN samples'[u] : samples'[u][i].origin = origin'[u]
  BY <1>6, <1>8, <1>9 DEF TraceCoherent
<1> QED
  BY <1>7, <1>8, <1>9, <1>10, <1>11, <1>12

\* The controller's trace is begun again when a reset is pending.
LEMMA ControllerSample ==
  ASSUME PlotInv, PlotControllerPoseCallback
  PROVE  PlotInv'
<1> USE DEF PlotInv
<1> DEFINE t == "controller"
           kept == IF resetOnNext THEN <<>> ELSE samples[t]
           known == IF resetOnNext THEN NoOrigin ELSE origin[t]
<1>1. t \in Traces /\ kept \in Seq(Sample) /\ Record(t, kept, known)
  BY DEF PlotControllerPoseCallback, RecordController, Traces
<1>2. UNCHANGED <<plotConfig, teleopEnabled, grip>> /\ resetOnNext' = FALSE
  BY DEF PlotControllerPoseCallback
<1>3. \/ kept = samples[t] /\ known = origin[t]
      \/ kept = <<>> /\ known = NoOrigin
  OBVIOUS
<1>4. plotConfig.resetOnEnable => \A j \in DOMAIN kept : kept[j].grip = grip
  BY DEF GripInv
<1> HIDE DEF kept, known
<1>5. /\ origin' \in [Traces -> 0..MaxGrips \cup {NoOrigin}]
      /\ samples' \in [Traces -> Seq(Sample)]
      /\ \A u \in Traces : Len(samples'[u]) <= MaxPoints
      /\ \A u \in Traces : \A i \in DOMAIN samples'[u] : samples'[u][i].origin = origin'[u]
      /\ \A i \in DOMAIN samples'[t] :
           \/ samples'[t][i].grip = grip
           \/ \E j \in DOMAIN kept : samples'[t][i].grip = kept[j].grip
  BY <1>1, <1>3, RecordStep
<1>6. plotConfig.resetOnEnable => \A i \in DOMAIN samples'[t] : samples'[t][i].grip = grip
  BY <1>4, <1>5
<1>7. TraceCoherent' /\ GripInv'
  BY <1>2, <1>5, <1>6 DEF TraceCoherent, GripInv
<1> QED
  BY <1>2, <1>5, <1>7

LEMMA TcpSample ==
  ASSUME PlotInv, PlotTcpPoseCallback
  PROVE  PlotInv'
<1> USE DEF PlotInv
<1>1. /\ "tcp" \in Traces /\ "controller" \in Traces \ {"tcp"}
      /\ Record("tcp", samples["tcp"], origin["tcp"])
  BY DEF PlotTcpPoseCallback, Traces
<1>2. UNCHANGED <<plotConfig, teleopEnabled, resetOnNext, grip>>
  BY DEF PlotTcpPoseCallback
<1>3. /\ origin' \in [Traces -> 0..MaxGrips \cup {NoOrigin}]
      /\ samples' \in [Traces -> Seq(Sample)]
      /\ \A u \in Traces : Len(samples'[u]) <= MaxPoints
      /\ \A u \in Traces : \A i \in DOMAIN samples'[u] : samples'[u][i].origin = origin'[u]
      /\ samples'["controller"] = samples["controller"]
  BY <1>1, RecordStep
<1>4. TraceCoherent' /\ GripInv'
  BY <1>2, <1>3 DEF TraceCoherent, GripInv
<1> QED
  BY <1>2, <1>3, <1>4

LEMMA TrimStep ==
  ASSUME PlotInv, TrimOldSamples
  PROVE  PlotInv'
<1> USE DEF PlotInv
<1>1. PICK t \in Traces : samples[t] # <<>> /\ samples' = [samples EXCEPT ![t] = Tail(@)]
  BY DEF TrimOldSamples
<1>2. UNCHANGED <<plotConfig, teleopEnabled, resetOnNext, origin, grip>>
  BY DEF TrimOldSamples
<1>3. samples[t] \in Seq(Sample)
  OBVIOUS
<1>4. /\ Tail(samples[t]) \in Seq(Sample) /\ Len(Tail(samples[t])) <= Len(samples[t])
      /\ \A i \in DOMAIN Tail(samples[t]) :
           i + 1 \in DOMAIN samples[t] /\ Tail(samples[t])[i] = samples[t][i + 1]
  BY <1>1, <1>3
<1>5. \A u \in Traces : samples'[u] = IF u = t THEN Tail(samples[t]) ELSE samples[u]
  BY <1>1
<1>6. samples' \in [Traces -> Seq(Sample)]
  BY <1>1, <1>4
<1>7. \A u \in Traces : Len(samples'[u]) <= MaxPoints
  <2>1. Len(samples[t]) \in Nat /\ Len(Tail(samples[t])) \in Nat /\ Len(samples[t]) <= MaxPoints
    BY <1>3, <1>4
  <2>2. \A u \in Traces : samples'[u] = Tail(samples[t]) \/ samples'[u] = samples[u]
    BY <1>5
  <2> QED
    BY <1>4, <2>1, <2>2, PlotAssumption
<1>8. \A u \in Traces : \A i \in DOMAIN samples'[u] :
        \E j \in DOMAIN samples[u] : samples'[u][i] = samples[u][j]
  BY <1>4, <1>5
<1>9. TraceCoherent' /\ GripInv'
  <2>1. "controller" \in Traces
    BY DEF Traces
  <2>2. \A u \in Traces : \A i \in DOMAIN samples'[u] : samples'[u][i].origin = origin[u]
    BY <1>8 DEF TraceCoherent
  <2>3. plotConfig.resetOnEnable =>
          \A i, j \in DOMAIN samples'["controller"] :
            samples'["controller"][i].grip = samples'["controller"][j].grip
    BY <1>8, <2>1 DEF TraceCoherent
  <2>4. GripInv'
    BY <1>2, <1>8, <2>1 DEF GripInv
  <2> QED
    BY <1>2, <2>2, <2>3, <2>4 DEF TraceCoherent
<1> QED
  BY <1>2, <1>6, <1>7, <1>9

LEMMA PlotStep == PlotInv /\ [PlotNext]_plotVars => PlotInv'
<1> SUFFICES ASSUME PlotInv, [PlotNext]_plotVars PROVE PlotInv'
  OBVIOUS
<1> USE DEF PlotInv
<1>1. CASE UNCHANGED plotVars
  BY <1>1 DEF plotVars, TraceCoherent, GripInv
<1>2. ASSUME NEW value \in BOOLEAN, PlotEnabledCallback(value) PROVE PlotInv'
  <2>1. UNCHANGED <<plotConfig, origin, samples>> /\ teleopEnabled' = value
    BY <1>2 DEF PlotEnabledCallback
  <2>2. grip' \in 0..MaxGrips
    BY <1>2, PlotAssumption DEF PlotEnabledCallback
  <2>3. resetOnNext' \in BOOLEAN
    BY <1>2 DEF PlotEnabledCallback, AsksForReset
  <2>4. plotConfig.resetOnEnable /\ ~resetOnNext' => grip' = grip /\ ~resetOnNext
    BY <1>2 DEF PlotEnabledCallback, AsksForReset
  <2>5. TraceCoherent' /\ GripInv'
    BY <2>1, <2>4 DEF TraceCoherent, GripInv
  <2> QED
    BY <2>1, <2>2, <2>3, <2>5
<1>3. CASE ResetOrigins
  <2>1. /\ origin' = [t \in Traces |-> NoOrigin] /\ samples' = [t \in Traces |-> <<>>]
        /\ UNCHANGED <<plotConfig, teleopEnabled, resetOnNext, grip>>
    BY <1>3 DEF ResetOrigins
  <2>2. samples' \in [Traces -> Seq(Sample)] /\ \A t \in Traces : samples'[t] = <<>>
    BY <2>1
  <2>3. "controller" \in Traces
    BY DEF Traces
  <2>4. TraceCoherent' /\ GripInv'
    BY <2>2, <2>3 DEF TraceCoherent, GripInv
  <2>5. \A t \in Traces : Len(samples'[t]) <= MaxPoints
    BY <2>2, PlotAssumption
  <2> QED
    BY <2>1, <2>2, <2>4, <2>5
<1> QED
  BY <1>1, <1>2, <1>3, ControllerSample, TcpSample, TrimStep DEF PlotNext

LEMMA PlotStart == PlotInit => PlotInv
<1> SUFFICES ASSUME PlotInit PROVE PlotInv
  OBVIOUS
<1>1. /\ origin = [t \in Traces |-> NoOrigin] /\ samples = [t \in Traces |-> <<>>]
      /\ teleopEnabled = FALSE /\ resetOnNext = FALSE /\ grip = 0
  BY DEF PlotInit
<1>2. "controller" \in Traces
  BY DEF Traces
<1>3. samples \in [Traces -> Seq(Sample)] /\ \A t \in Traces : samples[t] = <<>>
  BY <1>1
<1>4. TraceCoherent /\ GripInv
  BY <1>2, <1>3 DEF TraceCoherent, GripInv
<1>5. \A t \in Traces : Len(samples[t]) <= MaxPoints
  BY <1>3, PlotAssumption
<1>6. origin \in [Traces -> 0..MaxGrips \cup {NoOrigin}] /\ grip \in 0..MaxGrips
  BY <1>1, PlotAssumption
<1>7. teleopEnabled \in BOOLEAN /\ resetOnNext \in BOOLEAN
  BY <1>1
<1> QED
  BY <1>3, <1>4, <1>5, <1>6, <1>7 DEF PlotInv

-----------------------------------------------------------------------------
(* The four together.                                                       *)

NodeInv == ThreadsInv /\ StepsInv /\ DualInv /\ PlotInv

LEMMA NodeInvHolds == NodeSpec => []NodeInv
<1>1. NodeInit => NodeInv
  <2> SUFFICES ASSUME NodeInit PROVE NodeInv
    OBVIOUS
  <2>1. ThreadsInv /\ PlotInv
    BY ThreadsStart, PlotStart DEF NodeInit
  <2>2. StepsInv
    BY StepsStart DEF NodeInit
  <2>3. DualInv
    BY DualStart DEF NodeInit, DualInit
  <2> QED
    BY <2>1, <2>2, <2>3 DEF NodeInv
<1>2. NodeInv /\ [NodeNext]_nodeVars => NodeInv'
  <2> SUFFICES ASSUME NodeInv, [NodeNext]_nodeVars PROVE NodeInv'
    OBVIOUS
  <2>1. [Next]_vars /\ [StepsNext]_stepVars /\ [DualNext]_dualVars /\ [PlotNext]_plotVars
    BY DEF NodeNext, nodeVars
  <2> QED
    BY <2>1, ThreadsStep, StepsStep, DualStep, PlotStep DEF NodeInv
<1> QED
  BY <1>1, <1>2, PTL DEF NodeSpec

\* Types of all variables: the velocity that _step_toward keeps is within its
\* limit, however it was limited, changed or shortened, and the gripper has one
\* command at a time.
THEOREM NodeTypes == NodeSpec => []NodeTypeOK
<1>1. NodeInv => NodeTypeOK
  BY DEF NodeInv, ThreadsInv, StepsInv, DualInv, PlotInv, NodeTypeOK, PlotTypeOK
<1> QED
  BY <1>1, NodeInvHolds, PTL

\* franky_cartesian_pose_node.py: no motion passes the stop of the message that
\* disabled the teleoperation.
THEOREM DisabledIsStopped == NodeSpec => []DisabledMeansStopped
<1>1. NodeInv => DisabledMeansStopped
  BY DEF NodeInv, ThreadsInv, SendInv, DisabledMeansStopped
<1> QED
  BY <1>1, NodeInvHolds, PTL

\* _step_toward, for every workspace, velocity, acceleration and cycle time: a
\* command leads toward the target if anywhere, no further than the velocity
\* limit and faster by the acceleration at most.  That it may pass the target
\* and leave the workspace if a velocity was kept is not excluded; one from rest
\* stays inside.
THEOREM StepsAreGentle == NodeSpec => SteppedGently
<1>1. NodeInv /\ [NodeNext]_nodeVars =>
        [\A ticks \in Ticks : part = "steps" /\ Advance(ticks) =>
           LET by == Minus(command', position) IN
           /\ by # Zero => Dot(by, Minus(ClippedTarget, position)) > 0
           /\ by \in Disc(MaxVelocity * Span(ticks))
           /\ \A speed \in 0 .. MaxVelocity :
                (IF moving THEN velocity ELSE Zero) \in Disc(speed)
                  => velocity' \in Disc(speed + Acceleration * ticks)
           /\ ~moving /\ position \in Workspace => command' \in Workspace]_nodeVars
  BY AdvanceStep DEF NodeInv
<1> QED
  BY <1>1, NodeInvHolds, PTL DEF NodeSpec, SteppedGently

\* franka_dual_real_teleop.launch.py: through all nodes, an arm follows the hand
\* of its side and obeys the trigger of its side.
THEOREM HandsKeepToTheirArms == NodeSpec => []OwnHand
<1>1. NodeInv => OwnHand
  BY DualHands DEF NodeInv
<1> QED
  BY <1>1, NodeInvHolds, PTL

\* teleop_realtime_plot_node.py: a trace has one origin, and the controller's is
\* of one grip, whatever the length of the traces.
THEOREM TracesAreCoherent == NodeSpec => []TraceCoherent
<1>1. NodeInv => TraceCoherent
  BY DEF NodeInv, PlotInv
<1> QED
  BY <1>1, NodeInvHolds, PTL
=============================================================================
