------------------------- MODULE QuestTeleopProofs -------------------------
(***************************************************************************)
(* The headset node and the hand teleoperation for every hand, arm and     *)
(* workspace, any limits and any filter: how far a target gets from where  *)
(* it began, and how often the gripper is commanded.                       *)
(***************************************************************************)
EXTENDS QuestTeleop, TLAPS

-----------------------------------------------------------------------------
(* One cycle of the motion.                                                 *)

Limit == IF config.mode = "velocity" THEN MaxDelta ELSE MaxOffset

Node == [tcp : Lo .. Hi, anchorHand : Hand \union {NoPose},
         anchorTcp : (Lo .. Hi) \union {NoPose}, previousHand : Hand \union {NoPose},
         filtered : Int, stationary : {"no", "timing", "held"}, paused : BOOLEAN]

\* What a cycle needs of the target it starts from, and keeps: the filter has
\* seen nothing larger than the limit, and the target of the position mode was
\* made by it from the anchor.
NodeOK(n) ==
  /\ n \in Node
  /\ n.filtered \in -Limit .. Limit
  /\ config.mode = "position" /\ n.anchorTcp # NoPose => Norm(n.tcp - n.anchorTcp) <= MaxOffset

\* A node in a motion has its anchors.
AnchoredNode(n) ==
  NodeOK(n) /\ n.anchorHand # NoPose /\ n.anchorTcp # NoPose /\ n.previousHand # NoPose

ConfigType ==
  config \in [mode : {"velocity", "position"}, sync : BOOLEAN,
              reanchor : BOOLEAN, buttons : BOOLEAN]

LEMMA LimitType == Limit \in Nat \ {0}
BY LimitsAssumption DEF Limit

LEMMA ClampedPlace ==
  ASSUME NEW p \in Int
  PROVE  Clamped(p) \in Lo .. Hi
BY WorkspaceAssumption DEF Clamped, Smaller, Larger

\* The workspace is convex: clamping leads back toward where one came from.
LEMMA ClampedDistance ==
  ASSUME NEW p \in Lo .. Hi, NEW d \in Int, NEW max \in Nat, d \in -max .. max
  PROVE  Clamped(p + d) \in Lo .. Hi /\ Norm(Clamped(p + d) - p) <= max
BY WorkspaceAssumption DEF Clamped, Smaller, Larger, Norm

LEMMA ClampedVector ==
  ASSUME NEW v \in Int, NEW max \in Nat \ {0}
  PROVE  ClampedNorm(v, max) \in -max .. max
BY DEF ClampedNorm, Smaller, Larger

LEMMA DeadbandedType ==
  ASSUME NEW v \in Int
  PROVE  Deadbanded(v) \in Int
BY LimitsAssumption DEF Deadbanded, Norm

\* The filter stays between what it had and what it gets.
LEMMA FilteredWithin ==
  ASSUME NEW max \in Nat, NEW current \in -max .. max, NEW previous \in -max .. max,
         NEW f \in Filtered(current, previous)
  PROVE  f \in -max .. max /\ f \in Int
BY DEF Filtered, Smaller, Larger

LEMMA BasePlace ==
  ASSUME NEW n \in Node, external \in Measured \union {NoPose}
  PROVE  Base(n) \in Lo .. Hi
<1>1. CASE external # NoPose /\ fresh
  <2>1. external \in Int
    BY <1>1, PosesAssumption
  <2> QED
    BY <1>1, <2>1, ClampedPlace DEF Base
<1>2. CASE ~(external # NoPose /\ fresh)
  BY <1>2 DEF Base, Node
<1> QED
  BY <1>1, <1>2

\* An anchor is the hand, and where the arm is.
LEMMA AnchoredOK ==
  ASSUME NEW n \in Node, external \in Measured \union {NoPose}, latestPose \in Hand
  PROVE  /\ AnchoredNode(Anchored(n)) /\ Anchored(n).tcp = Base(n)
         /\ Anchored(n).paused = n.paused /\ Anchored(n).stationary = n.stationary
<1> DEFINE m == Anchored(n)
<1>1. m \in Node /\ m.tcp = Base(n) /\ m.anchorTcp = Base(n) /\ m.filtered = 0
      /\ m.anchorHand = latestPose /\ m.previousHand = latestPose
      /\ m.paused = n.paused /\ m.stationary = n.stationary
  <2>1. Base(n) \in Lo .. Hi /\ 0 \in Int
    BY BasePlace
  <2>2. n \in Node /\ latestPose \in Hand
    OBVIOUS
  <2> QED
    BY <2>1, <2>2 DEF Anchored, Node
<1>2. Base(n) \in Int /\ Norm(Base(n) - Base(n)) = 0
  BY BasePlace, WorkspaceAssumption DEF Norm
<1>3. latestPose # NoPose /\ Base(n) # NoPose
  BY <1>2, PosesAssumption
<1> HIDE DEF m
<1>4. NodeOK(m)
  <2>1. 0 \in -Limit .. Limit
    BY LimitType
  <2>2. Norm(m.tcp - m.anchorTcp) <= MaxOffset
    BY <1>1, <1>2, LimitsAssumption
  <2> QED
    BY <1>1, <2>1, <2>2 DEF NodeOK
<1> QED
  BY <1>1, <1>3, <1>4 DEF m, AnchoredNode

\* The stationary state and the pause are no part of what a cycle needs.
LEMMA FlagsOnly ==
  ASSUME NEW n \in Node, NEW m \in Node, AnchoredNode(n),
         m.tcp = n.tcp, m.anchorHand = n.anchorHand, m.anchorTcp = n.anchorTcp,
         m.previousHand = n.previousHand, m.filtered = n.filtered
  PROVE  AnchoredNode(m)
BY DEF AnchoredNode, NodeOK

\* The increment of a velocity cycle.
LEMMA VelocityOK ==
  ASSUME ConfigType, config.mode = "velocity", NEW n, AnchoredNode(n),
         external \in Measured \union {NoPose}, latestPose \in Hand,
         NEW m \in VelocityUpdate(n)
  PROVE  AnchoredNode(m) /\ Norm(m.tcp - Base(n)) <= MaxDelta
<1> DEFINE delta == ClampedNorm(Deadbanded(latestPose - n.previousHand), MaxDelta)
<1>1. n \in Node /\ n.filtered \in -MaxDelta .. MaxDelta /\ Limit = MaxDelta
  BY DEF AnchoredNode, NodeOK, Limit
<1>2. MaxDelta \in Nat \ {0}
  BY LimitsAssumption
<1>3. delta \in -MaxDelta .. MaxDelta
  <2>1. latestPose \in Int /\ n.previousHand \in Int
    BY <1>1, PosesAssumption DEF AnchoredNode, Node
  <2>2. Deadbanded(latestPose - n.previousHand) \in Int
    BY <2>1, DeadbandedType
  <2> QED
    BY <1>2, <2>2, ClampedVector
<1> HIDE DEF delta
<1>4. PICK f \in Filtered(delta, n.filtered) :
        m = [n EXCEPT !.filtered = f, !.tcp = Clamped(Base(n) + f),
                      !.previousHand = latestPose]
  BY DEF VelocityUpdate, delta
<1>5. f \in -MaxDelta .. MaxDelta /\ f \in Int
  BY <1>1, <1>2, <1>3, FilteredWithin
<1>6. Clamped(Base(n) + f) \in Lo .. Hi /\ Norm(Clamped(Base(n) + f) - Base(n)) <= MaxDelta
  BY <1>1, <1>2, <1>5, BasePlace, ClampedDistance
<1>7. m \in Node /\ m.tcp = Clamped(Base(n) + f) /\ m.filtered = f
      /\ m.previousHand = latestPose /\ m.anchorHand = n.anchorHand /\ m.anchorTcp = n.anchorTcp
  BY <1>1, <1>4, <1>5, <1>6 DEF Node
<1>8. latestPose # NoPose
  BY PosesAssumption
<1> QED
  BY <1>1, <1>5, <1>6, <1>7, <1>8 DEF AnchoredNode, NodeOK

\* The displacement of a position cycle.
LEMMA DisplacedOK ==
  ASSUME ConfigType, config.mode = "position", NEW n, AnchoredNode(n),
         latestPose \in Hand, NEW m \in Displaced(n)
  PROVE  AnchoredNode(m)
<1> DEFINE offset == ClampedNorm(Deadbanded(latestPose - n.anchorHand), MaxOffset)
<1>1. n \in Node /\ n.filtered \in -MaxOffset .. MaxOffset /\ Limit = MaxOffset
      /\ n.anchorTcp \in Lo .. Hi
  BY DEF AnchoredNode, NodeOK, Limit, Node
<1>2. MaxOffset \in Nat \ {0}
  BY LimitsAssumption
<1>3. offset \in -MaxOffset .. MaxOffset
  <2>1. latestPose \in Int /\ n.anchorHand \in Int
    BY <1>1, PosesAssumption DEF AnchoredNode, Node
  <2>2. Deadbanded(latestPose - n.anchorHand) \in Int
    BY <2>1, DeadbandedType
  <2> QED
    BY <1>2, <2>2, ClampedVector
<1> HIDE DEF offset
<1>4. PICK f \in Filtered(offset, n.filtered) :
        m = [n EXCEPT !.filtered = f, !.tcp = Clamped(n.anchorTcp + f),
                      !.previousHand = latestPose]
  BY DEF Displaced, offset
<1>5. f \in -MaxOffset .. MaxOffset /\ f \in Int
  BY <1>1, <1>2, <1>3, FilteredWithin
<1>6. /\ Clamped(n.anchorTcp + f) \in Lo .. Hi
      /\ Norm(Clamped(n.anchorTcp + f) - n.anchorTcp) <= MaxOffset
  BY <1>1, <1>2, <1>5, ClampedDistance
<1>7. m \in Node /\ m.tcp = Clamped(n.anchorTcp + f) /\ m.filtered = f
      /\ m.previousHand = latestPose /\ m.anchorHand = n.anchorHand /\ m.anchorTcp = n.anchorTcp
  BY <1>1, <1>4, <1>5, <1>6 DEF Node
<1>8. latestPose # NoPose
  BY PosesAssumption
<1> QED
  BY <1>1, <1>5, <1>6, <1>7, <1>8 DEF AnchoredNode, NodeOK

\* A position cycle that publishes a motion after a pause begins at the base.
LEMMA PositionOK ==
  ASSUME ConfigType, config.mode = "position", NEW n, AnchoredNode(n),
         external \in Measured \union {NoPose}, latestPose \in Hand,
         NEW m \in PositionUpdate(n)
  PROVE  AnchoredNode(m) /\ (n.paused /\ ~m.paused => m.tcp = Base(n))
<1>1. PICK still \in Stillness(n) :
        m \in LET k == [n EXCEPT !.stationary = still] IN
              IF still = "held" THEN {[Anchored(k) EXCEPT !.paused = TRUE]}
              ELSE IF ~n.paused THEN Displaced(k)
              ELSE IF Norm(latestPose - n.previousHand) < Resume THEN {Anchored(k)}
              ELSE Resumed(k)
  BY DEF PositionUpdate
<1> DEFINE k == [n EXCEPT !.stationary = still]
<1>2. n \in Node
  BY DEF AnchoredNode, NodeOK
<1>3. still \in {"no", "timing", "held"}
  BY <1>2 DEF Stillness, Node
<1>4. /\ k \in Node /\ k.tcp = n.tcp /\ k.anchorHand = n.anchorHand /\ k.anchorTcp = n.anchorTcp
      /\ k.previousHand = n.previousHand /\ k.filtered = n.filtered /\ k.paused = n.paused
  BY <1>2, <1>3 DEF Node
<1>5. AnchoredNode(k) /\ Base(k) = Base(n)
  BY <1>2, <1>4, FlagsOnly DEF Base
<1> HIDE DEF k
<1>6. AnchoredNode(Anchored(k)) /\ Anchored(k).tcp = Base(n) /\ Anchored(k).paused = n.paused
      /\ Anchored(k) \in Node
  BY <1>4, <1>5, AnchoredOK DEF AnchoredNode, NodeOK
<1>7. ASSUME NEW a, a \in {[Anchored(k) EXCEPT !.paused = TRUE]} \union Resumed(k)
      PROVE  /\ AnchoredNode(a) /\ a.tcp = Base(n)
  <2>1. a \in Node /\ a.tcp = Anchored(k).tcp /\ a.anchorHand = Anchored(k).anchorHand
        /\ a.anchorTcp = Anchored(k).anchorTcp /\ a.previousHand = Anchored(k).previousHand
        /\ a.filtered = Anchored(k).filtered
    BY <1>6, <1>7 DEF Resumed, Node
  <2> QED
    BY <1>6, <2>1, FlagsOnly
<1>8. CASE m \in {[Anchored(k) EXCEPT !.paused = TRUE]} \union Resumed(k)
  BY <1>7, <1>8
<1>9. CASE m \in Displaced(k) /\ ~n.paused
  BY <1>5, <1>9, DisplacedOK
<1>10. CASE m = Anchored(k)
  BY <1>6, <1>10
<1> QED
  BY <1>1, <1>8, <1>9, <1>10 DEF k

-----------------------------------------------------------------------------
(* The motion of the state machine.                                         *)

MotionInv ==
  /\ ConfigType
  /\ latestPose \in Hand \union {NoPose} /\ latestButtons \subseteq Buttons
  /\ external \in Measured \union {NoPose} /\ fresh \in BOOLEAN
  /\ prevEnabled \in BOOLEAN /\ enabled \in BOOLEAN
  /\ target \in Lo .. Hi /\ twist \in (Lo - Hi) .. (Hi - Lo)
  /\ NodeOK(node)
  /\ config.mode = "velocity" => ~node.paused
  /\ prevEnabled => /\ AnchoredNode(node) /\ target = node.tcp
                    /\ enabled = (~node.paused)
  /\ ~prevEnabled => ~enabled

\* The first cycle of a motion stays at its anchor.
LEMMA FirstCycle ==
  ASSUME MotionInv, latestPose \in Hand, NEW m \in Updates(Captured(node))
  PROVE  AnchoredNode(m) /\ m.tcp = Base(node) /\ ~m.paused
<1> DEFINE c == Captured(node)
<1>1. node \in Node /\ external \in Measured \union {NoPose} /\ ConfigType
  BY DEF MotionInv, NodeOK
<1>2. AnchoredNode(Anchored(node)) /\ Anchored(node).tcp = Base(node)
  BY <1>1, AnchoredOK
<1>3. /\ c.tcp = Base(node) /\ c.anchorTcp = Base(node) /\ c.filtered = 0
      /\ c.anchorHand = latestPose /\ c.previousHand = latestPose
      /\ c.stationary = "no" /\ c.paused = FALSE
  BY <1>1 DEF Captured, Anchored, Node
<1>4. AnchoredNode(c)
  <2>1. Anchored(node) \in Node
    BY <1>2 DEF AnchoredNode, NodeOK
  <2>2. /\ c \in Node /\ c.tcp = Anchored(node).tcp /\ c.anchorHand = Anchored(node).anchorHand
        /\ c.anchorTcp = Anchored(node).anchorTcp /\ c.filtered = Anchored(node).filtered
        /\ c.previousHand = Anchored(node).previousHand
    BY <2>1 DEF Captured, Node
  <2> QED
    BY <1>2, <2>1, <2>2, FlagsOnly
<1> HIDE DEF c
<1>5. Base(node) \in Lo .. Hi /\ Base(c) = Base(node) /\ Clamped(Base(node) + 0) = Base(node)
  <2>1. Base(node) \in Lo .. Hi
    BY <1>1, BasePlace
  <2>2. Clamped(Base(node) + 0) = Base(node)
    BY <2>1, WorkspaceAssumption DEF Clamped, Smaller, Larger
  <2>3. Base(c) = Base(node)
    BY <1>3 DEF Base
  <2> QED
    BY <2>1, <2>2, <2>3
<1>6. /\ latestPose - latestPose = 0 /\ Deadbanded(0) = 0
      /\ \A max \in Nat \ {0} : ClampedNorm(0, max) = 0
      /\ \A v : Filtered(0, v) = {0}
  BY PosesAssumption, LimitsAssumption
  DEF Deadbanded, Norm, ClampedNorm, Smaller, Larger, Filtered
<1>7. CASE config.mode = "velocity"
  <2>1. m \in VelocityUpdate(c)
    BY <1>7 DEF Updates, c
  <2>2. AnchoredNode(m)
    BY <1>1, <1>4, <1>7, <2>1, VelocityOK
  <2>3. m = [c EXCEPT !.filtered = 0, !.tcp = Clamped(Base(c) + 0), !.previousHand = latestPose]
    <3>1. PICK f \in Filtered(ClampedNorm(Deadbanded(latestPose - c.previousHand), MaxDelta),
                              c.filtered) :
            m = [c EXCEPT !.filtered = f, !.tcp = Clamped(Base(c) + f), !.previousHand = latestPose]
      BY <2>1 DEF VelocityUpdate
    <3>2. f = 0
      BY <1>3, <1>6, <3>1, LimitsAssumption
    <3> QED
      BY <3>1, <3>2
  <2>4. c \in Node
    BY <1>4 DEF AnchoredNode, NodeOK
  <2> QED
    BY <1>3, <1>5, <2>2, <2>3, <2>4 DEF Node
<1>8. CASE config.mode = "position"
  <2>1. m \in PositionUpdate(c)
    BY <1>8 DEF Updates, c
  <2>2. AnchoredNode(m)
    BY <1>1, <1>4, <1>8, <2>1, PositionOK
  <2>3. Stillness(c) \subseteq {"no", "timing"}
    BY <1>3 DEF Stillness
  <2>4. PICK still \in {"no", "timing"} : m \in Displaced([c EXCEPT !.stationary = still])
    BY <1>3, <2>1, <2>3 DEF PositionUpdate, AnchoredNode, NodeOK, Node
  <2> DEFINE k == [c EXCEPT !.stationary = still]
  <2>5. k \in Node /\ k.tcp = c.tcp /\ k.anchorTcp = c.anchorTcp /\ k.anchorHand = c.anchorHand
        /\ k.filtered = c.filtered /\ k.paused = c.paused
    BY <1>4 DEF AnchoredNode, NodeOK, Node
  <2> HIDE DEF k
  <2>6. m = [k EXCEPT !.filtered = 0, !.tcp = Clamped(k.anchorTcp + 0), !.previousHand = latestPose]
    <3>1. PICK f \in Filtered(ClampedNorm(Deadbanded(latestPose - k.anchorHand), MaxOffset),
                              k.filtered) :
            m = [k EXCEPT !.filtered = f, !.tcp = Clamped(k.anchorTcp + f), !.previousHand = latestPose]
      BY <2>4 DEF Displaced, k
    <3>2. f = 0
      BY <1>3, <1>6, <2>5, <3>1, LimitsAssumption
    <3> QED
      BY <3>1, <3>2
  <2> QED
    BY <1>3, <1>5, <2>2, <2>5, <2>6 DEF Node
<1> QED
  BY <1>1, <1>7, <1>8 DEF ConfigType

\* Every cycle with the trigger held.
LEMMA TrackStep ==
  ASSUME MotionInv, TrackTimer
  PROVE  /\ MotionInv'
         /\ enabled' /\ ~enabled => target' = Base(node)
         /\ config.mode = "velocity" /\ prevEnabled => Norm(target' - Base(node)) <= MaxDelta
<1> USE DEF MotionInv
<1>1. latestPose \in Hand
  BY DEF TrackTimer, TriggerEnabled
<1>2. PICK m \in Updates(IF prevEnabled THEN node ELSE Captured(node)) :
        PublishOutputs(m, ~m.paused)
  BY DEF TrackTimer
<1>3. UNCHANGED <<config, latestPose, latestButtons, external, fresh>>
      /\ node' = m /\ enabled' = ~m.paused /\ target' = m.tcp /\ prevEnabled' = TRUE
      /\ twist' = IF ~m.paused THEN m.tcp - node.tcp ELSE 0
  BY <1>2 DEF PublishOutputs, TrackTimer
<1>4. /\ AnchoredNode(m)
      /\ config.mode = "velocity" => ~m.paused
      /\ ~m.paused /\ ~enabled => m.tcp = Base(node)
      /\ config.mode = "velocity" /\ prevEnabled => Norm(m.tcp - Base(node)) <= MaxDelta
  <2>1. CASE ~prevEnabled
    BY <1>1, <1>2, <2>1, FirstCycle
  <2>2. CASE prevEnabled /\ config.mode = "velocity"
    <3>1. m \in VelocityUpdate(node)
      BY <1>2, <2>2 DEF Updates
    <3>2. AnchoredNode(m) /\ Norm(m.tcp - Base(node)) <= MaxDelta
      BY <1>1, <2>2, <3>1, VelocityOK
    <3>3. m.paused = node.paused
      BY <3>1 DEF VelocityUpdate, NodeOK, Node
    <3> QED
      BY <2>2, <3>2, <3>3
  <2>3. CASE prevEnabled /\ config.mode = "position"
    <3>1. m \in PositionUpdate(node)
      BY <1>2, <2>3 DEF Updates
    <3> QED
      BY <1>1, <2>3, <3>1, PositionOK
  <2> QED
    BY <2>1, <2>2, <2>3 DEF ConfigType
<1>5. m.tcp \in Lo .. Hi /\ node.tcp \in Lo .. Hi /\ m.paused \in BOOLEAN
  <2>1. m \in Node /\ node \in Node
    BY <1>4 DEF AnchoredNode, NodeOK
  <2> QED
    BY <2>1 DEF Node
<1>6. twist' \in (Lo - Hi) .. (Hi - Lo)
  BY <1>3, <1>5, WorkspaceAssumption
<1>7. AnchoredNode(node)' /\ NodeOK(node)'
  <2>1. config' = config /\ node' = m
    BY <1>3
  <2>2. Limit' = Limit
    BY <2>1 DEF Limit
  <2>3. NodeOK(m) /\ m.anchorHand # NoPose /\ m.anchorTcp # NoPose /\ m.previousHand # NoPose
    BY <1>4 DEF AnchoredNode
  <2>4. NodeOK(node)'
    BY <2>1, <2>2, <2>3 DEF NodeOK
  <2> QED
    BY <2>1, <2>3, <2>4 DEF AnchoredNode
<1>8. MotionInv'
  <2>1. ConfigType' /\ latestPose' \in Hand \union {NoPose} /\ latestButtons' \subseteq Buttons
        /\ external' \in Measured \union {NoPose} /\ fresh' \in BOOLEAN
    BY <1>3 DEF ConfigType
  <2>2. /\ prevEnabled' = TRUE /\ enabled' = (~node'.paused) /\ target' = node'.tcp
        /\ config'.mode = "velocity" => ~node'.paused
    BY <1>3, <1>4
  <2>3. enabled' \in BOOLEAN /\ target' \in Lo .. Hi
    BY <1>3, <1>5
  <2> QED
    BY <1>6, <1>7, <2>1, <2>2, <2>3
<1> QED
  BY <1>3, <1>4, <1>8

\* A node without an anchor may take the measured pose.
LEMMA SyncedOK ==
  ASSUME NEW n, NodeOK(n), NEW measured \in Measured \union {NoPose}
  PROVE  /\ NodeOK(Synced(n, measured)) /\ Synced(n, measured).paused = n.paused
         /\ prevEnabled => Synced(n, measured) = n
<1>1. CASE measured # NoPose /\ ShouldSync(n)
  <2>1. Clamped(measured) \in Lo .. Hi
    BY <1>1, PosesAssumption, ClampedPlace
  <2>2. Synced(n, measured) = [n EXCEPT !.tcp = Clamped(measured)] /\ n.anchorTcp = NoPose
        /\ ~prevEnabled
    BY <1>1 DEF Synced, ShouldSync
  <2> QED
    BY <2>1, <2>2 DEF NodeOK, Node
<1>2. CASE ~(measured # NoPose /\ ShouldSync(n))
  BY <1>2 DEF Synced
<1> QED
  BY <1>1, <1>2

LEMMA IdleStep ==
  ASSUME MotionInv, IdleTimer
  PROVE  MotionInv' /\ ~prevEnabled' /\ ~enabled'
<1> USE DEF MotionInv
<1> DEFINE n == Synced(Cleared(node), external)
<1>1. NodeOK(Cleared(node)) /\ ~Cleared(node).paused
  <2>1. Cleared(node) \in Node /\ Cleared(node).anchorTcp = NoPose
        /\ Cleared(node).filtered = 0 /\ Cleared(node).paused = FALSE
    <3>1. node \in Node
      BY DEF NodeOK
    <3>2. 0 \in Int
      OBVIOUS
    <3> HIDE DEF MotionInv
    <3> QED
      BY <3>1, <3>2 DEF Cleared, Node
  <2>2. 0 \in -Limit .. Limit
    BY LimitType
  <2> QED
    BY <2>1, <2>2 DEF NodeOK
<1>2. NodeOK(n) /\ ~n.paused
  BY <1>1, SyncedOK
<1> HIDE DEF n
<1>3. UNCHANGED <<config, latestPose, latestButtons, external, fresh>>
      /\ node' = n /\ enabled' = FALSE /\ target' = n.tcp /\ prevEnabled' = FALSE /\ twist' = 0
  BY DEF IdleTimer, PublishOutputs, n
<1>4. n.tcp \in Lo .. Hi /\ 0 \in (Lo - Hi) .. (Hi - Lo)
  BY <1>2, WorkspaceAssumption DEF NodeOK, Node
<1>5. NodeOK(node)'
  BY <1>2, <1>3 DEF NodeOK, Limit
<1> QED
  BY <1>2, <1>3, <1>4, <1>5 DEF ConfigType

\* Messages and time do not move an anchored target.
LEMMA MotionMessages ==
  ASSUME MotionInv,
         \/ \E p \in Hand : PoseCallback(p)
         \/ \E p \in Measured : ExternalPose(p)
         \/ Expire
         \/ (ButtonsCallback /\ (buttonsTopic \subseteq SUBSET Buttons))
         \/ UNCHANGED handVars
  PROVE  MotionInv' /\ enabled' = enabled /\ prevEnabled' = prevEnabled
<1> USE DEF MotionInv
<1>1. ASSUME UNCHANGED <<config, node, prevEnabled, enabled, target, twist>>,
             latestPose' \in Hand \union {NoPose}, latestButtons' \subseteq Buttons,
             external' \in Measured \union {NoPose}, fresh' \in BOOLEAN
      PROVE  MotionInv' /\ enabled' = enabled /\ prevEnabled' = prevEnabled
  BY <1>1 DEF ConfigType, NodeOK, AnchoredNode, Limit
<1>2. ASSUME NEW p \in Hand, PoseCallback(p) PROVE MotionInv' /\ enabled' = enabled /\ prevEnabled' = prevEnabled
  BY <1>1, <1>2 DEF PoseCallback
<1>3. CASE Expire
  BY <1>1, <1>3 DEF Expire
<1>4. CASE ButtonsCallback /\ buttonsTopic \subseteq SUBSET Buttons
  BY <1>1, <1>4 DEF ButtonsCallback
<1>5. CASE UNCHANGED handVars
  BY <1>1, <1>5 DEF handVars
<1>6. ASSUME NEW p \in Measured, ExternalPose(p) PROVE MotionInv' /\ enabled' = enabled /\ prevEnabled' = prevEnabled
  <2>1. /\ external' = p /\ fresh' = TRUE /\ node' = Synced(node, p)
        /\ UNCHANGED <<config, latestPose, latestButtons, prevEnabled, enabled, target, twist>>
    BY <1>6 DEF ExternalPose
  <2>2. /\ NodeOK(Synced(node, p)) /\ Synced(node, p).paused = node.paused
        /\ prevEnabled => Synced(node, p) = node
    BY SyncedOK
  <2>3. NodeOK(node)' /\ (prevEnabled => AnchoredNode(node)')
    BY <2>1, <2>2 DEF NodeOK, AnchoredNode, Limit
  <2> QED
    BY <2>1, <2>2, <2>3 DEF ConfigType
<1> QED
  BY <1>2, <1>3, <1>4, <1>5, <1>6

-----------------------------------------------------------------------------
(* The gripper buttons.                                                     *)

\* A press is counted when it happens, its command when a message shows it: a
\* button that is down and not seen yet, or seen up before it went down, has a
\* press without a command.
Counted(b) ==
  /\ commands[b] <= presses[b]
  /\ b \in held /\ b \notin gripper => commands[b] < presses[b]
  /\ \A m \in buttonsTopic :
       /\ b \in m /\ b \notin gripper => commands[b] < presses[b]
       /\ b \notin m /\ b \in held => commands[b] < presses[b]

GripperType ==
  /\ held \subseteq Buttons
  /\ poseTopic \in BOOLEAN
  /\ buttonsTopic \in SUBSET SUBSET Buttons
  /\ gripper \subseteq Fingers
  /\ presses \in [Fingers -> 0 .. MaxPresses]
  /\ commands \in [Fingers -> Nat]
  /\ part \in Parts

GripperInv ==
  /\ GripperType
  /\ ~config.buttons => gripper = {}
  /\ \A b \in Fingers : Counted(b)

LEMMA FingerStep ==
  ASSUME GripperInv, NEW b \in Fingers \union {"trigger"}, Finger(b), UNCHANGED part
  PROVE  GripperInv'
<1>1. /\ held' = (IF b \in held THEN held \ {b} ELSE held \union {b})
      /\ UNCHANGED <<poseTopic, buttonsTopic, gripper, commands, config>>
      /\ b \in Fingers \ held => presses[b] < MaxPresses
      /\ presses' = [f \in Fingers |-> IF f = b /\ f \notin held THEN presses[f] + 1
                                                                 ELSE presses[f]]
  BY DEF Finger, User, handVars
<1>2. GripperType'
  <2>1. held' \subseteq Buttons
    BY <1>1 DEF GripperInv, GripperType, Buttons, Fingers
  <2>2. presses' \in [Fingers -> 0 .. MaxPresses]
    BY <1>1, LimitsAssumption DEF GripperInv, GripperType
  <2> QED
    BY <1>1, <2>1, <2>2 DEF GripperInv, GripperType
<1>3. ASSUME NEW f \in Fingers PROVE Counted(f)'
  <2>1. Counted(f) /\ commands[f] \in Nat /\ presses[f] \in Nat
    BY DEF GripperInv, GripperType
  <2>2. CASE f = b /\ f \notin held
    <3>1. presses'[f] = presses[f] + 1
      BY <1>1, <2>2
    <3>2. commands'[f] < presses'[f]
      BY <1>1, <2>1, <3>1 DEF Counted
    <3>3. commands'[f] <= presses'[f]
      BY <1>1, <2>1, <3>1 DEF Counted
    <3> QED
      BY <3>2, <3>3 DEF Counted
  <2>3. CASE ~(f = b /\ f \notin held)
    <3>1. presses'[f] = presses[f] /\ (f \in held' => f \in held)
      BY <1>1, <2>3
    <3> QED
      BY <1>1, <2>1, <3>1 DEF Counted
  <2> QED
    BY <2>2, <2>3
<1> QED
  BY <1>1, <1>2, <1>3 DEF GripperInv

LEMMA OculusStep ==
  ASSUME GripperInv, NEW tracked, OculusTimer(tracked),
         UNCHANGED <<handVars, gripperVars, part>>
  PROVE  GripperInv'
<1>1. /\ held' = held /\ poseTopic' \in BOOLEAN
      /\ buttonsTopic' \in {{held}, buttonsTopic}
      /\ UNCHANGED <<gripper, presses, commands, config, part>>
  BY DEF OculusTimer, PublishButtons, handVars, gripperVars
<1>2. GripperType'
  BY <1>1 DEF GripperInv, GripperType
<1>3. ASSUME NEW f \in Fingers PROVE Counted(f)'
  BY <1>1 DEF GripperInv, Counted
<1> QED
  BY <1>1, <1>2, <1>3 DEF GripperInv

LEMMA ButtonsStep ==
  ASSUME GripperInv, ConfigType, ButtonsCallback, UNCHANGED part
  PROVE  GripperInv'
<1>1. PICK m \in buttonsTopic : ProcessGripperButtons(m) /\ buttonsTopic' = {}
  BY DEF ButtonsCallback
<1>2. UNCHANGED <<held, poseTopic, config, presses>>
  BY DEF ButtonsCallback
<1>3. CASE config.buttons
  <2>1. /\ gripper' = Fingers \intersect m
        /\ commands' = [b \in Fingers |-> IF b \in GripperCommand(m) THEN commands[b] + 1
                                                                     ELSE commands[b]]
    BY <1>1, <1>3 DEF ProcessGripperButtons
  <2>2. GripperType'
    <3>1. commands' \in [Fingers -> Nat]
      BY <2>1 DEF GripperInv, GripperType
    <3>2. gripper' \subseteq Fingers
      BY <2>1
    <3> QED
      BY <1>1, <1>2, <3>1, <3>2 DEF GripperInv, GripperType
  <2>3. ASSUME NEW b \in Fingers PROVE Counted(b)'
    <3>1. Counted(b) /\ commands[b] \in Nat /\ presses[b] \in Nat
      BY DEF GripperInv, GripperType
    <3>2. CASE b \in GripperCommand(m)
      <4>1. b \in m /\ b \notin gripper /\ b \in gripper'
        BY <2>1, <3>2 DEF GripperCommand
      <4>2. commands'[b] = commands[b] + 1 /\ commands[b] < presses[b]
        BY <1>1, <2>1, <3>1, <3>2, <4>1 DEF Counted
      <4>3. commands'[b] <= presses'[b]
        BY <1>2, <3>1, <4>2
      <4> QED
        BY <1>1, <4>1, <4>3 DEF Counted
    <3>3. CASE b \notin GripperCommand(m)
      <4>1. commands'[b] = commands[b] /\ (b \notin gripper' => b \notin m)
        BY <2>1, <3>3
      <4> QED
        BY <1>1, <1>2, <3>1, <4>1 DEF Counted
    <3> QED
      BY <3>2, <3>3
  <2> QED
    BY <1>2, <1>3, <2>2, <2>3 DEF GripperInv
<1>4. CASE ~config.buttons
  <2>1. gripper' = {} /\ gripper = {} /\ commands' = commands
    BY <1>1, <1>4 DEF ProcessGripperButtons, GripperInv
  <2>2. GripperType'
    BY <1>1, <1>2, <2>1 DEF GripperInv, GripperType
  <2>3. ASSUME NEW b \in Fingers PROVE Counted(b)'
    BY <1>1, <1>2, <2>1 DEF GripperInv, Counted
  <2> QED
    BY <2>1, <2>2, <2>3 DEF GripperInv
<1> QED
  BY <1>3, <1>4

-----------------------------------------------------------------------------
(* Both together.                                                           *)

Inv == MotionInv /\ GripperInv

LEMMA InitInv == Init => Inv
<1> SUFFICES ASSUME Init PROVE Inv
  OBVIOUS
<1> USE DEF Init, OculusInit, HandInit
<1>1. Lo \in Lo .. Hi /\ 0 \in (Lo - Hi) .. (Hi - Lo) /\ 0 \in -Limit .. Limit /\ 0 \in Int
  BY WorkspaceAssumption, LimitType
<1>2. NodeOK(node)
  BY <1>1 DEF NodeOK, Node
<1>3. MotionInv
  BY <1>1, <1>2 DEF MotionInv, ConfigType
<1>4. GripperType
  <2>1. 0 \in 0 .. MaxPresses /\ 0 \in Nat
    BY LimitsAssumption
  <2>2. presses \in [Fingers -> 0 .. MaxPresses] /\ commands \in [Fingers -> Nat]
    BY <2>1
  <2> QED
    BY <2>2 DEF GripperType
<1>5. \A b \in Fingers : Counted(b)
  BY DEF Counted
<1> QED
  BY <1>3, <1>4, <1>5 DEF Inv, GripperInv

\* A step that neither presses nor shows a button.
LEMMA OtherSteps ==
  ASSUME GripperInv, UNCHANGED <<gripperVars, part, config, held, buttonsTopic>>,
         poseTopic' \in BOOLEAN
  PROVE  GripperInv'
BY DEF GripperInv, GripperType, Counted, gripperVars

\* What a step does to the target, besides keeping the invariant.
Gentle ==
  /\ enabled' /\ ~enabled => target' = Base(node)
  /\ config.mode = "velocity" /\ prevEnabled /\ prevEnabled' =>
       (Timer => Norm(target' - Base(node)) <= MaxDelta)

\* No timer cycle runs with a message or with the user's fingers.
LEMMA NextInv == Inv /\ [Next]_vars => Inv' /\ Gentle
<1> SUFFICES ASSUME Inv, [Next]_vars PROVE Inv' /\ Gentle
  OBVIOUS
<1> USE DEF Inv
<1>1. ASSUME TrackTimer, UNCHANGED <<oculusVars, gripperVars, part>>
      PROVE  Inv' /\ Gentle
  <2>1. MotionInv' /\ Gentle
    BY <1>1, TrackStep DEF Gentle
  <2>2. GripperInv'
    BY <1>1, OtherSteps DEF oculusVars, TrackTimer, PublishOutputs, GripperInv, GripperType
  <2> QED
    BY <2>1, <2>2
<1>2. ASSUME IdleTimer, UNCHANGED <<oculusVars, gripperVars, part>>
      PROVE  Inv' /\ Gentle
  <2>1. MotionInv' /\ Gentle
    BY <1>2, IdleStep DEF Gentle
  <2>2. GripperInv'
    BY <1>2, OtherSteps DEF oculusVars, IdleTimer, PublishOutputs, GripperInv, GripperType
  <2> QED
    BY <2>1, <2>2
<1>3. config.mode = "velocity" /\ prevEnabled /\ prevEnabled' =>
        (Timer => Norm(target' - Base(node)) <= MaxDelta)
  BY TrackStep, IdleStep DEF Timer
<1>4. ASSUME MotionInv', GripperInv', enabled' = enabled PROVE Inv' /\ Gentle
  BY <1>3, <1>4 DEF Gentle, MotionInv
<1>5. ASSUME NEW b \in Used, Finger(b), UNCHANGED part PROVE Inv' /\ Gentle
  <2>1. b \in Fingers \union {"trigger"}
    BY DEF Used
  <2>2. GripperInv'
    BY <1>5, <2>1, FingerStep
  <2>3. MotionInv' /\ enabled' = enabled
    BY <1>5, MotionMessages DEF Finger
  <2> QED
    BY <1>4, <2>2, <2>3
<1>6. ASSUME NEW tracked \in SUBSET {"r", "l"}, OculusTimer(tracked),
             UNCHANGED <<handVars, gripperVars, part>>
      PROVE  Inv' /\ Gentle
  <2>1. GripperInv'
    BY <1>6, OculusStep
  <2>2. MotionInv' /\ enabled' = enabled
    BY <1>6, MotionMessages
  <2> QED
    BY <1>4, <2>1, <2>2
<1>7. ASSUME ButtonsCallback, UNCHANGED part PROVE Inv' /\ Gentle
  <2>1. buttonsTopic \subseteq SUBSET Buttons /\ ConfigType
    BY DEF GripperInv, GripperType, MotionInv
  <2>2. GripperInv'
    BY <1>7, <2>1, ButtonsStep
  <2>3. MotionInv' /\ enabled' = enabled
    <3> HIDE DEF Inv
    <3>1. MotionInv
      BY DEF Inv
    <3>2. ButtonsCallback /\ buttonsTopic \subseteq SUBSET Buttons
      BY <1>7, <2>1
    <3> QED
      BY <3>1, <3>2, MotionMessages
  <2> QED
    BY <1>4, <2>2, <2>3
<1>8. ASSUME NEW p \in Hand, PoseCallback(p), UNCHANGED <<gripperVars, part>>
      PROVE  Inv' /\ Gentle
  <2>1. GripperInv'
    BY <1>8, OtherSteps DEF PoseCallback
  <2>2. MotionInv' /\ enabled' = enabled
    BY <1>8, MotionMessages
  <2> QED
    BY <1>4, <2>1, <2>2
<1>9. ASSUME NEW p \in Measured, ExternalPose(p), UNCHANGED <<oculusVars, gripperVars, part>>
      PROVE  Inv' /\ Gentle
  <2>1. GripperInv'
    BY <1>9, OtherSteps DEF ExternalPose, oculusVars, GripperInv, GripperType
  <2>2. MotionInv' /\ enabled' = enabled
    BY <1>9, MotionMessages
  <2> QED
    BY <1>4, <2>1, <2>2
<1>10. ASSUME Expire, UNCHANGED <<oculusVars, gripperVars, part>> PROVE Inv' /\ Gentle
  <2>1. GripperInv'
    BY <1>10, OtherSteps DEF Expire, oculusVars, GripperInv, GripperType
  <2>2. MotionInv' /\ enabled' = enabled
    BY <1>10, MotionMessages
  <2> QED
    BY <1>4, <2>1, <2>2
<1>11. CASE UNCHANGED vars
  <2>1. UNCHANGED handVars
    BY <1>11 DEF vars
  <2>2. GripperInv'
    BY <1>11, OtherSteps DEF vars, handVars, oculusVars, GripperInv, GripperType
  <2>3. MotionInv' /\ enabled' = enabled
    BY <2>1, MotionMessages
  <2> QED
    BY <1>4, <2>2, <2>3
<1> QED
  BY <1>1, <1>2, <1>5, <1>6, <1>7, <1>8, <1>9, <1>10, <1>11 DEF Next, Timer

LEMMA AlwaysInv == Spec => []Inv
BY InitInv, NextInv, PTL DEF Spec

\* The variables of the headset and of both halves of the teleoperation keep
\* their types for every hand, arm and workspace.
THEOREM QuestTypes == Spec => []TypeOK
<1>1. Inv => TypeOK
  BY DEF Inv, MotionInv, NodeOK, Node, GripperInv, GripperType, TypeOK
<1> QED
  BY <1>1, AlwaysInv, PTL

\* A held trigger has its anchor and the published target, and the position
\* mode never commands further from the anchor than position_max_tcp_offset,
\* whatever the filter mixes: update of the two motion modes.
THEOREM TargetsAreAnchored == Spec => []AnchoredTarget
<1>1. Inv => AnchoredTarget
  BY DEF Inv, MotionInv, NodeOK, AnchoredNode, AnchoredTarget
<1> QED
  BY <1>1, AlwaysInv, PTL

\* Motion begins where the arm is, and a cycle of the velocity mode leads it
\* by no more than max_tcp_delta_body.
THEOREM MotionsDoNotJump == Spec => NoJump
<1>1. Inv /\ [Next]_vars => [Gentle]_vars
  BY NextInv
<1>2. [Gentle]_vars =>
        [/\ enabled' /\ ~enabled => target' = Base(node)
         /\ config.mode = "velocity" /\ prevEnabled /\ prevEnabled' =>
              (Timer => Norm(target' - Base(node)) <= MaxDelta)]_vars
  BY DEF Gentle
<1> QED
  BY <1>1, <1>2, AlwaysInv, PTL DEF Spec, NoJump

\* No gripper button gives more commands than it had presses, whichever
\* messages of the headset are lost: process_gripper_buttons.
THEOREM PressesCommandOnce == Spec => []OneCommandPerPress
<1>1. Inv => OneCommandPerPress
  BY DEF Inv, GripperInv, Counted, OneCommandPerPress
<1> QED
  BY <1>1, AlwaysInv, PTL

=============================================================================
