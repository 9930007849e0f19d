----------------------------- MODULE HandTeleop -----------------------------
(***************************************************************************)
(* RightHandTeleopSimNode (right_hand_teleop_sim_node.py, also started for *)
(* the left hand) with its two motion modes (teleop_motion_modes.py): the  *)
(* trigger anchors the hand to the TCP, the hand's motion moves the target *)
(* until the trigger is released. One coordinate of the position stands    *)
(* for the pose. The node's single-threaded executor runs one callback at  *)
(* a time. Time is abstract: a measured pose expires, and a stationary     *)
(* hand has been still long enough, at any moment.                         *)
(***************************************************************************)
EXTENDS OculusTf

CONSTANTS Hand,         \* where the controller can be
          NoPose,       \* the absent pose
          Lo, Hi,       \* workspace_min, workspace_max
          Measured,     \* what the external TCP pose can be
          Deadband,     \* translation_deadband
          MaxDelta,     \* max_tcp_delta_body, of the velocity mode
          MaxOffset,    \* position_max_tcp_offset, of the position mode
          Still,        \* position_stationary_translation
          Resume,       \* position_resume_translation
          MaxPresses    \* bound: how often the user presses a gripper button

ASSUME WorkspaceAssumption == Lo \in Int /\ Hi \in Int /\ Lo <= Hi
ASSUME PosesAssumption == Hand \subseteq Int /\ Measured \subseteq Int /\ NoPose \notin Int
ASSUME LimitsAssumption ==
  /\ Deadband \in Nat /\ MaxDelta \in Nat \ {0} /\ MaxOffset \in Nat \ {0}
  /\ MaxPresses \in Nat

VARIABLES config,         \* parameters of the node, fixed at the start
          latestPose, latestButtons,
          external, fresh,   \* latest_external_tcp_pose, and it is fresh
          node,           \* target, anchors, filter and stationary state
          prevEnabled,
          enabled, target, twist,   \* what the timer published last
          gripper,        \* the gripper buttons seen pressed last
          presses, commands  \* presses of each gripper button, its commands

handVars == <<config, latestPose, latestButtons, external, fresh, node,
              prevEnabled, enabled, target, twist>>
gripperVars == <<gripper, presses, commands>>

Fingers == {"open", "close"}

Smaller(a, b) == IF a <= b THEN a ELSE b
Larger(a, b) == IF a <= b THEN b ELSE a
Norm(v) == IF v < 0 THEN -v ELSE v

(* clamp_position *)
Clamped(p) == Smaller(Larger(p, Lo), Hi)

(* clamp_vector_norm *)
ClampedNorm(v, max) ==
  IF max <= 0 THEN v ELSE Larger(Smaller(v, max), -max)

(* apply_vector_deadband *)
Deadbanded(v) ==
  IF Norm(v) <= Deadband THEN 0
  ELSE IF v > 0 THEN v - Deadband ELSE v + Deadband

(* filtered_delta: whatever alpha is, between the new and the old value. *)
Filtered(current, previous) ==
  IF current = 0 THEN {0}
  ELSE Smaller(current, previous) .. Larger(current, previous)

HandInit ==
  /\ config \in [mode : {"velocity", "position"}, sync : BOOLEAN,
                 reanchor : BOOLEAN, buttons : BOOLEAN]
  /\ latestPose = NoPose /\ latestButtons = {}
  /\ external = NoPose /\ fresh = FALSE
  /\ node = [tcp |-> Lo, anchorHand |-> NoPose, anchorTcp |-> NoPose,
             previousHand |-> NoPose, filtered |-> 0, stationary |-> "no",
             paused |-> FALSE]
  /\ prevEnabled = FALSE
  /\ enabled = FALSE /\ target = Lo /\ twist = 0
  /\ gripper = {}
  /\ presses = [b \in Fingers |-> 0]
  /\ commands = [b \in Fingers |-> 0]

(* The TCP pose a command starts from: measured if fresh, else the target. *)
Base(n) == IF external # NoPose /\ fresh THEN Clamped(external) ELSE n.tcp

(* Mutant: the anchor is the last target, wherever the arm is. *)
AnchoredInternal(n) ==
  [n EXCEPT !.anchorHand = latestPose, !.anchorTcp = n.tcp,
            !.previousHand = latestPose, !.filtered = 0]

(* reanchor_position_target and update_position_stationary_hold_state *)
Anchored(n) ==
  [n EXCEPT !.tcp = Base(n), !.anchorHand = latestPose,
            !.anchorTcp = Base(n), !.previousHand = latestPose,
            !.filtered = 0]

(* capture_motion_anchor *)
Captured(n) == [Anchored(n) EXCEPT !.stationary = "no", !.paused = FALSE]

(* clear_motion_anchor *)
Cleared(n) ==
  [n EXCEPT !.anchorHand = NoPose, !.anchorTcp = NoPose,
            !.previousHand = NoPose, !.filtered = 0, !.stationary = "no",
            !.paused = FALSE]

(* VelocityTeleopMotionMode.update: the increment since the last cycle,    *)
(* from the measured pose.                                                 *)
VelocityUpdate(n) ==
  LET delta == ClampedNorm(Deadbanded(latestPose - n.previousHand), MaxDelta)
  IN  {[n EXCEPT !.filtered = f, !.tcp = Clamped(Base(n) + f),
                 !.previousHand = latestPose] :
         f \in Filtered(delta, n.filtered)}

(* position_controller_is_stationary *)
Stillness(n) ==
  IF ~config.reanchor THEN {n.stationary}
  ELSE IF Norm(latestPose - n.previousHand) > Still THEN {"no"}
  ELSE IF n.stationary = "no" THEN {"timing"}
  ELSE {n.stationary, "held"}

(* The anchor displacement, of a hand that is neither still nor paused. *)
Displaced(n) ==
  LET offset == ClampedNorm(Deadbanded(latestPose - n.anchorHand), MaxOffset)
  IN  {[n EXCEPT !.filtered = f, !.tcp = Clamped(n.anchorTcp + f),
                 !.previousHand = latestPose] :
         f \in Filtered(offset, n.filtered)}

Resumed(n) == {[Anchored(n) EXCEPT !.paused = FALSE, !.stationary = "no"]}

(* PositionTeleopMotionMode.update: still for long enough pauses, a larger *)
(* motion resumes, and in between the anchor follows hand and arm.         *)
PositionUpdate(n) ==
  UNION {LET m == [n EXCEPT !.stationary = still] IN
           IF still = "held" THEN {[Anchored(m) EXCEPT !.paused = TRUE]}
           ELSE IF ~n.paused THEN Displaced(m)
           ELSE IF Norm(latestPose - n.previousHand) < Resume
                  THEN {Anchored(m)}
           ELSE Resumed(m) : still \in Stillness(n)}

Updates(n) ==
  IF config.mode = "velocity" THEN VelocityUpdate(n) ELSE PositionUpdate(n)

(* Mutant: an anchored target follows the measured pose too. *)
ShouldSyncAlways(n) == config.sync

(* should_sync_external_tcp: the age of the measured pose is not looked at.*)
ShouldSync(n) == config.sync /\ ~prevEnabled /\ n.anchorTcp = NoPose

(* Mutant: the measured pose is taken as it is. *)
SyncedUnclamped(n, measured) ==
  IF measured # NoPose /\ ShouldSync(n)
    THEN [n EXCEPT !.tcp = measured] ELSE n

(* sync_tcp_from_pose *)
Synced(n, measured) ==
  IF measured # NoPose /\ ShouldSync(n)
    THEN [n EXCEPT !.tcp = Clamped(measured)] ELSE n

(* compute_twist_from_tcp_delta and publish_outputs *)
PublishOutputs(n, motion) ==
  /\ node' = n
  /\ enabled' = motion
  /\ target' = n.tcp
  /\ twist' = IF motion THEN n.tcp - node.tcp ELSE 0
  /\ UNCHANGED <<config, latestPose, latestButtons, external, fresh>>

TriggerEnabled == "trigger" \in latestButtons /\ latestPose # NoPose

(* timer_callback with the trigger released *)
IdleTimer ==
  /\ ~TriggerEnabled
  /\ prevEnabled' = FALSE
  /\ PublishOutputs(Synced(Cleared(node), external), FALSE)

(* timer_callback with the trigger held; its first cycle anchors. *)
TrackTimer ==
  /\ TriggerEnabled
  /\ prevEnabled' = TRUE
  /\ \E n \in Updates(IF prevEnabled THEN node ELSE Captured(node)) :
       PublishOutputs(n, ~n.paused)

PoseCallback(p) ==
  /\ poseTopic
  /\ latestPose' = p
  /\ poseTopic' = FALSE
  /\ UNCHANGED <<held, buttonsTopic, config, latestButtons, external, fresh,
                 node, prevEnabled, enabled, target, twist>>

(* external_tcp_pose_callback *)
ExternalPose(p) ==
  /\ external' = p /\ fresh' = TRUE
  /\ node' = Synced(node, p)
  /\ UNCHANGED <<config, latestPose, latestButtons, prevEnabled, enabled,
                 target, twist>>

(* The pose gets older than external_tcp_pose_timeout. *)
Expire ==
  /\ fresh /\ fresh' = FALSE
  /\ UNCHANGED <<config, latestPose, latestButtons, external, node,
                 prevEnabled, enabled, target, twist>>

(* Mutant: a button that stays down gives its command with every message.  *)
GripperCommandLevel(buttons) ==
  {b \in Fingers \intersect buttons : (Fingers \ {b}) \intersect buttons = {}}

(* process_gripper_buttons: the button pressed since the last message,     *)
(* unless the other one is down too.                                       *)
GripperCommand(buttons) ==
  {b \in (Fingers \intersect buttons) \ gripper :
     (Fingers \ {b}) \intersect buttons = {}}

ProcessGripperButtons(buttons) ==
  IF config.buttons
    THEN /\ gripper' = Fingers \intersect buttons
         /\ commands' = [b \in Fingers |->
              IF b \in GripperCommand(buttons) THEN commands[b] + 1
                                               ELSE commands[b]]
    ELSE gripper' = {} /\ UNCHANGED commands

ButtonsCallback ==
  \E buttons \in buttonsTopic :
    /\ buttonsTopic' = {}
    /\ latestButtons' = buttons
    /\ ProcessGripperButtons(buttons)
    /\ UNCHANGED <<held, poseTopic, config, latestPose, external, fresh, node,
                   prevEnabled, enabled, target, twist, presses>>

(* The user presses or releases a gripper button, or the trigger. *)
Finger(b) ==
  /\ User(b)
  /\ b \in Fingers \ held => presses[b] < MaxPresses
  /\ presses' = [f \in Fingers |->
                   IF f = b /\ f \notin held THEN presses[f] + 1
                                             ELSE presses[f]]
  /\ UNCHANGED <<handVars, gripper, commands>>
=============================================================================
