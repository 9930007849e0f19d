---------------------------- MODULE QuestTeleop ----------------------------
(***************************************************************************)
(* The headset node and the hand teleoperation together. The motion half   *)
(* of the teleoperation looks at the trigger of a buttons message and the  *)
(* gripper half at the two gripper buttons, and neither writes what the    *)
(* other reads: `part` picks the half whose buttons the user uses.         *)
(***************************************************************************)
EXTENDS HandTeleop

VARIABLE part

vars == <<oculusVars, handVars, gripperVars, part>>

Parts == {"motion", "gripper"}

(* A parameter is only varied where something depends on it: without sync  *)
(* both modes start from the same Base, without re-anchoring is the first  *)
(* part of a motion without the pauses.                                    *)
Init ==
  /\ OculusInit /\ HandInit /\ part \in Parts
  /\ part = "motion" => config.buttons
  /\ config.mode = "velocity" => config.reanchor /\ config.sync
  /\ config.reanchor \/ config.sync
  /\ part = "gripper" => config.mode = "velocity"

Used == IF part = "motion" THEN {"trigger"} ELSE Fingers

Timer == IdleTimer \/ TrackTimer

Next ==
  \/ \E b \in Used : Finger(b) /\ UNCHANGED part
  \/ /\ UNCHANGED <<handVars, gripperVars, part>>
     /\ \E tracked \in SUBSET {"r", "l"} : OculusTimer(tracked)
  \/ ButtonsCallback /\ UNCHANGED part
  \/ /\ part = "motion"
     /\ UNCHANGED <<gripperVars, part>>
     /\ \/ \E p \in Hand : PoseCallback(p)
        \/ Timer /\ UNCHANGED oculusVars
        \/ \E p \in Measured : ExternalPose(p) /\ UNCHANGED oculusVars
        \/ Expire /\ UNCHANGED oculusVars

(* The headset goes on tracking a hand, and both nodes keep spinning. *)
Fairness ==
  /\ WF_vars(Sample /\ UNCHANGED <<handVars, gripperVars, part>>)
  /\ WF_vars(ButtonsCallback /\ UNCHANGED part)
  /\ WF_vars(part = "motion" /\ Timer
             /\ UNCHANGED <<oculusVars, gripperVars, part>>)

Spec == Init /\ [][Next]_vars /\ Fairness

(* Every variable keeps its type; the target stays in the workspace. *)
TypeOK ==
  /\ held \subseteq Buttons
  /\ poseTopic \in BOOLEAN
  /\ buttonsTopic \in SUBSET SUBSET Buttons
  /\ latestPose \in Hand \union {NoPose}
  /\ latestButtons \subseteq Buttons
  /\ external \in Measured \union {NoPose}
  /\ {fresh, prevEnabled, enabled} \subseteq BOOLEAN
  /\ node \in [tcp : Lo .. Hi, anchorHand : Hand \union {NoPose},
               anchorTcp : Lo .. Hi \union {NoPose},
               previousHand : Hand \union {NoPose}, filtered : Int,
               stationary : {"no", "timing", "held"}, paused : BOOLEAN]
  /\ target \in Lo .. Hi /\ twist \in (Lo - Hi) .. (Hi - Lo)
  /\ gripper \subseteq Fingers
  /\ presses \in [Fingers -> 0 .. MaxPresses]

(* While the trigger is held the target is the published one: no callback  *)
(* between two timer cycles moves it, and there is an anchor to move from. *)
(* In position mode it stays within its largest offset of the anchor,      *)
(* however the filter mixes old and new displacements.                     *)
AnchoredTarget ==
  /\ prevEnabled => /\ target = node.tcp
                    /\ node.anchorTcp # NoPose /\ node.previousHand # NoPose
  /\ config.mode = "position" /\ node.anchorTcp # NoPose =>
       Norm(node.tcp - node.anchorTcp) <= MaxOffset

(* However often the user presses the gripper buttons, and whichever       *)
(* messages are lost, a button gives no more commands than it had presses. *)
OneCommandPerPress == \A b \in Fingers : commands[b] <= presses[b]

(* Motion that begins, with the trigger or after the hand was held still,  *)
(* begins where the arm is, or where the target was.  In velocity mode a   *)
(* cycle leads the arm, or the last target when the measured pose is old,  *)
(* by no more than the largest increment.                                  *)
NoJump ==
  [][/\ enabled' /\ ~enabled => target' = Base(node)
     /\ config.mode = "velocity" /\ prevEnabled /\ prevEnabled' =>
          (Timer => Norm(target' - Base(node)) <= MaxDelta)]_vars

(* A released trigger stops the motion, as long as a hand is tracked. *)
ReleaseStops ==
  part = "motion" /\ "trigger" \notin held ~> "trigger" \in held \/ ~enabled
=============================================================================
