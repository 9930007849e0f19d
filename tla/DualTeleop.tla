----------------------------- MODULE DualTeleop -----------------------------
(***************************************************************************)
(* franka_dual_real_teleop.launch.py: one headset node, and for each hand  *)
(* a teleoperation node, and either a franky node or, without a robot, a   *)
(* simulation.  Which hand moves which arm is a matter of the topics and   *)
(* buttons that the launch file gives to the nodes.                        *)
(*                                                                         *)
(* What the nodes do with a message is in the other modules.  Here a       *)
(* message is the set of what has made it what it is: the hands a target   *)
(* or a measured pose has followed, the triggers that enable a motion.  A  *)
(* topic keeps its newest message.  Gripper buttons, the world, frames and *)
(* RViz are left out.                                                      *)
(***************************************************************************)
EXTENDS Naturals

CONSTANT NoMessage

VARIABLES
  started,  \* the sides whose start_..._franka is true
  down,     \* the triggers the user holds down
  topic,    \* the newest message of each topic
  tcp,      \* what the TCP target of each teleoperation has followed
  armed     \* the triggers that have let each arm move (history)

dualVars == <<started, down, topic, tcp, armed>>

Sides == {"left", "right"}
Kinds == {"controller_pose", "target_pose", "enabled", "current_pose", "joint_states"}
ButtonsTopic == <<"buttons", "both">>
Topics == (Kinds \X Sides) \cup {ButtonsTopic}

\* hand_teleop_node: what one teleoperation node gets as its parameters.
HandTeleopNode(pose, trigger, target, enabled_topic, current) ==
  [pose |-> pose, buttons |-> ButtonsTopic, trigger |-> trigger,
   target |-> target, enabled |-> enabled_topic, current |-> current]

\* Mutant of HandTeleops: both nodes listen to the trigger of the right hand.
HandTeleopsOneTrigger ==
  [h \in Sides |->
     HandTeleopNode(<<"controller_pose", h>>, "RTr", <<"target_pose", h>>,
                    <<"enabled", h>>, <<"current_pose", h>>)]

HandTeleops ==
  [h \in Sides |->
     HandTeleopNode(<<"controller_pose", h>>, IF h = "left" THEN "LTr" ELSE "RTr",
                    <<"target_pose", h>>, <<"enabled", h>>, <<"current_pose", h>>)]

\* franky_node: likewise.
FrankyCartesianPoseNode(target, enabled_topic, current, joints, condition) ==
  [target |-> target, enabled |-> enabled_topic, current |-> current,
   joints |-> joints, condition |-> condition]

FrankyNodes ==
  [h \in Sides |->
     FrankyCartesianPoseNode(<<"target_pose", h>>, <<"enabled", h>>,
                             <<"current_pose", h>>, <<"joint_states", h>>,
                             h \in started)]

\* The simulation of a side that has no robot.
SimNodes ==
  [h \in Sides |-> [target |-> <<"target_pose", h>>,
                    joints |-> <<"joint_states", h>>, condition |-> h \notin started]]

DualInit ==
  /\ started \in SUBSET Sides
  /\ down = {}
  /\ topic = [t \in Topics |-> NoMessage]
  /\ tcp = [h \in Sides |-> {}]
  /\ armed = [h \in Sides |-> {}]

\* The user holds or releases a trigger.
Pull(trigger) ==
  /\ down' = IF trigger \in down THEN down \ {trigger} ELSE down \cup {trigger}
  /\ UNCHANGED <<started, topic, tcp, armed>>

\* The headset node: the poses of the hands it tracks, and with any of them all
\* the buttons.
Quest3OculusTf(tracked) ==
  /\ tracked # {}
  /\ topic' = [t \in Topics |->
                 IF t = ButtonsTopic THEN down
                 ELSE IF \E h \in tracked : t = <<"controller_pose", h>> THEN {t[2]}
                 ELSE topic[t]]
  /\ UNCHANGED <<started, down, tcp, armed>>

Known(message) == IF message = NoMessage THEN {} ELSE message

\* A timer cycle of a teleoperation: its target starts from the measured pose,
\* and follows the hand while the trigger is held.
HandTeleopTimer(h) ==
  LET n == HandTeleops[h]
      tracking == /\ n.trigger \in Known(topic[n.buttons])
                  /\ topic[n.pose] # NoMessage
      followed == tcp[h] \cup Known(topic[n.current])
                    \cup (IF tracking THEN topic[n.pose] ELSE {})
  IN  /\ tcp' = [tcp EXCEPT ![h] = followed]
      /\ topic' = [topic EXCEPT ![n.target] = followed,
                                ![n.enabled] = IF tracking THEN {n.trigger} ELSE {}]
      /\ UNCHANGED <<started, down, armed>>

\* A cycle of a franky node: the robot moves if it is enabled.
FrankyCartesianPose(h) ==
  LET n == FrankyNodes[h]
      moves == Known(topic[n.enabled]) # {} /\ topic[n.target] # NoMessage
      followed == Known(topic[n.current]) \cup (IF moves THEN topic[n.target] ELSE {})
  IN  /\ n.condition
      /\ topic' = [topic EXCEPT ![n.current] = followed, ![n.joints] = followed]
      /\ armed' = IF moves THEN [armed EXCEPT ![h] = @ \cup topic[n.enabled]] ELSE armed
      /\ UNCHANGED <<started, down, tcp>>

\* A timer cycle of the simulation, which steps toward any target it has, and
\* publishes its joints in any case.
FrankaSimIk(h) ==
  LET n == SimNodes[h] IN
  /\ n.condition
  /\ topic' = [topic EXCEPT ![n.joints] = Known(@) \cup Known(topic[n.target])]
  /\ UNCHANGED <<started, down, tcp, armed>>

DualNext ==
  \/ \E trigger \in {"LTr", "RTr"} : Pull(trigger)
  \/ \E tracked \in SUBSET Sides : Quest3OculusTf(tracked)
  \/ \E h \in Sides : HandTeleopTimer(h) \/ FrankyCartesianPose(h) \/ FrankaSimIk(h)

DualTypeOK ==
  /\ started \subseteq Sides /\ down \subseteq {"LTr", "RTr"}
  /\ topic \in [Topics -> (SUBSET (Sides \cup {"LTr", "RTr"})) \cup {NoMessage}]
  /\ tcp \in [Sides -> SUBSET Sides]

(* Through whatever nodes a message goes, and whichever robots are there,  *)
(* each arm and each simulation follows the hand of its side only, and a   *)
(* robot only moves by the trigger of that hand.                           *)
OwnHand ==
  \A h \in Sides :
    /\ Known(topic[<<"joint_states", h>>]) \subseteq {h}
    /\ armed[h] \subseteq {IF h = "left" THEN "LTr" ELSE "RTr"}
=============================================================================
