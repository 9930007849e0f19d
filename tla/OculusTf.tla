------------------------------ MODULE OculusTf ------------------------------
(***************************************************************************)
(* Quest3OculusTfNode (oculus_tf_node.py): a timer reads the headset and   *)
(* publishes the pose of each tracked controller and, when at least one is *)
(* tracked, the buttons. A topic keeps its newest message: the samples a   *)
(* slow subscriber misses are lost. Where the hand is in a pose is chosen  *)
(* when the pose is read: nothing before that depends on it.               *)
(***************************************************************************)
EXTENDS Integers

VARIABLES held,          \* the buttons the user holds down
          poseTopic,     \* a pose waits on quest3/right_controller/pose
          buttonsTopic   \* quest3/buttons: {} when empty, else {buttons}

oculusVars == <<held, poseTopic, buttonsTopic>>

Buttons == {"trigger", "open", "close"}

OculusInit ==
  /\ held = {}
  /\ poseTopic = FALSE
  /\ buttonsTopic = {}

(* The user presses or releases a button. *)
User(b) ==
  /\ held' = IF b \in held THEN held \ {b} ELSE held \union {b}
  /\ UNCHANGED <<poseTopic, buttonsTopic>>

(* Mutant: nothing is published of buttons of which none is down. *)
PublishButtonsDown(tracked) ==
  buttonsTopic' = IF tracked # {} /\ held # {} THEN {held} ELSE buttonsTopic

PublishButtons(tracked) ==
  buttonsTopic' = IF tracked # {} THEN {held} ELSE buttonsTopic

(* timer_callback; the mock data of the node are the case of both hands. *)
OculusTimer(tracked) ==
  /\ poseTopic' = (poseTopic \/ "r" \in tracked)
  /\ PublishButtons(tracked)
  /\ UNCHANGED held

Sample == \E tracked \in {{"r"}, {"l"}, {"r", "l"}} : OculusTimer(tracked)
=============================================================================
