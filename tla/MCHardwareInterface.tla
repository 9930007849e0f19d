------------------------ MODULE MCHardwareInterface ------------------------
(* Instances of HardwareInterface for TLC: the controllers of              *)
(* franka_example_controllers and serl_franka_controllers_ros2 by what     *)
(* they claim, and two that a user could load by mistake.                  *)
EXTENDS HardwareInterface

ClaimsOf ==
  [torque   |-> {"effort"},
   jointvel |-> {"velocity"},
   jointpos |-> {"position"},
   cartvel  |-> {"cartesian_velocity"},
   cartpose |-> {"cartesian_pose_command"},
   velelbow |-> {"cartesian_velocity", "elbow_command"},
   posbow   |-> {"cartesian_pose_command", "elbow_command"},
   elbow    |-> {"elbow_command"},
   broken   |-> {"effort", "position"}]

MCClaims == [c \in Controllers |-> ClaimsOf[c]]

\* "broken" claims every effort interface and only some position interfaces.
MCPartial == [c \in Controllers |-> IF c = "broken" THEN {"position"} ELSE {}]
=============================================================================
