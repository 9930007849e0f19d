\* Goals one after the other, with cancelMotion between two polls.
SPECIFICATION Spec
CONSTANTS
  MaxMotions = 3
  Cancels = TRUE
INVARIANTS
  SuccessIsReal
  ArmFollowed
  OneTask
PROPERTIES
  GoalEnds
\* Nobody has to send another goal.
CHECK_DEADLOCK FALSE
