\* A feedback left over from the motion before.
SPECIFICATION Spec
CONSTANTS
  MaxMotions = 3
  Cancels = FALSE
INVARIANTS
  AbortIsReal
\* Nobody has to send another goal.
CHECK_DEADLOCK FALSE
