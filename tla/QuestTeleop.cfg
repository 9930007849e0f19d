SPECIFICATION Spec
CONSTANTS
  Hand = {0, 1, 2}
  NoPose = NoPose
  Lo = 0
  Hi = 2
  Measured = {0, 3}
  Deadband = 0
  MaxDelta = 1
  MaxOffset = 1
  Still = 0
  Resume = 2
  MaxPresses = 3
INVARIANTS
  TypeOK
  AnchoredTarget
  OneCommandPerPress
PROPERTIES
  NoJump
  ReleaseStops
