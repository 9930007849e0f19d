SPECIFICATION NodeSpec
CONSTANTS
  Lowest = 0
  Highest = 2
  Targets = {0, 1, 3}
  Lookahead = 2
  Ticks = {1, 4}
  MaxVelocity = 2
  Acceleration = 1
  MaxInitial = 2
  NoMessage = NoMessage
  NoOrigin = NoOrigin
  MaxPoints = 2
  MaxGrips = 2
INVARIANTS
  NodeTypeOK
  DisabledMeansStopped
  OwnHand
  TraceCoherent
PROPERTIES
  SilenceStops
  SteppedGently
  TargetReached
