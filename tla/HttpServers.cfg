\* Two threads per server.  A behavior ends after MaxRequests or MaxCalls requests.
SPECIFICATION Spec
CONSTANTS
  MaxMessage = 2
  Clients = {c1, c2}
  Thresholds = {soft, stiff}
  MaxRequests = 3
  Handlers = {h1, h2}
  Factors = {slow, fast}
  Collisions = {low, high}
  MaxCalls = 3
INVARIANTS
  VelocityConsistent
  ThresholdsApplied
  MemoryKept
PROPERTIES
  RequestsAnswered
CHECK_DEADLOCK FALSE
