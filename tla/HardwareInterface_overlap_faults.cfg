SPECIFICATION Spec
CONSTANTS
  Controllers = {"torque", "jointpos"}
  Claims <- MCClaims
  Partial <- MCPartial
  Overlap = TRUE
  Faults = TRUE
PROPERTIES
  SessionsDoNotOverlap
