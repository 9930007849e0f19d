SPECIFICATION Spec
CONSTANTS
  Controllers = {"torque", "jointpos", "cartpose"}
  Claims <- MCClaims
  Partial <- MCPartial
  Overlap = TRUE
  Faults = FALSE
INVARIANTS
  AcceptedFrameInitialized
