SPECIFICATION Spec
CONSTANTS
  Controllers = {"jointpos", "cartpose", "elbow", "broken"}
  Claims <- MCClaims
  Partial <- MCPartial
  Overlap = FALSE
  Faults = TRUE
INVARIANTS
  FrameMatchesSession
  FrameInitialized
  RTSurvives
PROPERTIES
  ImplementsControlSession
