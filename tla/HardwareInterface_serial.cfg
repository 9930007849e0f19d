SPECIFICATION Spec
CONSTANTS
  Controllers = {"torque", "jointpos", "velelbow", "posbow", "cartvel"}
  Claims <- MCClaims
  Partial <- MCPartial
  Overlap = FALSE
  Faults = FALSE
INVARIANTS
  ModeServesControllers
PROPERTIES
  CommandsFlow
