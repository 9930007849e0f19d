\* One HTTP thread and the auto start.
SPECIFICATION Spec
CONSTANTS
  Handlers = {h1}
  AutoStart = auto
  RetryCount = 2
  MaxLate = 1
INVARIANTS
  OneArmController
PROPERTIES
  ImpedanceRestored
  RequestsAnswered
