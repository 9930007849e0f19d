\* Two attempts to clear, and requests served after their time-out.
SPECIFICATION Spec
CONSTANTS
  Retries = 2
  MaxRequests = 2
  MaxGoals = 1
  MaxInbox = 2
  Grace = 2
  TopicTimeout = 1
  RestartTimeout = 4
INVARIANTS
  TypeOK
  NoStepUnderRecovery
  Disarmed
  RestartIsLast
  GapBounded
PROPERTIES
  TeleopResumes
  ReflexAnswered
