\* Four states, and any number of activations and configurations.
SPECIFICATION Spec
CONSTANT MaxUpdates = 4
INVARIANTS
  SlotsSafe
PROPERTIES
  ImplementsLatestState
  StateIsPublished
