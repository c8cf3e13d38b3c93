SPECIFICATION Spec
CONSTANTS
  Runners = {"r1", "r2"}
  First = "r1"
  Chunks = 1
  Window = 1
  Scenarios <- MCReturn
INVARIANTS SealedOnlyInSlot
CHECK_DEADLOCK FALSE
