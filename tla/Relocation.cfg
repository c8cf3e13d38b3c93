SPECIFICATION Spec
CONSTANTS
  Runners = {"r1", "r2"}
  First = "r1"
  Chunks = 2
  Window = 1
  Scenarios <- MCSafety
INVARIANTS TypeOK HomeHoldsImage SealedWhileMoving
CHECK_DEADLOCK FALSE
