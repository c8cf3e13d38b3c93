SPECIFICATION LiveSpec
CONSTANTS
  Runners = {"r1", "r2"}
  First = "r1"
  Chunks = 2
  Window = 1
  Scenarios <- MCLiveness
PROPERTIES RelocationSettles
CHECK_DEADLOCK FALSE
