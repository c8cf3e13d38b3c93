SPECIFICATION Spec
CONSTANTS
  s1 = s1
  r1 = r1
  r2 = r2
  Nobody = Nobody
  Sessions = {s1}
  Requests = {r1, r2}
  Scenarios <- ReattachScenarios
INVARIANT
  NoReorderedFrame
CHECK_DEADLOCK FALSE
