SPECIFICATION FairSpec
CONSTANTS
  h1 = h1
  h2 = h2
  h3 = h3
  h4 = h4
  o1 = o1
  o2 = o2
  o3 = o3
  s1 = s1
  s2 = s2
  blank = blank
  dirty = dirty
  absent = absent
  base = base
  noop = noop
  Ops = {h1, h2, h3, h4, o1, o2}
  Snapshots = {s1, s2}
  Data = {blank, dirty}
  Blank = blank
  Absent = absent
  Base = base
  NoOp = noop
  MaxGeneration = 5
  RequestKinds = {"restore"}
  Past <- MCPast
  Taken = s1
  MaxFaults = 2
CHECK_DEADLOCK FALSE
PROPERTIES
  OperationsSettle
