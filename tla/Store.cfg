SPECIFICATION Spec
CONSTANTS
  o1 = o1
  o2 = o2
  o3 = o3
  o4 = o4
  s1 = s1
  blank = blank
  dirty = dirty
  absent = absent
  base = base
  noop = noop
  Ops = {o1, o2, o3, o4}
  Snapshots = {s1}
  Data = {blank, dirty}
  Blank = blank
  Absent = absent
  Base = base
  NoOp = noop
  RequestKinds = {"create", "clone", "snapshot_create", "snapshot_delete", "restore", "stop", "delete", "relocate_out", "relocate_in"}
  MaxGeneration = 3
SYMMETRY OpSymmetry
INVARIANTS
  TypeOK
  CurrentImageNeverLost
  OneRestorePending
  ReceiptsNotAhead
  DeleteLeavesNothing
PROPERTIES
  SealedBytesStable
CONSTRAINT OneFamily
CHECK_DEADLOCK FALSE
