CONSTANTS
  Items = {i1, i2}
  Pendings = {}
  Receipts = {r1}
  Actors = {a1}
  Durations = {1}
  LastDay = 1
  None = None
SPECIFICATION Spec
INVARIANTS
  ReceiptsWhole
PROPERTIES
  UserDurationKept
  KeepsLifecycle
CHECK_DEADLOCK FALSE
