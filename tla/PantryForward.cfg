CONSTANTS
  Items = {i1}
  Pendings = {}
  Receipts = {}
  Actors = {a1, a2}
  Durations = {1}
  LastDay = 0
  None = None
SPECIFICATION Spec
PROPERTIES
  ForwardOnly
CHECK_DEADLOCK FALSE
