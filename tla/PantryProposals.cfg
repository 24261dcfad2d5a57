CONSTANTS
  Items = {i1}
  Pendings = {p1, p2}
  Receipts = {}
  Actors = {a1}
  Durations = {1}
  LastDay = 0
  None = None
SPECIFICATION FairSpec
PROPERTIES
  DecisionsStand
  ProposalsEnd
CHECK_DEADLOCK FALSE
