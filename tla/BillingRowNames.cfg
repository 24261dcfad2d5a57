CONSTANTS
  Topups = {}
  Subs = {s1, s2}
  Operators = {}
  Workers = {w1}
  Period = 2
  LastDay = 3
  FreeLimit = 1
  FamilyLimit = 2
  MaxOpen = 1
  MaxComps = 0
  None = None
SPECIFICATION Spec
INVARIANTS
  RowNamesSubscription
CHECK_DEADLOCK FALSE
