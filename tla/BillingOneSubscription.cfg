CONSTANTS
  Topups = {}
  Subs = {s1, s2}
  Operators = {}
  Workers = {}
  Period = 2
  LastDay = 3
  FreeLimit = 1
  FamilyLimit = 2
  MaxOpen = 2
  MaxComps = 0
  None = None
SPECIFICATION Spec
INVARIANTS
  OneSubscription
CHECK_DEADLOCK FALSE
