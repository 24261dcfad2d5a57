CONSTANTS
  Topups = {}
  Subs = {s1, s2}
  Operators = {o1}
  Workers = {}
  Period = 2
  LastDay = 2
  FreeLimit = 1
  FamilyLimit = 2
  MaxOpen = 2
  MaxComps = 1
  None = None
SPECIFICATION Spec
INVARIANTS
  FamilyIsPaidFor
PROPERTIES
  CancelledKeepsBenefits
CHECK_DEADLOCK FALSE
