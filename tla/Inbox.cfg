CONSTANTS
  Events = {e1, e2}
  Users = {u1}
  MaxWrites = 2
  MaxCrashes = 2
  MaxMoves = 2
  LockErrors = TRUE
SPECIFICATION FairSpec
INVARIANTS
  TypeOK
  NothingLost
PROPERTIES
  WorkedOnce
  RevokedStops
  EventsSettle
CHECK_DEADLOCK FALSE
