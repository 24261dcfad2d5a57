SPECIFICATION Spec
CONSTANTS
    Users = {"u1", "u2"}
    Households = {"h1", "h2"}
    None = None
    Connections = {"c1"}
    MaxDeliveries = 1
    Parts = 1
    MaxAttempts = 2
    MaxGeneration = 1
    MaxRevision = 1
    MaxCrashes = 0
    MaxLockFailures = 0
INVARIANTS WithheldMeansUnsent
PROPERTIES NothingStartsUnauthorized RevokedReplyNeverRevives
CHECK_DEADLOCK FALSE
