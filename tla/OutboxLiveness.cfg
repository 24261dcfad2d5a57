SPECIFICATION FairSpec
CONSTANTS
    Users = {"u1"}
    Households = {"h1"}
    None = None
    Connections = {"c1"}
    MaxDeliveries = 2
    Parts = 1
    MaxAttempts = 2
    MaxGeneration = 0
    MaxRevision = 0
    MaxCrashes = 1
    MaxLockFailures = 0
PROPERTIES EveryDeliverySettles
CHECK_DEADLOCK FALSE
