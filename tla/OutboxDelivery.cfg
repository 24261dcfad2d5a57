SPECIFICATION Spec
CONSTANTS
    Users = {"u1"}
    Households = {"h1"}
    None = None
    Connections = {"c1"}
    MaxDeliveries = 2
    Parts = 2
    MaxAttempts = 2
    MaxGeneration = 0
    MaxRevision = 0
    MaxCrashes = 1
    MaxLockFailures = 1
INVARIANTS TypeOK NoPartSentTwice ConfirmedMeansComplete RunMirrorsConfirmation
PROPERTIES SettledOnlyAdvances KeepsPromise
CHECK_DEADLOCK FALSE
