SPECIFICATION FairSpec
CONSTANTS
    None = None
    Sources = {1, 2, 3}
    sanitizeName <- SharedNames
    Worlds <- WorldsShared
    DiscSpecs <- SpecsOdd
    MaxUid = 1
    MaxGeneration = 1
    MaxFailures = 1
    MaxFaults = 1
    MaxLag = 1
    MaxChanges = 1
INVARIANTS
    PollingContinues
    Discovering
PROPERTIES
    FinalizerHonoured
    EventuallyProvisioned
CHECK_DEADLOCK FALSE
