SPECIFICATION FairSpec
CONSTANTS
    None = None
    Edited = Edited
    s1 = s1
    v1 = v1
    Specs <- SpecsPlain
    DefaultsSpecs <- NoDefaultsSpecs
    Secrets = {}
    SecretData = {}
    PartitionCounts = {}
    PodCounts <- NoPodCounts
    DriftKinds = {}
    ServiceMonitorAvailable = TRUE
    MaxUid = 2
    MaxGeneration = 1
    MaxFaults = 1
    MaxLag = 1
INVARIANTS
    TypeOK
PROPERTIES
    FinalizerHonoured
    EventuallyTidy
CHECK_DEADLOCK FALSE
