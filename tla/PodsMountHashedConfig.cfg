SPECIFICATION Spec
CONSTANTS
    None = None
    Edited = Edited
    s1 = s1
    v1 = v1
    Specs <- SpecsTwoBodies
    DefaultsSpecs <- NoDefaultsSpecs
    Secrets = {}
    SecretData = {}
    PartitionCounts = {}
    PodCounts <- NoPodCounts
    DriftKinds = {}
    ServiceMonitorAvailable = TRUE
    MaxUid = 1
    MaxGeneration = 3
    MaxFaults = 0
    MaxLag = 2
PROPERTIES
    PodsMountHashedConfig
CHECK_DEADLOCK FALSE
