SPECIFICATION Spec
CONSTANTS
    None = None
    Edited = Edited
    s1 = s1
    v1 = v1
    Specs <- SpecsHpa
    DefaultsSpecs <- NoDefaultsSpecs
    Secrets = {}
    SecretData = {}
    PartitionCounts = {}
    PodCounts <- OnePod
    DriftKinds = {"service"}
    ServiceMonitorAvailable = TRUE
    MaxUid = 1
    MaxGeneration = 1
    MaxFaults = 0
    MaxLag = 1
INVARIANTS
    QuietMeansConverged
    Reconciling
CHECK_DEADLOCK FALSE
