SPECIFICATION Spec
CONSTANTS
    None = None
    Edited = Edited
    s1 = s1
    v1 = v1
    Specs <- SpecsInputs
    DefaultsSpecs <- NoDefaultsSpecs
    Secrets = {s1}
    SecretData = {v1}
    PartitionCounts = {2}
    PodCounts <- NoPodCounts
    DriftKinds = {}
    ServiceMonitorAvailable = FALSE
    MaxUid = 1
    MaxGeneration = 1
    MaxFaults = 0
    MaxLag = 1
INVARIANTS
    QuietMeansConverged
CHECK_DEADLOCK FALSE
