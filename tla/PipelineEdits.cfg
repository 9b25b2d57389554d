SPECIFICATION Spec
CONSTANTS
    None = None
    Edited = Edited
    s1 = s1
    v1 = v1
    Specs <- SpecsEdited
    DefaultsSpecs <- OneDefaults
    Secrets = {}
    SecretData = {}
    PartitionCounts = {}
    PodCounts <- NoPodCounts
    DriftKinds = {}
    ServiceMonitorAvailable = FALSE
    MaxUid = 1
    MaxGeneration = 2
    MaxFaults = 0
    MaxLag = 2
INVARIANTS
    QuietMeansConverged
    VerdictMatchesGeneration
    WorksForExistingPipeline
PROPERTIES
    ObservedNeverRegresses
    ConfigBeforePods
CHECK_DEADLOCK FALSE
