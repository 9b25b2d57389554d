SPECIFICATION PropagationFairSpec
CONSTANTS
    None = None
    Edited = Edited
    old = old
    new = new
    Specs <- SpecsPlain
    DefaultsSpecs <- OneDefaults
    Secrets = {}
    SecretData = {}
    PartitionCounts = {}
    PodCounts = {}
    DriftKinds = {}
    ServiceMonitorAvailable = FALSE
    MaxUid = 1
    MaxGeneration = 1
    MaxFaults = 0
    MaxLag = 1
    EnableWebhook = TRUE
    MaxDefaultsChanges = 1
PROPERTIES
    DeletedPipelinesGo
CHECK_DEADLOCK FALSE
