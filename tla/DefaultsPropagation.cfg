SPECIFICATION PropagationSpec
CONSTANTS
    None = None
    Edited = Edited
    old = old
    new = new
    Specs <- SpecsFaulty
    DefaultsSpecs <- TwoDefaults
    Secrets = {}
    SecretData = {}
    PartitionCounts = {}
    PodCounts = {}
    DriftKinds = {}
    ServiceMonitorAvailable = FALSE
    MaxUid = 1
    MaxGeneration = 1
    MaxFaults = 1
    MaxLag = 1
    EnableWebhook = TRUE
    MaxDefaultsChanges = 1
INVARIANTS
    PropagationTypes
    QuietMeansConverged
    QuietMeansPropagated
    Propagating
SYMMETRY Images
CHECK_DEADLOCK FALSE
