SPECIFICATION FairSpec
CONSTANTS
    None = None
    Sources = {1, 2}
    sanitizeName <- TwoNames
    Worlds <- WorldsTwo
    DiscSpecs <- SpecsTwo
    MaxUid = 1
    MaxGeneration = 2
    MaxFailures = 1
    MaxFaults = 0
    MaxLag = 1
    MaxChanges = 1
INVARIANTS
    TypeOK
    QuietMeansProvisioned
PROPERTIES
    KeepsServedPipelines
    ReleasedPipelinesStay
    EventuallyProvisioned
CHECK_DEADLOCK FALSE
