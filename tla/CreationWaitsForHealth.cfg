SPECIFICATION Spec
CONSTANTS
    None = None
    Sources = {1, 2}
    sanitizeName <- TwoNames
    Worlds <- WorldsTwo
    DiscSpecs <- SpecsTwo
    MaxUid = 1
    MaxGeneration = 1
    MaxFailures = 1
    MaxFaults = 0
    MaxLag = 1
    MaxChanges = 1
PROPERTIES
    CreationWaitsForHealth
CHECK_DEADLOCK FALSE
