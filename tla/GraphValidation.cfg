SPECIFICATION Spec
CONSTANTS
    None = None
    Submissions <- AllSubmissions
INVARIANTS
    TypeOK
    VerdictIsRight
    OpenNodesAreThePath
PROPERTIES
    ValidationEnds
CHECK_DEADLOCK FALSE
