SPECIFICATION Spec
CONSTANTS
    Instances = {a, b, c}
    Recoveries = {r, s}
    Overlap = FALSE
    Crashes = TRUE
    Blind = FALSE
    None = None
INVARIANTS
    TypeOK
    ServingIsRecorded
    LeftoversAreHalfRemoved
PROPERTIES
    OnlyOwnerRemoves
CHECK_DEADLOCK FALSE
SYMMETRY Symmetry
