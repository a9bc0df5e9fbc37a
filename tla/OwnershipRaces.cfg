SPECIFICATION Spec
CONSTANTS
    Instances = {a, b, c}
    Recoveries = {}
    Overlap = TRUE
    Crashes = TRUE
    Blind = TRUE
    None = None
INVARIANT
    OneClaimant
CHECK_DEADLOCK FALSE
SYMMETRY Symmetry
