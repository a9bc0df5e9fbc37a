SPECIFICATION Spec
CONSTANTS
    Calls = {c1, c2}
    Results = {r1, r2}
    Bound = r1
    Faults = {}
    Crashes = FALSE
    Overlap = TRUE
    None = None
INVARIANT
    ResubmissionReturnsReceipt
CHECK_DEADLOCK FALSE
