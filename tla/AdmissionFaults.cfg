SPECIFICATION Spec
CONSTANTS
    Calls = {c1, c2, c3}
    Results = {r1, r2}
    Bound = r1
    Faults = {"stage", "prepare", "move", "rename", "commit", "verify", "envelope", "back", "record"}
    Crashes = TRUE
    Overlap = FALSE
    None = None
INVARIANTS
    TypeOK
    CommittedIsComplete
    AdvanceIsAccountedFor
    ReceiptReplays
PROPERTIES
    ReceiptIsFinal
    ImplementsLedger
CHECK_DEADLOCK FALSE
