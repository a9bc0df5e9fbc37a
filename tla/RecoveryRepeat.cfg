SPECIFICATION Spec
CONSTANTS
    Requests = {q1, q2}
    Actions = {"MARK_PROCESS_INTERRUPTED", "RETRY_AS_NEW_RUN"}
    MaxGenerations = 2
    MaxBlind = 1
    MaxFaults = 1
INVARIANTS
    NeverRepeated
CHECK_DEADLOCK FALSE
