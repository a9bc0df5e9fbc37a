SPECIFICATION Spec
CONSTANTS
    None = None
    s1 = s1
    s2 = s2
    s3 = s3
    same = same
    other = other
    Submissions = {s1, s2}
    Retries = {}
    Reconciled = {q}
    QueueCalls = {c}
    Responses = {"APPROVE_EXACT_REQUEST", "DENY_REQUEST"}
    Keys = {same}
    ReplayKey <- SameRequest
INVARIANTS
    TypeOK
    RequestRunsOnce
    EvidenceTracksRun
    StopLeavesOnlyPreviews
    RunsAreAuthorized
PROPERTIES
    VerdictsAreFinal
CHECK_DEADLOCK FALSE
