SPECIFICATION FairSpec
CONSTANTS
    None = None
    s1 = s1
    s2 = s2
    s3 = s3
    same = same
    other = other
    Submissions = {s1, s2}
    Retries = {r}
    Reconciled = {q}
    QueueCalls = {}
    Responses = {"DENY_REQUEST"}
    Keys = {same}
    ReplayKey <- SameRequest
INVARIANTS
    ExclusiveRun
PROPERTIES
    SubmissionsSettle
    FirstRunsRelease
    ImplementsSlot
CHECK_DEADLOCK FALSE
