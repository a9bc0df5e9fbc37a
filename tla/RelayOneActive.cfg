SPECIFICATION Spec
CONSTANTS
    None = None
    s1 = s1
    s2 = s2
    s3 = s3
    same = same
    other = other
    Submissions = {s1}
    Retries = {}
    Reconciled = {q}
    QueueCalls = {}
    Responses = {"APPROVE_EXACT_REQUEST"}
    Keys = {same}
    ReplayKey <- SameRequest
INVARIANTS
    OneActiveMission
CHECK_DEADLOCK FALSE
