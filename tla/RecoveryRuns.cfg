SPECIFICATION FairSpec
CONSTANTS
    Requests = {q1, q2}
    Actions = {"MARK_PROCESS_INTERRUPTED", "RETRY_AS_NEW_RUN", "RECONCILE_QUEUE_FROM_CANONICAL_RECEIPT", "RESPOND_TO_TIM_REQUIRED", "ACKNOWLEDGE_COMPLETED"}
    MaxGenerations = 3
    MaxBlind = 1
    MaxFaults = 1
INVARIANTS
    TypeOK
    StopsAreBacked
    OneStop
    ReceiptsAreTrue
    RetriedOnce
    NoRunBesideSource
PROPERTIES
    ReceiptEndsRetries
    RequestsEnd
CHECK_DEADLOCK FALSE
