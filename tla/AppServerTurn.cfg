SPECIFICATION FairSpec
CONSTANTS
    Thread = Thread
    Turn = Turn
    OtherThread = OtherThread
    OtherTurn = OtherTurn
    None = None
    Lines <- MCLines
    ItemMethods = {"item/started", "item/completed", "item/agentMessage/delta"}
    ExactResponse = FALSE
    MaxLines = 4
    MaxEarly = 1
INVARIANTS
    TypeOK
    SuccessIsEarned
PROPERTIES
    AdapterEnds
CHECK_DEADLOCK FALSE
