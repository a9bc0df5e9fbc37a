SPECIFICATION FairSpec
CONSTANTS
    r1 = r1
    r2 = r2
    d1 = d1
    d2 = d2
    Procs = {r1, r2, d1}
    Roots <- MCRoots
    Pid <- MCPid
    ParentOf <- MCParentOf
    Cleanups = {c1, c2}
    MaxPasses = 2
    MaxFaults = 1
    MaxGeneration = 3
    Blind = FALSE
    None = None
INVARIANTS
    TypeOK
    EndedAreGone
    LedgerAgrees
    ConfirmedMeansGone
    ParentsAreOlder
PROPERTIES
    EndIsFinal
    LeavesFirst
    CleanupEnds
CHECK_DEADLOCK FALSE
