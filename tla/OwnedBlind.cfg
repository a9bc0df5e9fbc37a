SPECIFICATION Spec
CONSTANTS
    r1 = r1
    r2 = r2
    d1 = d1
    d2 = d2
    Procs = {r1}
    Roots <- MCRoots
    Pid <- MCPid
    ParentOf <- MCParentOf
    Cleanups = {c1}
    MaxPasses = 2
    MaxFaults = 0
    MaxGeneration = 1
    Blind = TRUE
    None = None
INVARIANTS
    ConfirmedMeansGone
CHECK_DEADLOCK FALSE
