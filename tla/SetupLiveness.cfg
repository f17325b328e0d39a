SPECIFICATION FairSpec
CONSTANTS
    Callers = {c1, c2}
    Requests = {r1}
    NoRequest = NoRequest
    Keeper = Keeper
    Nobody = Nobody
    Faults <- DyingProcesses
CHECK_DEADLOCK FALSE
PROPERTIES
    StopSettles
    TreeEnds
