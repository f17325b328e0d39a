SPECIFICATION FairSpec
CONSTANTS
    Clients = {c1, c2}
    Names = {a, b}
    Free = Free
    NoName = NoName
    BasePort = 1
    MaxPort = 2
    MaxLaunch = 2
    MaxOps = 2
    Faults = {"crash"}
    MaxFaults = 1
PROPERTY OperationsEnd
