SPECIFICATION Spec
CONSTANTS
    Clients = {c1}
    Names = {a}
    Free = Free
    NoName = NoName
    BasePort = 1
    MaxPort = 1
    MaxLaunch = 2
    MaxOps = 3
    Faults = {"crash"}
    MaxFaults = 1
INVARIANT StopMeansGone
