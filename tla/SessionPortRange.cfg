SPECIFICATION Spec
CONSTANTS
    Clients = {c1}
    Names = {a, b}
    Free = Free
    NoName = NoName
    BasePort = 1
    MaxPort = 1
    MaxLaunch = 2
    MaxOps = 2
    Faults = {}
    MaxFaults = 0
INVARIANT RecordReadable
