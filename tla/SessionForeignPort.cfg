SPECIFICATION Spec
CONSTANTS
    Clients = {c1}
    Names = {a}
    Free = Free
    NoName = NoName
    BasePort = 1
    MaxPort = 1
    MaxLaunch = 1
    MaxOps = 2
    Faults = {"foreign"}
    MaxFaults = 1
PROPERTY HealthIsOwn
