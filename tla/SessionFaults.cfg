SPECIFICATION Spec
CONSTANTS
    Clients = {c1, c2}
    Names = {a, b}
    Free = Free
    NoName = NoName
    BasePort = 1
    MaxPort = 2
    MaxLaunch = 2
    MaxOps = 3
    Faults = {"crash", "interrupt", "supkill", "unkillable", "helper", "foreign"}
    MaxFaults = 1
SYMMETRY Symmetry
INVARIANTS
    TypeOK
    UniqueLivePorts
    RecordMarked
    FencedActor
