SPECIFICATION Spec
CONSTANTS
    Clients = {c1, c2}
    Names = {a, b}
    Free = Free
    NoName = NoName
    BasePort = 1
    MaxPort = 2
    MaxLaunch = 2
    MaxOps = 4
    Faults = {"helper"}
    MaxFaults = 1
SYMMETRY Symmetry
INVARIANTS
    UniqueLivePorts
    FencedActor
    StopMeansGone
    NoOrphans
    SingleTree
PROPERTIES
    DurableBeforeLaunch
    HealthIsOwn
    CallReachesOwn
    ImplementsRegistry
