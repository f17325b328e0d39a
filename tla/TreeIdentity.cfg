SPECIFICATION Spec
CONSTANTS
    Pids = {p1, p2, p3}
    NoPid = NoPid
    MaxTick = 2
    MaxBoot = 1
    Faults = {"anchor", "helper", "reboot"}
SYMMETRY Symmetry
CHECK_DEADLOCK FALSE
INVARIANTS
    TypeOK
    StrangersUntouched
    BlenderIsGone
PROPERTIES
    PresentIsOwn
