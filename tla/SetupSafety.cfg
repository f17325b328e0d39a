SPECIFICATION Spec
CONSTANTS
    Callers = {c1, c2, c3}
    Requests = {r1, r2}
    NoRequest = NoRequest
    Keeper = Keeper
    Nobody = Nobody
    Faults <- AllFaults
CHECK_DEADLOCK FALSE
SYMMETRY Symmetry
INVARIANTS
    TypeOK
    NeverRanIsTrue
    TreeGoneIsTrue
    SuccessIsTrue
    OneStory
    TerminalReadable
PROPERTIES
    StopHolds
    ImplementsAttempt
