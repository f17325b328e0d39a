SPECIFICATION FairSpec
CONSTANTS
    probe = probe
    Operations <- Probe
    Attempts <- Twice
    Bridges = {bridge}
    Commands = 2
CHECK_DEADLOCK FALSE
INVARIANTS
    TypeOK
    OwnAnswer
    AtMostOnce
PROPERTIES
    TimersDrain
    CallsEnd
