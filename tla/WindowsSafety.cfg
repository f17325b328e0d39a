SPECIFICATION FairSpec
CONSTANTS
    Launches = {l1, l2}
    NoLaunch = NoLaunch
    Faults <- Bounded
CHECK_DEADLOCK FALSE
INVARIANTS
    TypeOK
    BornInJob
    RecordsOwnBlender
    StopMeansGone
    NothingLeft
    OneTree
PROPERTIES
    KeeperFollows
