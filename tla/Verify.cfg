SPECIFICATION FairSpec
CONSTANTS
    Post = TRUE
    RequestTime = 1
    PollEvery = 1
    RunDeadline = 3
    JourneyTime = 6
    GhTime = 2
    Lease = 15
    MaxSecond = 3
    Faults = {"refuse", "lose", "interrupt", "takeKilled", "releaseFails"}
INVARIANTS
    TypeOK
    WorldIsOurs
    SuccessIsEarned
    RecordAgrees
    LeftoverIsNamed
    LockReleased
PROPERTIES
    Finishes
