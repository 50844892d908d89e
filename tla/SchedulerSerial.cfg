SPECIFICATION FairSpec
CONSTANTS
    t1 = t1
    t2 = t2
    p1 = p1
    p2 = p2
    i1 = i1
    i2 = i2
    Projects = {p1, p2}
    Tasks = {t1}
    Gens = {1}
    Clients = {1}
    Instants = {i1}
    Definitions <- RecurringOnly
    Carried <- OldStatus
    InitialStores <- AfterCrash
    Ops = {"post", "put", "delete", "run"}
    Faults = {"crash"}
INVARIANTS
    NothingLost
PROPERTIES
    ImplementsRunStatus
    RunsEnd
    KeepsFiring
    DeletedGoesQuiet
CHECK_DEADLOCK FALSE
