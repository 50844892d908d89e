SPECIFICATION Spec
CONSTANTS
    p1 = p1
    p2 = p2
    NoId = NoId
    Projects = {p1, p2}
    Ids = {1, 2}
    MaxRuns = 2
    MaxMishaps = 2
    Edits = {"delete", "project", "type"}
    Bodies <- PlainAndCopy
    Faults = {"crash", "io", "lostReply", "cleanupFails", "evict"}
INVARIANTS
    OneLiveRun
    AccountsAgree
    LastRunStaysOpen
    TimeoutStopsWork
PROPERTIES
    ImplementsRunStatus
CHECK_DEADLOCK FALSE
