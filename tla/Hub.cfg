SPECIFICATION FairSpec
CONSTANTS
    c1 = c1
    Conns = {c1}
    MaxRuns = 3
    MaxMishaps = 3
INVARIANTS
    NoRunUnheard
    EndIsHeard
    EventsInOrder
    EventsFollowFile
PROPERTIES
    ClosedLeaves
CHECK_DEADLOCK FALSE
