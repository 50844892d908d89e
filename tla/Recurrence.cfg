SPECIFICATION Spec
CONSTANTS
    Hour = 2
    Day = 4
    Week = 3
    Longest = 6
    Cases <- Regular
    Threshold = 2
    Sleeps = {1, 4}
    Horizon = 30
INVARIANTS
    TypeOK
PROPERTIES
    ArmedForTheFuture
    ArmedForTheNextSlot
    OncePerDay
CHECK_DEADLOCK FALSE
