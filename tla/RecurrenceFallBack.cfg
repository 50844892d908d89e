SPECIFICATION Spec
CONSTANTS
    Hour = 2
    Day = 4
    Week = 3
    Longest = 6
    Cases <- FallBack
    Threshold = 2
    Sleeps = {1, 4}
    Horizon = 30
PROPERTIES
    ArmedForTheFuture
CHECK_DEADLOCK FALSE
