SPECIFICATION FairSpec
CONSTANTS
    Timeout = 2
    Buffer = 1
    MaxTexts = 2
    MaxQueue = 3
CHECK_DEADLOCK FALSE
INVARIANTS
    ReplyIsWhole
    ExitIsReal
    FailureIsOwn
PROPERTIES
    Returns
