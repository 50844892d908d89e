SPECIFICATION FairSpec
CONSTANTS
    a = a
    b = b
    t1 = t1
    d1 = d1
    Running = Running
    Lost = Lost
    Sent = Sent
    NoTask = NoTask
    Nothing = Nothing
    Missing = Missing
    Torn = Torn
    Callers = {a, b}
    Tasks = {t1}
    Defs = {d1}
    MaxRuns = 3
    Cap = 2
    Requests <- SomeRequests
    Faults = {"io", "crash"}
INVARIANTS
    TypeOK
    HistoryIsRecent
    OutcomeHasRecord
PROPERTIES
    ImplementsAtomicStore
    CallsReturn
CHECK_DEADLOCK FALSE
