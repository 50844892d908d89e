SPECIFICATION FairSpec
CONSTANTS
    t1 = t1
    t2 = t2
    p1 = p1
    p2 = p2
    i1 = i1
    i2 = i2
    Projects = {p1, p2}
    Tasks = {t1}
    Gens = {1}
    Clients = {1, 2}
    Instants = {i1}
    Definitions <- OnceOnly
    Carried <- NoStatus
    InitialStores <- EmptyFile
    Ops = {"post", "run", "delete"}
    Faults = {}
PROPERTIES
    OnceFiresOnce
    OnceSettles
CHECK_DEADLOCK FALSE
