SPECIFICATION Spec
CONSTANTS
    r1 = r1
    r2 = r2
    r3 = r3
    Nodes = {r1, r2, r3}
    DBs = {0, 1}
    BacklogSize = 2
    NULL = NULL
    Scenarios <- Some
INVARIANTS
    SlavesAreInSync
    WaitIsHonest
    SlavesAreTended
CHECK_DEADLOCK FALSE
