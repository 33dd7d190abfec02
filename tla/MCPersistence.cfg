SPECIFICATION Spec
CONSTANTS
    DBs = {0, 1}
    NULL = NULL
    Settings <- Some
INVARIANTS
    FileFollowsData
    AckedIsDurable
PROPERTY
    StartsFromThePast
CHECK_DEADLOCK FALSE
