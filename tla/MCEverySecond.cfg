SPECIFICATION Spec
CONSTANTS
    DBs = {0}
    NULL = NULL
    Settings <- Quiet
PROPERTY
    AckedGetsDurable
CHECK_DEADLOCK FALSE
