SPECIFICATION Spec
CONSTANTS
    Keys <- KeyNames
    Dbs <- Databases
    LMax = 2
    MaxString = 4
    HashEntries = 1
    HashValue = 2
    MaxIntset = 1
    ZsetEntries = 1
    ZsetValue = 2
    Inf = 2
    ItemsPerCmd = 2
    Commands <- Workloads
    Lags = {0, 1}
    MaxNow = 2
    MaxSize = 3
INVARIANTS
    KeysAreSound
    ReplicasConverge
    RebuiltFromDisk
    ChangesAreSignalled
    ReadsAgree
CHECK_DEADLOCK FALSE
