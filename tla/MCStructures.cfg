SPECIFICATION Spec
CONSTANTS
    Parts = {"dict", "skiplist", "intset", "ziplist", "quicklist", "hll"}
    Hashes = {0, 1, 2, 4}
    InitialSize = 2
    MinFill = 20
    ForceRatio = 1
    EmptyVisits = 2
    Width = 3
    ZMembers = {1, 2, 3}
    ZScores = {1, 2}
    ZMaxLevel = 3
    IntValues <- SomeIntegers
    Limit16 = 2
    Limit32 = 4
    ZlValues <- SomeValues
    BigLen = 12
    LenMax = 3
    ImmMax = 1
    IntBits <- SomeBits
    MaxEntries = 5
    QlValues <- ListValues
    QlOptions <- Lists
    SizeLimit = 45
    SafetyLimit = 60
    MinCompress = 14
    MaxList = 5
    Registers = 5
    XZeroMax = 3
    ZeroMax = 2
    ValMax = 2
    ValMaxValue = 2
    MaxCount = 3
    SparseBytes = 5
INVARIANTS
    StructuresAreSound
    WalksAreComplete
    SearchesAgree
