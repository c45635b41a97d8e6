SPECIFICATION Spec
CONSTANTS
    IndexMod = 1024
    CurrentMax = 1000
    HashReadSize = 4
    CycleSize = 16
    Byte = {0, 1}
    W = 3
    LongW = 4
    WindowSize = 24
    SearchStrength = 2
    CacheSize = 2
    SearchAttempts = 4
    RowEntries = 4
    SkippingStep = 1
    UpdateGap = 6
    UpdateKeep = 3
    RowStart = 2
    RowEnd = 1
    Overlap = 8
    LdmMinMatch = 4
    LdmBucketSize = 2
    LdmBatch = 2
    LdmChunk = 14
    OptNum = 10
    ShortWindow = 12
    PredefThreshold = 8
    HalfBit = 1
    MaxPrice = 1000000
    MaxBlocks = 3
    Blocks <- MCBlocks
    Contents <- MCContents
    InitialReps <- MCReps
    Configs <- MCConfigs
INVARIANTS
    ParseReproduces
    OffsetsWithinWindow
    OffsetHistoriesAgree
    TablesDenoteHistory
    TreesAreOrdered
CHECK_DEADLOCK FALSE
