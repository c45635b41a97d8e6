SPECIFICATION EncodersSpec
CONSTANTS
    IndexMod = 256
    CurrentMax = 200
    HashReadSize = 2
    CycleSize = 2
    WindowSizes = {2, 4}
    LevelWindow = 4
    BLOCK_SIZE_MAX = 2
    SplitSizes = {1}
    SkipBelow = 2
    InsertLag = 1
    UpdateGap = 2
    UpdateKeep = 1
    is_ultra2 = TRUE
    PredefThreshold = 0
    ContentLen = 0
    AttachCutoff = 0
    Pledges <- MCPledges
    MaxInput = 14
    Inputs = {0, 1, 2, 3}
    MaxItems = 12
INVARIANTS
    WellFormedFrame
    IInv
    HistoryIntact
    HistoryComplete
    TableDenotesInserted
    NothingLostOrRepeated
    WholeDict
    RecycledTableDenotes
PROPERTIES
    ImplementsContract
    NoFrameAfterError
    FlushDrains
    EveryCallReturns
    RecycledCycleBits
CHECK_DEADLOCK FALSE
