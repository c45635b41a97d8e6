SPECIFICATION Spec
CONSTANTS
    IndexMod = 64
    CurrentMax = 45
    HashReadSize = 2
    CycleSize = 4
    WindowSizes = {4, 16}
    LevelWindow = 16
    BLOCK_SIZE_MAX = 4
    SplitSizes = {}
    SkipBelow = 1
    InsertLag = 0
    UpdateGap = 6
    UpdateKeep = 3
    is_ultra2 = FALSE
    PredefThreshold = 0
    ContentLen = 0
    AttachCutoff = 0
    Pledges <- NoPledge
    MaxInput = 64
    Inputs = {4, 8}
    MaxItems = 20
INVARIANTS
    ExtDictAddressable
CHECK_DEADLOCK FALSE
