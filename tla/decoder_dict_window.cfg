SPECIFICATION Spec
CONSTANTS
    WindowMax = 8
    Limit = 100
    BLOCK_SIZE_MAX = 4
    BlockSizeField = 5
    Dictionary <- MCDictionary
    Sources <- FarDictSources
    ReadSizes = {2}
    PullSizes = {2, 9}
    ErrorPoints = {}
    MaxErrors = 0
PROPERTIES
    ErrorsAreDeserved
CHECK_DEADLOCK FALSE
