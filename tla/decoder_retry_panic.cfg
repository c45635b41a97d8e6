SPECIFICATION Spec
CONSTANTS
    WindowMax = 8
    Limit = 100
    BLOCK_SIZE_MAX = 4
    BlockSizeField = 5
    Dictionary <- NoDict
    Sources <- RetrySources
    ReadSizes = {2}
    PullSizes = {1, 4}
    ErrorPoints = {"checksum"}
    MaxErrors = 1
INVARIANTS
    NeverPanics
CHECK_DEADLOCK FALSE
