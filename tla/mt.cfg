SPECIFICATION Spec
CONSTANTS
    IndexMod = 256
    CurrentMax = 200
    HashReadSize = 2
    CycleSize = 2
    BLOCK_SIZE_MAX = 2
    ZSTDMT_JOBSIZE_MIN = 3
    ZSTDMT_JOBSIZE_MAX = 12
    MinJobLog = 3
    ZSTDMT_JOBLOG_MAX = 5
    Checksum = TRUE
    Configs <- MCConfigs
    Pledges <- MCPledges
    MaxInput = 11
    Inputs = {0, 1, 4, 7}
    MaxItems = 9
INVARIANTS
    WellFormedFrame
    PrefixIsHistory
    JobsAreArithmetic
    ReachWithinWindow
PROPERTIES
    ImplementsContract
CHECK_DEADLOCK FALSE
