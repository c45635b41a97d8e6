SPECIFICATION DecodersSpec
CONSTANTS
    WindowMax = 8
    Limit = 5
    BLOCK_SIZE_MAX = 4
    BlockSizeField = 5
    Dictionary <- NoDict
    Sources <- FramingSources
    WindowedSources <- BlockSources
    ReadSizes = {2}
    PullSizes = {1, 4}
    ErrorPoints = {"magic", "skip_size", "skippable", "block_header"}
    MaxErrors = 1
INVARIANTS
    WindowedHistory
    InputBufferBounded
PROPERTIES
    ImplementsContract
    WindowedContract
    ReadsTerminate
CHECK_DEADLOCK FALSE
