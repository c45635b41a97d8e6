SPECIFICATION Spec
CONSTANTS
    ContainerBits = 64
    Precision = 30
    FSE_MIN_TABLELOG = 5
    FSE_MAX_TABLELOG = 12
    HUF_TABLELOG_MAX = 12
    HUF_TABLELOG_DEFAULT = 11
    WEIGHT_FSE_MAX_LOG = 6
    DirectMark = 128
    Histograms <- MCHistograms
    Counts <- MCCounts
    SequenceLists <- MCSequenceLists
    FewestCounted = 5
    Headers <- MCHeaders
    SequenceCounts <- MCSequenceCounts
    Descriptions <- MCDescriptions
    RepBytes = 1
    DictBlockMax = 16
    MaxLiteral = 3
    Dictionaries <- MCDictionaries
    HeaderByte = 3
    WINDOWLOG_MAX = 28
    DEFAULT_CPARAMETERS <- MCRows
    FrameSetups <- MCFrameSetups
    WindowLimits = {14, 19, 40}
    LiteralSizes = {13}
    MaxSections = 2
INVARIANTS
    HuffmanCodeIsComplete
    TablesComeBack
    StatesInvert
    SectionsComeBack
    DictionaryServesBothSides
    ForeignTablesAreComplete
\* One exchange and no more.
CHECK_DEADLOCK FALSE
