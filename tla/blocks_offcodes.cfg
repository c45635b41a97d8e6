SPECIFICATION Spec
CONSTANTS
    LongMod = 6
    MIN_MATCH = 1
    MAX_OFF = 5
    DEFAULT_MAX_OFF = 4
    static_fse_nb_seq_max = 3
    prefer_repeat_max = 1
    LiteralSymbols = {"x", "y"}
    Dictionaries <- NarrowDict
    Parses <- MCParses
    Alphabets <- MCAlphabets
    BLOCK_SIZE_MAX = 12
    MaxInput = 18
    MIN_CBLOCK = 2
    Strategies <- LowStrategies
    MIN_SEQUENCES_BLOCK_SPLITTING = 3
    ZSTD_MAX_NB_BLOCK_SPLITS = 3
    MaxJobs = 1
    OffBases = {1, 16}
    OffPairs <- MCOffPairs
INVARIANTS
    DecoderReadsWhatWasMeant
CHECK_DEADLOCK FALSE
