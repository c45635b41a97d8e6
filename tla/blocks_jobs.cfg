SPECIFICATION JobsSpec
CONSTANTS
    LongMod = 6
    MIN_MATCH = 1
    MAX_OFF = 4
    DEFAULT_MAX_OFF = 2
    static_fse_nb_seq_max = 3
    prefer_repeat_max = 1
    LiteralSymbols = {"x", "y"}
    Dictionaries <- NoDictOnly
    Parses <- MCParses
    Alphabets <- MCAlphabets
    BLOCK_SIZE_MAX = 12
    MaxInput = 12
    MIN_CBLOCK = 2
    Strategies <- LowStrategies
    MIN_SEQUENCES_BLOCK_SPLITTING = 3
    ZSTD_MAX_NB_BLOCK_SPLITS = 3
    MaxJobs = 2
    OffBases = {1, 2, 3, 5}
    OffPairs <- MCOffPairs
INVARIANTS
    DecoderReadsWhatWasMeant
CHECK_DEADLOCK FALSE
