SPECIFICATION Spec
CONSTANTS
    Contexts <- MCContexts
    Bodies <- MCBodies
    Places <- MCPlaces
    OfValues = {1, 2, 3, 4, 6}
    LitLens = {0, 2}
    MatchLens = {3, 5}
    MaxSequences = 2
INVARIANTS
    TwoPassIsInterleaved
    NothingUnderflows
PROPERTIES
    CopyIsByteByByte
CHECK_DEADLOCK FALSE
