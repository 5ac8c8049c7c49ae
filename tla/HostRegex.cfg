SPECIFICATION RegexSpec
CONSTANTS
    Length = 3
    Limits = {0, 1, 2, 3}
    CacheLimit = 1
    MaxCalls = 2
INVARIANTS
    AsIfFresh
    SplitTiles
PROPERTIES
    CallsReturn
CHECK_DEADLOCK FALSE
