\* The victim is begin() of an unordered_map.
CONSTANTS
    Worker = {w1, w2}
    CacheMax = 2
    MaxCalls = 4
    UrlFromEnv = FALSE
SPECIFICATION Spec
PROPERTY EvictsOldest
CHECK_DEADLOCK FALSE
