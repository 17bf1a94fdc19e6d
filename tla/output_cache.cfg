\* Three workers, a cache of two, four large results.
CONSTANTS
    Worker = {w1, w2, w3}
    CacheMax = 2
    MaxCalls = 4
    UrlFromEnv = FALSE
SPECIFICATION Spec
SYMMETRY Symm
INVARIANTS
    TypeOK
    DownloadIsOwn
    LinksWorkUntilFull
\* The bound on calls ends every behaviour.
CHECK_DEADLOCK FALSE
