\* A call is answered between start() and set_download_base_url().
CONSTANTS
    Worker = {w1, w2}
    CacheMax = 2
    MaxCalls = 4
    UrlFromEnv = FALSE
SPECIFICATION Spec
INVARIANT LinkHasActualPort
CHECK_DEADLOCK FALSE
