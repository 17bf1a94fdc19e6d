\* IDA_MCP_URL is set; run() calls set_download_base_url all the same.
CONSTANTS
    Worker = {w1, w2}
    CacheMax = 2
    MaxCalls = 4
    UrlFromEnv = TRUE
SPECIFICATION Spec
INVARIANT UrlIsFromEnv
CHECK_DEADLOCK FALSE
