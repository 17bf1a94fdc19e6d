\* One stream fewer than workers, so that a call can always be served.
CONSTANTS
    Tool = {t1, t2}
    Local = {}
    Stream = {s1}
    None = None
    PoolSize = 2
    Faults = {}
SPECIFICATION FairSpec
PROPERTIES
    StopBlockedOnlyByCalls
    CallServedUnlessStopping
CHECK_DEADLOCK FALSE
