\* The same interleaving seen by the caller.
CONSTANTS
    Tool = {t1}
    Local = {}
    Stream = {}
    None = None
    PoolSize = 1
    Faults = {}
SPECIFICATION FairSpec
PROPERTIES
    CallReturns
CHECK_DEADLOCK FALSE
