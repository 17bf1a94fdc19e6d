\* No tool call at all; the server thread is scheduled late.
CONSTANTS
    Tool = {}
    Local = {l1}
    Stream = {}
    None = None
    PoolSize = 1
    Faults = {"slow_listen"}
SPECIFICATION FairSpec
PROPERTIES
    StopReturns
CHECK_DEADLOCK FALSE
