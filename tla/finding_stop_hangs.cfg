\* The toggle is pressed while a tool call waits for the main thread.
CONSTANTS
    Tool = {t1}
    Local = {}
    Stream = {}
    None = None
    PoolSize = 1
    Faults = {}
SPECIFICATION FairSpec
PROPERTIES
    StopReturns
CHECK_DEADLOCK FALSE
