\* accept() fails for good while the server runs; nobody needs to connect.
CONSTANTS
    Tool = {}
    Local = {l1}
    Stream = {}
    None = None
    PoolSize = 1
    Faults = {"listen_error"}
SPECIFICATION Spec
INVARIANT NoAbort
CHECK_DEADLOCK FALSE
