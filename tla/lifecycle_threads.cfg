\* Two callers, a local client and two streams compete for three workers; IDA
\* may refuse requests, the server thread may be late, accept() may fail.
CONSTANTS
    Tool = {t1, t2}
    Local = {l1}
    Stream = {s1, s2}
    None = None
    PoolSize = 3
    Faults = {"refuse", "slow_listen", "listen_error"}
SPECIFICATION Spec
SYMMETRY Symm
INVARIANTS
    QuietWhenStopped
    EveryStreamIsReachable
    AbortOnlyAfterListenError
    AdvertisedIsServed
    NoDanglingRequest
    NoUseAfterFree
PROPERTY
    ImplementsRpc
\* stop() may wait for ever for a worker that waits for the main thread, and an
\* aborted IDA takes no further step.
CHECK_DEADLOCK FALSE
