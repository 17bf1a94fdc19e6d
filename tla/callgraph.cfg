\* Every call structure of four functions and an import.
CONSTANTS
    Func = {f1, f2, f3, f4}
    External = {x}
    MaxCalls <- Bounds
    Root = {f1, x}
    Request <- Requests
    NodesCap = 9
    EdgesCap = 9
    PerFuncCap = 9
    None = None
SPECIFICATION Spec
INVARIANTS
    TypeOK
    UnflaggedIsWhole
    DepthIsDistance
    EdgesMeetNodes
PROPERTY
    WalkEnds
