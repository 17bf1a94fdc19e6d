\* A function of more instructions than export_funcs lists.
CONSTANTS
    Tool = {"export"}
    Match = {m1, m2, m3}
    Other = Other
    MaxHits = 4
    Offset <- Offsets
    Count <- Counts
    LimitCap = 2
    MaxInt = 7
SPECIFICATION Spec
PROPERTY ImplementsReading
