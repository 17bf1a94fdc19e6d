\* Up to four hits, so that pages of one, two and three leave remainders.
CONSTANTS
    Tool = {"search", "immediate", "disasm", "blocks", "list", "xrefs", "callees"}
    Match = {m1, m2, m3}
    Other = Other
    MaxHits = 4
    Offset <- Offsets
    Count <- Counts
    LimitCap = 2
    MaxInt = 7
SPECIFICATION Spec
INVARIANTS
    TypeOK
    PagesAreFull
    TotalIsWhole
PROPERTIES
    ImplementsReading
    ReadingEnds
