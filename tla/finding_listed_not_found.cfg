CONSTANTS
    LowerOf <- Lowers
    HexValue <- HexValues
    Base = 4
    Word = 2
    MaxDepth = 2
    StrLen = 2
    Items = 2
    Database <- Databases
    Filter <- Filters
    PageCount = {0, 1}
    Query <- Queried
    AllCap = 1
    Number <- Numbers
    ByteCount <- ByteCounts
    Result <- Results
    Value <- Values
    MaxChars = 2
SPECIFICATION Spec
INVARIANT
    ListedIsAlwaysFound
CHECK_DEADLOCK FALSE
