\* Two functions, a global, three imports, two entries and three types under eight
\* names; bytes of four values, words of two; previews of two items and two
\* characters, two levels deep.
CONSTANTS
    LowerOf <- Lowers
    HexValue <- HexValues
    Base = 4
    Word = 2
    MaxDepth = 2
    StrLen = 2
    Items = 2
    Database <- Databases
    Filter <- Filters
    PageCount = {0, 1}
    Query <- Queried
    AllCap = 1
    Number <- Numbers
    ByteCount <- ByteCounts
    Result <- Results
    Value <- Values
    MaxChars = 2
SPECIFICATION Spec
INVARIANTS
    FilterIsExact
    ListedIsFound
    BytesAreTheNumber
    PreviewIsTrue
\* A behaviour is a listing and a question.
CHECK_DEADLOCK FALSE
