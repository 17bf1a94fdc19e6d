\* Four addresses, the last of them without bytes; bytes of four values and
\* integers of one and two bytes, so that the widest type has 16 values; a frame
\* of six bytes with two variables, room for one, return address and argument.
CONSTANTS
    Top = 3
    Mapped = {0, 1, 2}
    a = a
    b = b
    c = c
    illegal = illegal
    c1 = c1
    c2 = c2
    Name = {a, b, c, illegal}
    BadName = {illegal}
    NoName = NoName
    Comment = {c1, c2}
    NoComment = NoComment
    Base = 4
    MaxWidth = 2
    FuncEntry = {0, 1}
    FrameTop = 5
    Special = {4}
    ArgFrom = 5
    int = int
    wide = wide
    proto = proto
    Type = {int, wide, proto}
    FuncType = {proto}
    NoType = NoType
    TypeSize <- TypeSizes
    InsnLen <- InsnLens
    Start <- Starts
    Unparsable = Unparsable
    IllTyped = IllTyped
    NotObject = NotObject
    Batch <- Batches
SPECIFICATION Spec
INVARIANT
    ValidDeclarationsSucceed
CHECK_DEADLOCK FALSE
