CONSTANTS
    Worker = {w1, w2}
    Session = {s1}
    RequestId = {i1, i2}
    Absent = Absent
SPECIFICATION Spec
SYMMETRY Symm
INVARIANTS
    RepliesConform
    VersionIsOfOwnRequest
