CONSTANTS
    Worker = {w1, w2}
    Session = {}
    RequestId = {i1}
    Absent = Absent
SPECIFICATION Spec
INVARIANT CancelledIsAnswered
