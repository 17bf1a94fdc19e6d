CONSTANTS
    Worker = {w1}
    Session = {s1}
    RequestId = {i1}
    Absent = Absent
SPECIFICATION Spec
INVARIANT AnnouncedEndpointAccepts
