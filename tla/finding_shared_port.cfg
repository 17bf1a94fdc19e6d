\* Two servers and nobody else.
CONSTANTS
    Process = {p1, p2, p3}
    Pid = {q1, q2, q3}
    Nothing = Nothing
    MaxRetries = 1
    Taken = {}
SPECIFICATION RegistrySpec
SYMMETRY Symm
INVARIANT PortsDistinct
\* Every process dies in the end.
CHECK_DEADLOCK FALSE
