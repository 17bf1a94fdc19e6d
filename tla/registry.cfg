\* Three processes: one that leaves a file behind and two others that clean up
\* and start at the same time, or get its pid.  They crash anywhere, any of
\* their file operations fails, and the first port belongs to another program.
CONSTANTS
    Process = {p1, p2, p3}
    Pid = {q1, q2, q3}
    Nothing = Nothing
    MaxRetries = 1
    Taken = {0}
SPECIFICATION RegistrySpec
SYMMETRY Symm
INVARIANTS
    ServingIsAdvertised
    CleanupIsThorough
    IdleIsUnadvertised
\* Every process dies in the end.
CHECK_DEADLOCK FALSE
