\* One process whose instance file cannot be created.
CONSTANTS
    Process = {p1}
    Pid = {q1}
    Nothing = Nothing
    MaxRetries = 1
    Taken = {}
SPECIFICATION RegistrySpec
INVARIANTS
    ServerIsAdvertised
CHECK_DEADLOCK FALSE
