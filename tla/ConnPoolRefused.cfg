SPECIFICATION Spec
CONSTANTS
    Clients = {c1, c2, c3}
    MinConns = 2
    MaxConns = 2
    DbRefuses = TRUE
    NoOne = NoOne
INVARIANT NeverCrashes
CHECK_DEADLOCK FALSE
