SPECIFICATION FairSpec
CONSTANTS
    Fds = {f1, f2}
    Users = {u1, u2}
    Workers = {w1, w2}
    Courtesies = {"patient", "one_session", "unhurried"}
    Known = {u1}
    MaxConns = 4
    NoFd = NoFd
    Nobody = Nobody
INVARIANTS RoutedToOwner MapsInverse RecordsAgree
PROPERTIES QuitDisconnects
CHECK_DEADLOCK FALSE
