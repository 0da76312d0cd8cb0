SPECIFICATION FairSpec
CONSTANTS
    c1 = c1
    c2 = c2
    Clients <- MCClients
    Fds <- MCFds
    MaxEnds = 1
    MaxOther = 1
    Free = Free
    Other = Other
INVARIANTS BuffersAreConnections HarmNeedsOvertaking
PROPERTIES EventuallyAccepted EventuallyClosed
CHECK_DEADLOCK FALSE
