SPECIFICATION FairSpec
CONSTANTS
    Timeout = 8
    Period = 2
    MaxInbox = 2
    MaxFaults = 1
CHECK_DEADLOCK FALSE
INVARIANT Matched
PROPERTIES KeptAlive EventuallyFree
