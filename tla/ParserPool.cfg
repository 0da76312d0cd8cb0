SPECIFICATION FairSpec
CONSTANTS
    Fds = {f1, f2}
    Parsers = {p1, p2}
    Junk <- MCJunk
    MaxItems = 2
    MaxGen = 2
    NoFd = NoFd
    NoOne = NoOne
INVARIANTS OneParserPerFd InOrder NothingLost NoStrandedData
PROPERTIES EventuallyParsed StopReturns
CHECK_DEADLOCK FALSE
