SPECIFICATION FairSpec
CONSTANTS
    Fds = {f1, f2}
    Workers = {w1}
    Timeout = 2
    NoFd = NoFd
INVARIANT TimerArmed
PROPERTIES SilentIsClosed
