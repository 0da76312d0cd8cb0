SPECIFICATION DeliveryFairSpec
CONSTANTS
    s1 = s1
    s2 = s2
    u1 = u1
    u2 = u2
    m1 = m1
    m2 = m2
    Fds = {f1}
    Servers <- MCServers
    Users <- MCUsers
    Msgs <- MCMsgs
    To <- MCToEach
    WrongRow <- MCRowOwn
    BadInserts <- MCBad
    MaxUnread = 1
    Habits <- MCQuiet
    MaxLogins = 2
    MaxDrops = 1
    NoFd = NoFd
    Nobody = Nobody
INVARIANTS NothingLost AtMostOnce OnlyAddressee
PROPERTY EventuallyReceived
CHECK_DEADLOCK FALSE
