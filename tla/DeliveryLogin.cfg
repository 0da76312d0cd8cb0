SPECIFICATION DeliverySpec
CONSTANTS
    s1 = s1
    s2 = s2
    u1 = u1
    u2 = u2
    m1 = m1
    m2 = m2
    Fds = {f1}
    Servers <- MCServers
    Users <- MCOneUser
    Msgs <- MCMsgs
    To <- MCToFirst
    WrongRow <- MCRowOwn
    BadInserts <- MCNoBad
    MaxUnread = 2
    Habits <- MCLeave
    MaxLogins = 2
    MaxDrops = 0
    NoFd = NoFd
    Nobody = Nobody
INVARIANT NothingLost
CHECK_DEADLOCK FALSE
