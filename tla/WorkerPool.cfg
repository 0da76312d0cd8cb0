SPECIFICATION PoolFairSpec
CONSTANTS
    Clients = {t1, t2, t3}
    MinThreads = 1
    MaxThreads = 2
    ScaleFactor = 2
    MaxTasks = 4
    MinConns = 0
    MaxConns = 1
    DbRefuses = TRUE
    NoOne = NoOne
INVARIANTS CountersExact Elastic NoOrphans CountExact WithinLimit
PROPERTIES EventuallyTaken StopReturns
CHECK_DEADLOCK FALSE
