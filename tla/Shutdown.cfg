SPECIFICATION FairServerSpec
CONSTANTS
    Clients = 1
    MaxStmts = 2
    MaxCmds = 2
    MaxOutages = 1
INVARIANTS InOrder ThreadsSafe CommandsInOrder WorkersSafe
PROPERTIES LinkRestored ProcessEnds
CHECK_DEADLOCK FALSE
