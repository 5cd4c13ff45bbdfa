CONSTANTS
    Uarts = {0}
    Sockets = {0}
    MaxConns = 2
    MaxMcu = 2
    MaxCmds = 1
    MaxFaults = 1
SPECIFICATION FairSpec
INVARIANT ClientStream
INVARIANT CommandOrder
PROPERTY OldClientQuiet
PROPERTY TasksEnd
CHECK_DEADLOCK FALSE
