CONSTANTS
    MAX_TCP_CONNS = 1
    CONN_HIGH_WATER = 0
    MaxConns = 1
    MaxItems = 1
    MaxOpens = 2
    None = None
SPECIFICATION Spec
INVARIANT NoOrphanAtExporter
CHECK_DEADLOCK FALSE
