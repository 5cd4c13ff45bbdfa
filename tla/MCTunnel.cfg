CONSTANTS
    LINK_TXBUF_SIZE = 6
    Byte <- MCByte
    Frames <- MCFrames
    MAX_TCP_CONNS = 1
    CONN_HIGH_WATER = 0
    MaxConns = 2
    MaxItems = 3
    MaxOpens = 2
    None = None
SPECIFICATION TunnelSpec
INVARIANT TypeOK
INVARIANT StreamExact
INVARIANT CleanCloseComplete
INVARIANT NoOrphanAtHost
PROPERTY RingIsFifo
