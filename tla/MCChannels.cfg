CONSTANTS
    RESET_SILENCE = 3
    REOPEN_DELAY = 2
    READ_RETRY = 1
    MaxTx = 2
    MayPause = TRUE
    Room = 1
    MaxRx = 4
    None = None
    MAX_TCP_CONNS = 2
    CONN_HIGH_WATER = 0
    MaxConns = 3
    MaxItems = 1
    MaxOpens = 1
SPECIFICATION ChannelsSpec
INVARIANT NeverStuck
INVARIANT InterestMatches
INVARIANT ToldTheState
INVARIANT NoStaleCommands
INVARIANT PtyStream
INVARIANT RoundBeforeReuse
INVARIANT NoOrphanAtExporter
PROPERTY ResetMeansUnheard
PROPERTY PtyServes
PROPERTY EndsTogether
