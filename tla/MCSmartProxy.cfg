CONSTANTS
    NumUarts = 1
    Sockets = {0}
    DictLen = 3
    DICT_FRAG_MAX = 2
    Count = 2
    MaxFirmware = 2
    MaxConns = 2
    MaxMcu = 1
    MaxCmds = 1
    MaxTurns = 1
    MaxJunk = 1
    None = None
SPECIFICATION FairSpec
INVARIANT DictionaryWhole
INVARIANT FetchedWhole
PROPERTY DictArrives
PROPERTY KlipperServed
CHECK_DEADLOCK FALSE
