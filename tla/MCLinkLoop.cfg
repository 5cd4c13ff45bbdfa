CONSTANTS
    LINK_HIGH_WATER = 6
    LINK_LOW_WATER = 3
    Serial = {"mcu0", "mcu1"}
    Tcp = {"conn0"}
    READ = 2
    MAX_FRAME = 4
    Guard = 1
    MaxReads = 2
    MaxControl = 1
    Kernel = 4
SPECIFICATION FairSpec
INVARIANT TypeOK
INVARIANT DropsNeedABurst
INVARIANT PausedOnlyByBackpressure
PROPERTY QueueMoves
PROPERTY PauseEnds
