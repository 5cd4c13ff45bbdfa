CONSTANTS
    LINK_HIGH_WATER = 10
    LINK_LOW_WATER = 5
    Serial = {"mcu0"}
    Tcp = {"conn0"}
    READ = 2
    MAX_FRAME = 4
    Guard = 1
    MaxReads = 2
    MaxControl = 1
    Kernel = 4
SPECIFICATION Spec
INVARIANT NoFrameDropped
