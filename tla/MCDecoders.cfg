CONSTANTS
    Plain = {0, 1, 2}
    M1 = 3
    M2 = 4
    MAX_PAYLOAD = 1
    Guard = 1
    MESSAGE_LENGTH_MIN = 2
    MESSAGE_LENGTH_MAX = 3
    MESSAGE_VALUE_SYNC = 4
    PayloadMax = 4
    MaxStream = 8
    MaxRead = 7
SPECIFICATION Spec
INVARIANT TypeOK
INVARIANT FramesOfStream
INVARIANT KlipperFrames
INVARIANT PayloadInverse
CHECK_DEADLOCK FALSE
