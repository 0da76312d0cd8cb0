SPECIFICATION RingFairSpec
CONSTANTS
    Radix = 4
    HeaderSize = 2
    MaxMessage = 3
    BufferSize = 8
    ChunkSize = 8
    Messages <- MCMessages
    Filler <- MCFiller
    Threads = {t1, t2}
    SendBuffer = 6
    MaxRetries = 1
    MaxFrames = 3
    MayFill = FALSE
PROPERTIES StreamSpec
CHECK_DEADLOCK FALSE
