\* Slow clients, two changes of the settings. Audio ends, so the system stops.
CONSTANTS
    MaxChunks = 5
    ChunkLen = 3
    Ratio = 2
    Stride = 2
    Overlap = 3
    BufferMax = 3
    MaxPosts = 2
    SlowSend = TRUE
    NoSession = NoSession
SPECIFICATION FairSpec
INVARIANTS TextIsTheRecording CancelIsFinal
PROPERTIES BufferIsDrained
CHECK_DEADLOCK FALSE
