\* The web client against the server: a cut and lost or reordered requests. Sockets run out.
CONSTANTS
    Conns = {1, 2, 3}
    MaxChunks = 2
    Faults = {"delete"}
    StreamingASR = TRUE
    NoRec = NoRec
    Nobody = 0
    Outages = 1
SPECIFICATION ProtocolSpec
INVARIANTS DoneIsWhole TasksAreInOrder IdleIsQuiet UsedSocketOwns
PROPERTIES CancelledLeavesNoTask
CHECK_DEADLOCK FALSE
