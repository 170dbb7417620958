\* Violation: a busy answer to a reconnect ends the recording.
CONSTANTS
    Conns = {1, 2, 3}
    MaxChunks = 2
    Faults = {"delete"}
    StreamingASR = TRUE
    NoRec = NoRec
    Nobody = 0
    Outages = 1
SPECIFICATION ProtocolSpec
PROPERTY BusyIsRetried
CHECK_DEADLOCK FALSE
