\* Streaming ASR and DELETE; no symmetry, as liveness is checked, and no failing I/O.
CONSTANTS
    Conns = {c1, c2, c3}
    MaxChunks = 2
    Faults = {"delete"}
    StreamingASR = TRUE
    NoRec = NoRec
    Nobody = Nobody
SPECIFICATION FairSpec
INVARIANTS TypeOK TimerNeverOnActive
PROPERTIES EveryRecordingEnds StopIsAnswered ImplementsLifecycle
CHECK_DEADLOCK FALSE
