\* Failing I/O and crashes. Without a streaming finalize and DELETE the
\* single-owner discipline holds. Connections are used up, so the system stops.
CONSTANTS
    Conns = {c1, c2, c3, c4}
    MaxChunks = 4
    Faults = {"io", "crash"}
    StreamingASR = FALSE
    NoRec = NoRec
    Nobody = Nobody
SPECIFICATION Spec
SYMMETRY Symmetry
INVARIANTS EveryChunkHasOneFate NoAbandonedSession AudioInOnePlace LoopOwnsSession
PROPERTIES WavOnlyGrows ImplementsLifecycle
CHECK_DEADLOCK FALSE
