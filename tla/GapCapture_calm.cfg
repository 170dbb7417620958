\* Nothing else happens while a finalize waits. The recording ends.
CONSTANTS
    MaxAudio = 4
    MaxOutages = 2
    Hurry = FALSE
SPECIFICATION Spec
INVARIANTS RetainedInOrder RetainsOnlyTheOutages KeptSlicesSurvive
CHECK_DEADLOCK FALSE
