\* One browser tab: what the pages do, with crashes. The bounds stop it.
CONSTANTS
    Tasks = {t1, t2}
    Clients = {c1}
    MaxRuns = 3
    MaxEdits = 1
    Faults = {"crash"}
    NoRow = NoRow
    NoRun = NoRun
    NoCall = NoCall
SPECIFICATION Spec
INVARIANTS OneRunPerTask DoneHasNoError EditsSurvive
PROPERTIES NoWorkForDeleted
CHECK_DEADLOCK FALSE
