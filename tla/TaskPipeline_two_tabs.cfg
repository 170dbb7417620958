\* Two browser tabs and a command line. The bounds stop it.
CONSTANTS
    Tasks = {t1}
    Clients = {c1, c2}
    MaxRuns = 2
    MaxEdits = 0
    Faults = {"crash", "cli"}
    NoRow = NoRow
    NoRun = NoRun
    NoCall = NoCall
SPECIFICATION FairSpec
INVARIANTS UnsettledHasRun
PROPERTIES DeletedStaysDeleted EveryTaskSettles
CHECK_DEADLOCK FALSE
