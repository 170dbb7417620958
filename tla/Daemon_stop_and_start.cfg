\* Three starts and two stops, each given once, so the system stops.
CONSTANTS
    Daemons = {d1, d2, d3}
    Stops = {s1, s2}
    Garbage = Garbage
    None = None
SPECIFICATION Spec
INVARIANTS ServerIsStoppable
PROPERTIES StopTellsTheTruth
CHECK_DEADLOCK FALSE
