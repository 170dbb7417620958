\* The client's constants; attempts take up to two seconds. The recording ends.
CONSTANTS
    Base <- MCBase
    MaxDelay <- MCMaxDelay
    GiveUp <- MCGiveUp
    ProbeMax = 2
SPECIFICATION FairSpec
INVARIANTS LoopIsOnTime LoopIsExclusive
PROPERTIES OutageEnds
CHECK_DEADLOCK FALSE
