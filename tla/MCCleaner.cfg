CONSTANTS
    ETYPE_MAX = 2
    Clock <- MCClock
    EndOfTime = 9
    MaxWait = 1
SPECIFICATION FairSpec
CHECK_DEADLOCK FALSE
INVARIANTS
    RequestCovered
    WakesInTime
PROPERTIES
    DueIsRun
    StopReturns
