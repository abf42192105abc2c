CONSTANTS
    Threads = {t1, t2}
    Works = {c1, c2, c3}
    NoWork = NoWork
    MaxCount = 3
    MaxSpare = 1
SPECIFICATION ConFairSpec
CHECK_DEADLOCK FALSE
INVARIANTS
    CountsExact
    QueueServed
    NoLostWakeup
    OneOwner
PROPERTIES
    ImplementsExecutor
    AcceptedIsServed
    ServerStops
