CONSTANTS
    Types = {t1, t2}
    Sizes = {1}
    FlushLimit = 1
    MaxFrame = 1
    MaxMessages = 3
    MaxRequests = 2
    MaxSessions = 2
SPECIFICATION FairSpec
CHECK_DEADLOCK FALSE
INVARIANTS Recorded TypesResolve CommandsAccounted StatsExact SizesExact
PROPERTIES StopReturns ImplementsEventLog
