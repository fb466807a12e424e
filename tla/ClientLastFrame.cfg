CONSTANTS
    Types = {t1, t2}
    Sizes = {1}
    FlushLimit = 1
    MaxFrame = 1
    MaxMessages = 3
    MaxRequests = 1
    MaxSessions = 1
SPECIFICATION Spec
INVARIANT LastEventsSaved
