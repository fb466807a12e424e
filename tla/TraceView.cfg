CONSTANTS
    Base = 4
    Addrs = {17}
    Lengths <- MCLengths
    Stack = 1
    Frames = {1, 4}
    Widths = {1, 5}
    Points = {1, 3}
    FlushLimit = 1
    U64 = 64
    OldMax = 2
    MaxFrame = 4
    MaxEvents = 3
    MaxAsks = 2
SPECIFICATION Spec
CHECK_DEADLOCK FALSE
INVARIANTS TypeOK DecodedAsSent SnapsToClosestGc LiveObjectsExact
PROPERTIES StatsAligned EdgeFollowed
