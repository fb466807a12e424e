CONSTANTS
    Addr = {a1}
    Areas = {r1, r2}
    MaxFrame = 1
    MaxWrites = 1
SPECIFICATION FairSpec
PROPERTIES PassEnds SearchEnds
