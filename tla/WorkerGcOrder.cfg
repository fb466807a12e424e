CONSTANTS
    Threads = {t1, t2}
    Main = t1
    Addr = {a1}
    Sizes = {1}
    MaxFrame = 0
    MaxAllocs = 1
    MaxGcs = 1
    MaxCmds = 0
SPECIFICATION Spec
INVARIANT GcSeesEarlierEvents
