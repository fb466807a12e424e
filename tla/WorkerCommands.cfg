CONSTANTS
    Threads = {t1, t2}
    Main = t1
    Addr = {a1}
    Sizes = {1}
    MaxFrame = 1
    MaxAllocs = 1
    MaxGcs = 1
    MaxCmds = 2
SPECIFICATION FairSpec
PROPERTIES PauseBlocksAllocations UnpausedReadUndisturbed GcReturns CommandsAnswered QueueDrained AllocationReturns
