CONSTANTS
    Threads = {t1, t2}
    Main = t1
    Addr = {a1, a2}
    Sizes = {1, 2}
    MaxFrame = 1
    MaxAllocs = 3
    MaxGcs = 1
    MaxCmds = 0
SPECIFICATION Spec
SYMMETRY AddrSymmetry
INVARIANTS Conservation BytesConserved AllocFramesInOrder
