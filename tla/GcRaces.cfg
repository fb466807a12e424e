CONSTANTS
    Addr = {a1, a2}
    Areas = {r1}
    MaxFrame = 1
    MaxWrites = 1
SYMMETRY GcSymmetry
SPECIFICATION Spec
INVARIANTS ParentsExact SearchComplete ReferencesCurrent
PROPERTIES SweepKeepsReachable QuietSweepExact
