CONSTANTS
    Files = {f1}
    Temps = {t1, t2}
    Anon = anon
    NoFile = none
    Absent = absent
    Names = {n1}
    Migrations <- MCMigrations
    Parts = {1, 2}
    MaxBatches = 1
    MaxOps = 3
    MaxFaults = 0
SPECIFICATION Spec
CHECK_DEADLOCK FALSE
INVARIANT SavedTracesKept
