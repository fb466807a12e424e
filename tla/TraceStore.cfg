CONSTANTS
    Files = {f1, f2}
    Temps = {t1, t2}
    Anon = anon
    NoFile = none
    Absent = absent
    Names = {n1, n2}
    Migrations <- MCMigrations
    Parts = {1, 2}
    MaxBatches = 2
    MaxOps = 3
    MaxFaults = 1
SYMMETRY StoreSymmetry
SPECIFICATION Spec
CHECK_DEADLOCK FALSE
INVARIANTS SchemaWhole BatchesWhole KeptUnlessStarted NamesMatch
PROPERTIES UnsavedOffered
