SPECIFICATION MCSpec
CONSTANTS
    Parts = {"programs"}
    Processes = {p1, p2}
    Pids = {i1, i2, i3}
    MaxAcquiring = 1
    StalePidsReturn = FALSE
    WritesMayFail = FALSE
    LastMigration = 2
    Versions = {1, 2}
    Statements = 2
    NULL = NULL
SYMMETRY AllSymmetry
PROPERTY NoReapply
