SPECIFICATION MCSpec
CONSTANTS
    Parts = {"programs", "lock"}
    Processes = {p1, p2, p3}
    Pids = {i1, i2, i3, i4}
    MaxAcquiring = 1
    StalePidsReturn = TRUE
    WritesMayFail = TRUE
    LastMigration = 2
    Versions = {1, 2}
    Statements = 2
    NULL = NULL
SYMMETRY AllSymmetry
INVARIANTS ServesCompleteSchema LockIsKept
PROPERTIES SchemaStillWhileServing NobodyIsMisled
