SPECIFICATION LockSpec
CONSTANTS
    Processes = {p1, p2, p3}
    Pids = {i1, i2, i3, i4}
    MaxAcquiring = 2
    StalePidsReturn = FALSE
    WritesMayFail = TRUE
    NULL = NULL
SYMMETRY AllSymmetry
INVARIANT MutualExclusion
