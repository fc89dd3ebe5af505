\* The days, the clock and the commits end at their bounds.
SPECIFICATION Spec
CONSTANTS
    Titles = {"plan", " plan"}
    Keys = {"plan", "other"}
    Trim <- MCTrim
    Admins = {a1}
    MaxFaults = 1
    NoTerm = NoTerm
    Runs = {b1, b2}
    RetentionDays = 2
    MaxDay = 3
    MaxVersion = 1
    Roles = {server, migrate}
    Names = {n1, n2, n3}
    MaxCommits = 2
    Addresses = {i1, i2}
    Attempts = {t1, t2}
    Limit = 2
    Window = 2
    GcSize = 2
    MaxTime = 6
    MaxRows = 5
    Works <- MCWorks
    Todays = {3, 6}
CHECK_DEADLOCK FALSE
INVARIANTS ConfirmedIsGood WaitIsKept FiguresAgree
PROPERTIES SyncSparesUsed TermsFollowTitles LastBackupStays CopiesReadAlike
