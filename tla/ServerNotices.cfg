\* The server may stop for good, and time ends: CHECK_DEADLOCK FALSE.
SPECIFICATION MCSpec
CONSTANTS
    NoticeIds = {n1, n2, n3}
    Admins = {a1, a2}
    MaxStarts = 2
    NULL = NULL
    Lifetime = 3
    SessionWarning = 2
    NoticeWarning = 2
    IdlePoll = 2
    ActivePoll = 1
    UnitsPerMark = 2
    MaxUnits = 4
    MaxOutages = 1
    MaxVisits = 2
SYMMETRY AllSymmetry
CHECK_DEADLOCK FALSE
INVARIANTS AtMostOneOpen NoNoticeOutlivesServer RestartReasonUnlessDeleted ScreenIsHonest
PROPERTY ComesBack
