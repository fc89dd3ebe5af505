\* The bounds end what can happen: CHECK_DEADLOCK FALSE.
SPECIFICATION MCSpec
CONSTANTS
    Users = {u1, u2}
    Admins = {u1, u2}
    Projects = {p1, p2}
    Requests = {r1, r2}
    MaxStamp = 2
    NULL = NULL
    People = {u1, u2}
    Sources <- MCSources
    StartDates = {3}
    EndDates = {5, 9}
    MaxChanges = 1
    NotYet = NotYet
    NodeIds = {1, 2}
    Queries <- MCQueries
    Recent = 1
    Diffs = {{"down", "period"}, {"title"}}
    Limit = 1
    ReadLimit = 2
    MaxWritten = 3
    MaxOpenings = 2
    Nobody = Nobody
    Parts = {"history"}
SYMMETRY AllSymmetry
CHECK_DEADLOCK FALSE
INVARIANT OwnWorkShows
