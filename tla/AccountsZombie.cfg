SPECIFICATION MCSpec
CONSTANTS
    Parts = {"overlapping"}
    Users = {a1, u1}
    Admins = {a1}
    InitialAdmin = a1
    Sids = {s1, s2}
    Passwords = {w1, w2}
    Requests = {r1, r2}
    MayCrash = FALSE
    CliInUse = FALSE
    NULL = NULL
    Groups = {g1}
    GroupUsers = {m1}
    Names = {s1, s2}
    GroupRequests = {r1, r2}
    MaxDepth = 2
    None = None
SYMMETRY AllSymmetry
INVARIANT InactiveIsOut
