\* Sids, Names and Passwords share their values (they never meet in a state
\* that tells them apart), which keeps the permutations few.
SPECIFICATION MCSpec
CONSTANTS
    Parts = {"together", "alone", "groups"}
    Users = {a1, a2, u1}
    Admins = {a1, a2}
    InitialAdmin = a1
    Sids = {s1, s2}
    Passwords = {w1, w2}
    Requests = {r1, r2}
    MayCrash = TRUE
    CliInUse = TRUE
    NULL = NULL
    Groups = {g1, g2, g3}
    GroupUsers = {m1}
    Names = {s1, s2}
    GroupRequests = {r1, r2}
    MaxDepth = 2
    None = None
SYMMETRY AllSymmetry
INVARIANTS SomebodyIsInCharge ThrownOutIsOut
PROPERTIES EndedForGood GroupsStayInOrder OneGroupStays
