SPECIFICATION MCSpec
CONSTANTS
    Parts = {"together"}
    NodeIds = {n1, n2, n3}
    Projects = {p1}
    Requests = {r1, r2}
    CsvFiles <- AllFiles
    MaxTreeDepth = 3
    MaxClock = 5
    NULL = NULL
SYMMETRY AllSymmetry
INVARIANT Acyclic
