SPECIFICATION MCSpec
CONSTANTS
    Parts = {"together", "alone"}
    NodeIds = {n1, n2, n3}
    Projects = {p1, p2}
    Requests = {r1, r2}
    CsvFiles <- AllFiles
    MaxTreeDepth = 4
    MaxClock = 4
    NULL = NULL
SYMMETRY AllSymmetry
INVARIANTS HistoryTellsLife ParentIsLiveGroup TreeStaysInShape
PROPERTIES ImplementsLedger RequestsDoAsAsked
