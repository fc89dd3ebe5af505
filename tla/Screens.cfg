\* The user may stop at any time, and the bounds end what can happen.
SPECIFICATION Spec
CONSTANTS
    MaxTreeDepth = 3
    NULL = NULL
    Ids = {1, 2, 3, 4, 5}
    StartTrees <- MCStartTrees
    MaxWrites = 1
    MaxOthers = 1
    Forest <- MCForest
    Undated = {3}
    MaxLoops = 2
    MaxFaults = 1
    People = {1, 2, 3}
    SyncProjects = {1, 2}
    Within <- MCWithin
    MaxChanges = 1
    MaxMeddling = 1
    MaxMishaps = 1
    NoGroup = NoGroup
    Fields = {"title", "dates"}
    Values = {0, 1}
    MaxTyping = 3
    MaxTroubles = 2
    TextLines <- MCTextLines
    MaxLines = 4
    Files <- MCFiles
    MaxGroupDepth = 2
    OtherGroups = {"b"}
    OtherUsers = {"u"}
    MaxRequests = 3
    MaxOtherChanges = 1
    NotShown = NotShown
    ChartRows = {1, 2, 3}
    ParentRow <- MCParentRow
    PPD <- MCPPD
    MinPpd = 2
    MaxPpd = 40
    Scales = {4, 10, 30}
    MaxActs = 2
    MaxFetches = 1
    Nowhere = Nowhere
    Days = {1, 2}
    Editors = {1, 2}
    MaxDateWrites = 2
    NoDate = NoDate
    Untouched = Untouched
CHECK_DEADLOCK FALSE
INVARIANTS BulkReportsTruly ReadAsDrawn ChartIsAsAsked DatesStayInOrder
PROPERTIES LandsWhereShown SyncKeepsItsWord EditsKeepFaith ImportIsAsShown
