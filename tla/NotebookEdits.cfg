\* Two sessions, two saves at a time, any mix of five requests.
SPECIFICATION Spec
SYMMETRY Symmetry
CONSTANTS
    Sessions = {s1, s2}
    s1 = s1
    s2 = s2
    Paths = {p1}
    p1 = p1
    Types <- TwoTypes
    Sources = {empty, a}
    a = a
    EmptySource = empty
    ListSources = {empty}
    empty = empty
    FilesFound <- Found
    Names = {x}
    x = x
    New = New
    Closed = Closed
    Hole = Hole
    MaxIds = 2
    MaxCells = 2
    MaxRequests = 5
    MaxRuns = 1
    MaxOutputs = 2
    SaveTasks = {t1, t2}
    t1 = t1
    t2 = t2
CHECK_DEADLOCK FALSE
INVARIANTS
    TypeOK
    SavedWhole
PROPERTIES
    CellsAddressable
    ResultsKept
