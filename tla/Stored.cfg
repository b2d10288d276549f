SPECIFICATION StoredSpec
CONSTANTS
    Absent = Absent
    Blank = Blank
    Requests = {r1, r2}
    Kind <- OneOfEach
    Words = {x}
    Names = {n1, n2, n3, n4}
    MaxImages = 2
    MaxFiles = 3
SYMMETRY Symmetry
INVARIANTS
    TypedAnswersKept
    PageShowsStored
    RowNamesObject
    LimitUpToRequests
CHECK_DEADLOCK FALSE
