CONSTANTS
    q1 = q1
    q2 = q2
    Questions <- MCQuestions
    Answers = {x, y}
    Requests = {r1}
    MaxOrder = 1
    MaxEdits = 1
    MaxFills = 1
    Absent = Absent
SYMMETRY Symmetry
SPECIFICATION Spec
INVARIANTS
    ResultAgrees
    NoDeadEnd
PROPERTIES
    RecordedUnderShown
CHECK_DEADLOCK FALSE
