SPECIFICATION SeparateSpec
CONSTANTS
    Absent = Absent
    Blank = Blank
    Requests = {r1, r2}
    MaxEdits = 2
    Words = {a, b}
    MaxOptions = 3
    MaxRows = 3
    Count = 2
    MaxSegments = 2
    Chars = {"a", "A", " ", ".", "|"}
    MaxLength <- LengthByFields
    Users = {u1, u2, u3}
    Scores = {1, 2}
    Limit = 3
    MaxAttempts = 4
    MaxDay = 2
SYMMETRY Symmetry
INVARIANTS
    CorrectIsRight
    RightIsCorrect
    VerdictsAgree
    BoardRanks
    BoardAgreesWithStats
    StreakIsRun
    PreviewOfLastText
    MaterialHasObjects
    DeletionLeavesNothing
PROPERTIES
    OptionsKept
    Answerable
    SavedAsShown
CHECK_DEADLOCK FALSE
