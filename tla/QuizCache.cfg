SPECIFICATION Spec
CONSTANTS
    Absent = Absent
    Requests = {r1}
    Admins = {w1}
    Pages = {"take", "added", "listed"}
    Edits = {"update", "archive", "restore", "question"}
    Limits = {0, 1}
    TTL = 1
    Grace = 1
    FillDelay = 1
    MaxEdits = 2
    MaxFills = 1
    MaxTime = 3
INVARIANTS
    PagesFresh
    InvalidationTakesEffect
