SPECIFICATION Spec
CONSTANTS
    q1 = q1
    q2 = q2
    Cron = Cron
    Absent = Absent
    Users = {u1}
    Quizzes = {q1}
    Attempts = {a1}
    Requests = {r1, r2}
    Pages = {"open", "navigate", "finish", "end"}
    TimeLimit <- TwoSeconds
    NumQuestions <- OneQuestion
    FormIndexes = {0}
    Grace = 1
    LastStart = 0
    MaxTime = 2
    MaxCronFaults = 0
PROPERTIES
    CompletedIsNotResumed
