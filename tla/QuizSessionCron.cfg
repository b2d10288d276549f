SPECIFICATION FairSpec
CONSTANTS
    q1 = q1
    q2 = q2
    Cron = Cron
    Absent = Absent
    Users = {u1, u2}
    Quizzes = {q1}
    Attempts = {a1, a2}
    Requests = {r1}
    Pages = {"open", "end"}
    TimeLimit <- OneSecond
    NumQuestions <- OneQuestion
    FormIndexes = {0}
    Grace = 1
    LastStart = 0
    MaxTime = 2
    MaxCronFaults = 1
PROPERTIES
    EveryAttemptCompletes
