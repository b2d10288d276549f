SPECIFICATION Spec
CONSTANTS
    q1 = q1
    q2 = q2
    Cron = Cron
    Absent = Absent
    Users = {u1}
    Quizzes = {q1, q2}
    Attempts = {a1, a2}
    Requests = {r1, r2}
    Pages = {"navigate", "end"}
    TimeLimit <- SecondLasts
    NumQuestions <- SecondLarger
    FormIndexes = {1}
    Grace = 1
    LastStart = 0
    MaxTime = 1
    MaxCronFaults = 0
SYMMETRY Symmetry
INVARIANTS
    SessionNamesOwnAttempt
    AnswersOfAttemptsQuiz
    SessionOutlivesAttempt
