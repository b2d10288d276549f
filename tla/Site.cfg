SPECIFICATION Spec

CONSTANTS
    s = s
    z = z
    v = v
    t = t
    o = o
    p = p
    q0 = q0
    q1 = q1
    q2 = q2
    k1 = k1
    k2 = k2
    m1 = m1
    f1 = f1
    i1 = i1
    w1 = w1
    w2 = w2
    b1 = b1
    None = None
    Users = {t, o, p}
    Teachers = {t, o, p}
    Visitors = {t, o, p}
    Habits <- Teaching
    Quizzes = {q1}
    QuestionIds = {k1, k2}
    Images = {i1}
    Materials = {m1, f1}
    Typst = {m1}
    MaxImages = 1
    Windows = {w1, w2}
    Browsers = {b1}
    Browser <- OneBrowser
    Author = t
    Owner0 <- TheirFile
    MaxHops = 5

SYMMETRY WindowSymmetry

PROPERTIES
    OfferedIsAnswered
    ChangesAreTold

CHECK_DEADLOCK FALSE
