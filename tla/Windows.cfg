SPECIFICATION Spec

CONSTANTS
    s = s
    z = z
    v = v
    t = t
    o = o
    p = p
    q0 = q0
    q1 = q1
    q2 = q2
    k1 = k1
    k2 = k2
    m1 = m1
    f1 = f1
    i1 = i1
    w1 = w1
    w2 = w2
    b1 = b1
    None = None
    Users = {s, z, v, t}
    Teachers = {t}
    Visitors = {s, z, v}
    Habits <- Learning
    Quizzes = {q1, q2}
    QuestionIds = {k1, k2}
    Images = {}
    Materials = {}
    Typst = {}
    MaxImages = 1
    Windows = {w1, w2}
    Browsers = {b1}
    Browser <- OneBrowser
    Author = t
    Owner0 <- NoMaterials
    MaxHops = 5

SYMMETRY Symmetry

INVARIANT RedirectionsEnd

PROPERTIES
    RunningAttemptKept

CHECK_DEADLOCK FALSE
