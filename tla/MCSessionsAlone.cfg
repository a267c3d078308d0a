SPECIFICATION SessionSpec
CONSTANTS
    m1 = m1
    m2 = m2
    a1 = a1
    a2 = a2
    r1 = r1
    g1 = g1
    p1 = p1
    p2 = p2
    MemberArg = {m1, m2, a1}
    ActionArg = {a1, a2}
    ProjectArg = {r1, m2}
    AuthorityArg = {g1, a1, m2}
    Password = {p1, p2}
    Timestamp = {0, 1, 2}
    FreezeAfter = 1
    Absent = Absent
    Prog = {s1}
    Input <- Alone
    MaxCalls = 4
CHECK_DEADLOCK FALSE
INVARIANTS ConfirmedIsStored
PROPERTIES HandlersAreAtomic
