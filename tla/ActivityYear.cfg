SPECIFICATION ActivitySpec
CONSTANTS
    MemberArg = {m1}
    ActionArg = {a1}
    ProjectArg = {r1}
    AuthorityArg = {g1}
    Password = {p1}
    Timestamp = {0, 1, 1001}
    FreezeAfter = 1000
    Absent = Absent
PROPERTY InactiveYearFreezes
