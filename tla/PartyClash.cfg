SPECIFICATION Spec
CONSTANTS
    MemberArg = {m1}
    ActionArg = {x}
    ProjectArg = {r1}
    AuthorityArg = {g1, x}
    Password = {p1}
    Timestamp = {0}
    FreezeAfter = 1
    Absent = Absent
PROPERTY ClashIsAnError
