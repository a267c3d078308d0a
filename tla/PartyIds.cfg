SPECIFICATION CallsSpec
CONSTANTS
    MemberArg = {x, m1}
    ActionArg = {x, y}
    ProjectArg = {x, y, r1}
    AuthorityArg = {x, y, g1}
    Password = {p1, p2}
    Timestamp = {0, 2}
    FreezeAfter = 1
    Absent = Absent
VIEW vars
INVARIANTS TypeOK TakenIsExact References
PROPERTIES ImplementsRegistry
