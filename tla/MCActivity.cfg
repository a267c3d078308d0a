SPECIFICATION MCSpec
CONSTANTS
    MemberArg = {m1, m2}
    ActionArg = {a1, a2}
    ProjectArg = {r1, r2}
    AuthorityArg = {g1, g2}
    p1 = p1
    Password = {p1, p2}
    Timestamp = {0, 1, 1001}
    FreezeAfter = 1000
    Absent = Absent
    Process = {one, two}
    Database = {student, other, third}
    student = student
    Unopened = Unopened
SYMMETRY Symmetry
INVARIANTS
    SilenceFreezes
    TrollsAreRight
    ReportsAddUp
    OneRegistry
PROPERTIES
    FrozenForever
