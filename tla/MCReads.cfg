\* Every module of the read path, in small.
SPECIFICATION Spec
CONSTANTS
    r1 = r1
    r2 = r2
    t1 = t1
    t2 = t2
    t3 = t3
    c1 = c1
    c2 = c2
    c3 = c3
    k1 = k1
    k2 = k2
    k3 = k3
    s1 = s1
    s2 = s2
    q1 = q1
    q2 = q2
    q3 = q3
    First = First
    o1 = o1
    o2 = o2
    p1 = p1
    a1 = a1
    a2 = a2
    j1 = j1
    userA = userA
    userB = userB
    mailA = mailA
    mailB = mailB
    sub = sub
    All = All
    Unknown = Unknown
    None = None
INVARIANTS
    TypeOK
    BoundsHold
    SharedLoadsAreFair
    ReadsAreWhole
    EverythingIsRecorded
    DeadlinesHold
PROPERTIES
    NothingStaleIsUsed
CHECK_DEADLOCK FALSE
