\* Writes, grants, the rollout and the base server, in small.
SPECIFICATION Spec
CONSTANTS
    a1 = a1
    a2 = a2
    p1 = p1
    p2 = p2
    lock = lock
    plain = plain
    d1 = d1
    d2 = d2
    m1 = m1
    m2 = m2
    page = page
    t1 = t1
    t2 = t2
    t3 = t3
    mailA = mailA
    mailB = mailB
    sub = sub
    userA = userA
    userB = userB
    r1 = r1
    r2 = r2
    k1 = k1
    k2 = k2
    off = off
    e = e
    e1 = e1
    e2 = e2
    code = code
    prod = prod
    staging = staging
    b1 = b1
    b2 = b2
    tk7 = tk7
    tk8x = tk8x
    tkx = tkx
    None = None
INVARIANTS
    TypeOK
    WritesAreSerialized
    NothingPassesUnapproved
PROPERTIES
    AuthorityCoversSends
    EverythingIssuedIsListed
CHECK_DEADLOCK FALSE
