\* Every module of what a recruiter may see, in small.
SPECIFICATION Spec
CONSTANTS
    j1 = j1
    j2 = j2
    c1 = c1
    c2 = c2
    a1 = a1
    a2 = a2
    a3 = a3
    p1 = p1
    p2 = p2
    rec = rec
    adm = adm
    s1 = s1
    s2 = s2
    u1 = u1
    u2 = u2
    a = a
    b = b
    None = None
    Bad = Bad
INVARIANTS
    TypeOK
    NothingWithheldIsShown
    NothingVisibleIsLost
    ScopeNeverWidens
PROPERTIES
    DirectoryIsOneMapping
CHECK_DEADLOCK FALSE
