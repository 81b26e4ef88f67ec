\* Every analysis tool that is modelled, in small.
SPECIFICATION Spec
CONSTANTS
    j1 = j1
    j2 = j2
    a1 = a1
    a2 = a2
    a3 = a3
    c1 = c1
    c2 = c2
    p1 = p1
    h1 = h1
    h2 = h2
    h3 = h3
    s1 = s1
    s2 = s2
    me = me
    All = All
    None = None
    Bad = Bad
    Malformed = Malformed
INVARIANTS
    TypeOK
    WholeMeansWhole
    CountsAddUp
PROPERTIES
    AnswersStayInScope
CHECK_DEADLOCK FALSE
