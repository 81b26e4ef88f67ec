\* One sign-in, a code and three refresh tokens, two requests at a time.
SPECIFICATION Spec
CONSTANTS
    Tokens = {t1, t2, t3, t4}
    Families = {f1}
    Calls = {c1, c2}
    NoToken = NoToken
    NoFamily = NoFamily
    NoCall = NoCall
SYMMETRY Symmetry
INVARIANTS
    TypeOK
    OneLiveTokenPerFamily
    ReuseEndsTheSession
    DeathReachesAccessTokens
PROPERTIES
    RotationsStop
