\* Nothing but the late insert of the first refresh token is needed.
SPECIFICATION Spec
CONSTANTS
    Tokens = {t1, t2}
    Families = {f1}
    Calls = {c1}
    NoToken = NoToken
    NoFamily = NoFamily
    NoCall = NoCall
INVARIANTS
    EveryJtiOfADeadFamilyIsRevoked
