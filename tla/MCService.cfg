\* Two calls for one action, passes of the reconciler, an edit, a revocation.
SPECIFICATION ServiceSpec
CONSTANTS
    a1 = a1
    a2 = a2
    p1 = p1
    p2 = p2
    k1 = k1
    plain = plain
    other = other
    d1 = d1
    NoOwner = NoOwner
    NoAction = NoAction
    Actions <- OneAction
    Owners <- TwoCalls
    Locks <- OneLock
    LockOf <- MCLockOf
    GraceOf <- ShortGraceOf
    Values <- Edited
    DesiredOf <- MCDesiredOf
    PreflightLease = 1
    MutationLease = 1
    ConfirmGap = 1
    IntentTtl = 2
    MaxIntentWindow = 2
    SendWindow = 1
    LandWindow = 1
    ObserveWindow = 1
    MaxEdits = 1
    MaxTime = 5
    MayRevoke = TRUE
SYMMETRY CallSymmetry
INVARIANTS
    ServiceTypeOK
    AtMostOneSend
    StatusesAreTrue
    RepliesAreHonest
    RevocationBoundsSends
PROPERTIES
    KeepsPromise
CHECK_DEADLOCK FALSE
