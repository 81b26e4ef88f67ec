\* Violated: a call for a recorded action is refused after the intent expired.
SPECIFICATION ServiceSpec
CONSTANTS
    a1 = a1
    a2 = a2
    p1 = p1
    p2 = p2
    k1 = k1
    plain = plain
    other = other
    d1 = d1
    NoOwner = NoOwner
    NoAction = NoAction
    Actions <- OneAction
    Owners <- TwoCalls
    Locks <- OneLock
    LockOf <- MCLockOf
    GraceOf <- ShortGraceOf
    Values <- Edited
    DesiredOf <- MCDesiredOf
    PreflightLease = 2
    MutationLease = 2
    ConfirmGap = 1
    IntentTtl = 2
    MaxIntentWindow = 4
    SendWindow = 1
    LandWindow = 1
    ObserveWindow = 1
    MaxEdits = 0
    MaxTime = 6
    MayRevoke = FALSE
SYMMETRY CallSymmetry
PROPERTIES
    ReplayReturnsRecord
CHECK_DEADLOCK FALSE
