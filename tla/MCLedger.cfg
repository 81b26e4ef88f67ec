\* Two actions on one resource, with different graces, and two owner tokens.
SPECIFICATION LedgerAlone
CONSTANTS
    a1 = a1
    a2 = a2
    p1 = p1
    p2 = p2
    k1 = k1
    plain = plain
    other = other
    d1 = d1
    NoOwner = NoOwner
    NoAction = NoAction
    Actions <- TwoActions
    Owners <- TwoCalls
    Locks <- OneLock
    LockOf <- MCLockOf
    GraceOf <- TwoGraces
    Values <- OneState
    DesiredOf <- MCDesiredOf
    PreflightLease = 2
    MutationLease = 2
    ConfirmGap = 1
    IntentTtl = 2
    MaxIntentWindow = 2
    SendWindow = 0
    LandWindow = 0
    ObserveWindow = 0
    MaxEdits = 0
    MaxTime = 9
    MayRevoke = FALSE
SYMMETRY CallSymmetry
INVARIANTS
    ChecksHold
    OneUnresolvedPerLock
    NotAppliedIsConfirmed
    GraceIsKept
PROPERTIES
    OutcomesAreFinal
    ConflictsAreQuarantined
CHECK_DEADLOCK FALSE
