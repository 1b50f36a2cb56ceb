CONSTANTS
    gAnn = gAnn
    aAnn = aAnn
    gBob = gBob
    x = x
    y = y
    z = z
    c1 = c1
    c2 = c2
    c3 = c3
    None = None
    Callers = {c1, c2, c3}
    Identities = {gAnn, aAnn, gBob}
    Addresses = {x, y, z}
    Requests <- MCRequests
    Configs <- MCConfigs
    Stored <- MCStored
    MaxUsers = 3
    MaxTokens = 2
    MaxBoots = 2
    MaxTime = 2
    Idle = 2
SPECIFICATION MCSpec
SYMMETRY Alike
INVARIANTS
    AdmissionTypeOK
    ActsOnlyIfAdmitted
    EveryAddressWasVouchedFor
    OneClaimWins
PROPERTIES
    ClaimedWithAnOwner
    BindingStays
    EndedStaysEnded
CHECK_DEADLOCK FALSE
