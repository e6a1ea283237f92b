SPECIFICATION Spec
CONSTANTS
    Login = {l1}
    Req = {r1, r2}
    PendingTTL = 1
    ConsentTTL = 1
    CodeTTL = 1
    AccessTTL = 1
    RefreshTTL = 2
    UpstreamTTL = 5
    HandlerDelay = 1
    MaxTime = 6
    MaxKey = 8
SYMMETRY Symmetry
INVARIANTS TypeOK UniqueGrant OneCodeGrant OnlyApproved RevokedFamilyDies RefreshStopsAtDisable OffboardingBound RefreshWindow
PROPERTY ImplementsLoginGrant
CHECK_DEADLOCK FALSE
