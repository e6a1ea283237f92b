SPECIFICATION Spec
CONSTANTS
    Login = {l1}
    Req = {r1}
    PendingTTL = 1
    ConsentTTL = 1
    CodeTTL = 1
    AccessTTL = 2
    RefreshTTL = 3
    UpstreamTTL = 3
    HandlerDelay = 0
    MaxTime = 4
    MaxKey = 5
INVARIANTS OffboardedWithinAccessTTL
CHECK_DEADLOCK FALSE
