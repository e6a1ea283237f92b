SPECIFICATION Spec
CONSTANTS
    Address = {a1, a2}
    Limit = 2
    Window = 2
    MaxTime = 5
    MaxCalls = 6
SYMMETRY Symmetry
INVARIANTS TypeOK RegistrationBudget LimitIsEarned BucketsAreReaped RegisteredAreSafe
CHECK_DEADLOCK FALSE
