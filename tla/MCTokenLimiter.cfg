SPECIFICATION Spec
CONSTANTS
    Task = {t1}
    Token = {k1, k2}
    Call = {c1, c2}
    Limit = 2
    Window = 3
    Skew = 1
    MaxTime = 6
    MaxCalls = 5
SYMMETRY Symmetry
INVARIANTS TypeOK BudgetPerTask RefusalIsEarned LogsAreReaped
CHECK_DEADLOCK FALSE
