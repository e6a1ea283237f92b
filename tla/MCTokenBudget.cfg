SPECIFICATION Spec
CONSTANTS
    Task = {t1, t2}
    Token = {k1}
    Call = {c1}
    Limit = 2
    Window = 2
    Skew = 0
    MaxTime = 2
    MaxCalls = 3
INVARIANTS BudgetPerToken
CHECK_DEADLOCK FALSE
